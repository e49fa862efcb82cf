SPECIFICATION FairSpec
CONSTANTS
    r1 = r1
    r2 = r2
    t1 = t1
    t2 = t2
    t3 = t3
    Readers = {r1, r2}
    TaskIds = {t1, t2, t3}
    IdsOf <- TwoAndOne
    Streaming = {r2}
    Closing = {r1, r2}
    Failing = {t1}
    Endless = {t3}
    MaxPartials = 1
    MaxResults = 2
INVARIANTS FinalNotLost NothingLeftBehind NoAbandonedTask
PROPERTIES OrderedChannels RequestsAnswered
CHECK_DEADLOCK FALSE
