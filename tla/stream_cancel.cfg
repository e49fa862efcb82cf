SPECIFICATION FairSpec
CONSTANTS
    p1 = p1
    p2 = p2
    g1 = g1
    d1 = d1
    c1 = c1
    Posts = {p1}
    Gets = {}
    Deletes = {d1}
    Convs = {c1}
    Conv <- OneConversation
    Failing = {p1}
    Closing = {p1}
    Offsets = {0, 1}
    Chunks = {1, 2, 3}
    CapBytes = 2
    MaxBytes <- LongAndEmpty
    None = None
INVARIANTS CancelDoesNotInterrupt
CHECK_DEADLOCK FALSE
