SPECIFICATION FairSpec
CONSTANTS
    p1 = p1
    p2 = p2
    g1 = g1
    d1 = d1
    c1 = c1
    Posts = {p1, p2}
    Gets = {g1}
    Deletes = {d1}
    Convs = {c1}
    Conv <- OneConversation
    Failing = {p2}
    Closing = {p1}
    Offsets = {0}
    Chunks = {1, 2, 3}
    CapBytes = 2
    MaxBytes <- LongAndEmpty
    None = None
INVARIANTS RingKeepsTail OutsideIsClosing FoundIsWhole
PROPERTIES ReplaysTheLog ReadersReturn CancelEndsStream
CHECK_DEADLOCK FALSE
