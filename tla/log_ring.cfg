SPECIFICATION FairSpec
CONSTANTS
    l1 = l1
    l2 = l2
    Loggers = {l1, l2}
    Capacity = 3
    MaxMessages = 2
    Empty = Empty
INVARIANTS RingHoldsPending PausedIsFlushed
PROPERTIES AddReturns EveryMessagePrinted
CHECK_DEADLOCK FALSE
