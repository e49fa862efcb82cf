SPECIFICATION FairSpec
CONSTANTS
    a = a
    b = b
    c = c
    r1 = r1
    r2 = r2
    r3 = r3
    r4 = r4
    Models = {a, b}
    ModelsMax = 1
    Requests = {r1, r2, r3, r4}
    Wants <- SharedWants
    Kind <- SharedKind
    Closing = {r1}
    Crashing = {b}
    NoModel = NoModel
INVARIANTS LimitHolds EntriesHaveWaiters LoadIsOwned
PROPERTIES FreeSlotIsUsed StoppedComesDown
CHECK_DEADLOCK FALSE
