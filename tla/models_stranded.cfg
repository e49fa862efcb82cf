SPECIFICATION FairSpec
CONSTANTS
    a = a
    b = b
    c = c
    r1 = r1
    r2 = r2
    r3 = r3
    r4 = r4
    Models = {a, b, c}
    ModelsMax = 1
    Requests = {r1, r2}
    Wants <- ApartWants
    Kind <- ApartKind
    Closing = {}
    Crashing = {}
    NoModel = NoModel
PROPERTIES WaitersAreServed
CHECK_DEADLOCK FALSE
