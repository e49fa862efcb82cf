CONSTANTS
    Size = 2
    MaxPos = 1
    Seqs = {0, 1}
    Unified = FALSE
    SwaType = "none"
    NSwa = 2
    NUbatch = 1
    MaxBatch = 2
    Shifts <- BackOne
    MaxCopies = 1
    StateIO = TRUE
SPECIFICATION Spec
INVARIANTS KeysMatch
PROPERTIES NoSlotOnlyWhenFull
