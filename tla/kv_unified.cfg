CONSTANTS
    Size = 3
    MaxPos = 3
    Seqs = {0, 1}
    Unified = TRUE
    SwaType = "standard"
    NSwa = 2
    NUbatch = 2
    MaxBatch = 3
    Shifts <- BackOne
    MaxCopies = 1
    StateIO = FALSE
SPECIFICATION Spec
INVARIANTS CellsConsistent KeysMatch TokensSeeWindow
PROPERTIES DecodeMakesNoHoles NoSlotOnlyWhenFull
