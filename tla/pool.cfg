SPECIFICATION FairSpec
CONSTANTS
    NThreads = 3
    Graph <- SmallGraph
    NChunks = 8
    MaxGraphs = 2
    MayAbort = TRUE
INVARIANTS StagesInOrder QuietBetweenGraphs ReturnsWhole
PROPERTIES CallsReturn
CHECK_DEADLOCK FALSE
