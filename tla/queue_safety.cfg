SPECIFICATION Spec
CONSTANTS
    c1 = c1
    c2 = c2
    c3 = c3
    Clients = {c1, c2, c3}
    Kind <- TwoAndSlots
    NSlots = 1
    MaySleep = TRUE
    Cancellers = {c1, c2}
    Faults = {"launch", "work", "worker"}
    Main = Main
    Worker = Worker
    NoTask = NoTask
SYMMETRY CompletionSymmetry
INVARIANTS TypeOK WorkerConfined NoLostWakeup TaskConservation RestsOnlyWhenIdle
PROPERTIES NoOvertaking
CHECK_DEADLOCK FALSE
