SPECIFICATION LiveSpec
CONSTANTS
    c1 = c1
    c2 = c2
    c3 = c3
    Clients = {c1, c2, c3}
    Kind <- TwoAndMetrics
    NSlots = 1
    MaySleep = TRUE
    Cancellers = {}
    Faults = {"work", "worker"}
    Main = Main
    Worker = Worker
    NoTask = NoTask
PROPERTIES TerminateStops EveryTaskSettles AnsweredDuringYield
CHECK_DEADLOCK FALSE
