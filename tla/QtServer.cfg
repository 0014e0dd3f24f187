CONSTANTS
    Client = {c1}
    MaxFd = 1
    MaxConn = 4
    Backlog = 1
    Chunks = 1
    MaxAppFiles = 2
    MaxSignals = 0
    MaxStops = 2
    MayExit = FALSE
    MaxShutdowns = 2
    Modal = TRUE
SPECIFICATION QtFairSpec
INVARIANTS
    OneRequestAtATime
    ThreadOwned
    StoppedOnce
PROPERTIES
    ImplementsPipeServer
    QtTransactEnds
    StopReturnsOrRequest
CHECK_DEADLOCK FALSE
