CONSTANTS
    Client = {c1}
    MaxFd = 1
    MaxConn = 2
    Backlog = 1
    Chunks = 1
    MaxAppFiles = 0
    MaxSignals = 0
    MaxStops = 1
    MayExit = FALSE
    MaxShutdowns = 1
    Modal = FALSE
SPECIFICATION QtFairSpec
PROPERTIES
    CleanStop
CHECK_DEADLOCK FALSE
