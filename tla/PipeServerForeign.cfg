CONSTANTS
    Client = {c1, c2}
    MaxFd = 2
    MaxConn = 4
    Backlog = 1
    Chunks = 2
    MaxAppFiles = 1
    MaxSignals = 1
    MaxStops = 1
    MayExit = TRUE
SPECIFICATION Spec
SYMMETRY ClientSymmetry
INVARIANTS
    NoForeignClose
CHECK_DEADLOCK FALSE
