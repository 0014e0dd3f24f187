CONSTANTS
    Client = {c1, c2}
    MaxFd = 1
    MaxConn = 3
    Backlog = 1
    Chunks = 2
    MaxAppFiles = 1
    MaxSignals = 1
    MaxStops = 1
    MayExit = TRUE
SPECIFICATION Spec
SYMMETRY ClientSymmetry
INVARIANTS
    AnsweredOnce
    NothingLeft
    FailedOnlyAtEnd
PROPERTY
    ImplementsRpc
CHECK_DEADLOCK FALSE
