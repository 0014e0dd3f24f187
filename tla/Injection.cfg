CONSTANTS
    Process = {p1, p2}
    Nobody = Nobody
    MaxLoads = 3
    Attempts = 2
SPECIFICATION FairSpec
INVARIANTS
    OneServer
    CodeMapped
    UnloadedUnlessAgain
    HolderConnected
PROPERTY
    CallEnds
CHECK_DEADLOCK FALSE
