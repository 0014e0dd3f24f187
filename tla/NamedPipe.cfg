CONSTANTS
    Client = {c1, c2, c3}
    Nobody = Nobody
    MaxCalls = 3
    Sizes = {1, 2}
    Servers = {TRUE, FALSE}
SPECIFICATION FairSpec
INVARIANTS
    OwnReplies
PROPERTIES
    ImplementsRpc
    TransactEndsUnlessCut
CHECK_DEADLOCK FALSE
