SPECIFICATION FairSpec
CONSTANTS
    Thread = {t1, t2}
    Nobody = nobody
    Message = {m1, m2}
    Lists = {{m1}}
    MaxCalls = 2
    Capacity = 1
INVARIANTS StaysHooked Recorded ClosedOnce
PROPERTIES HookReturns ProcessEnds
CHECK_DEADLOCK FALSE
