CONSTANTS
    Injector = {i1, i2}
    Nobody = Nobody
    MaxSignals = 2
    MaxInterrupts = 1
    StackMapped = {TRUE, FALSE}
    MayDie = TRUE
SPECIFICATION FairSpec
INVARIANTS
    RunsItself
    LetsGo
    LoadedOnce
PROPERTY
    InjectionEnds
CHECK_DEADLOCK FALSE
