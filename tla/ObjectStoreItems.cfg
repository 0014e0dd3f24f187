CONSTANTS
    Addr = {a1, a2}
    GItemBase = 3
    MaxBorn = 3
SPECIFICATION Spec
SYMMETRY AddrSymmetry
INVARIANTS
    ItemIdsStable
CHECK_DEADLOCK FALSE
