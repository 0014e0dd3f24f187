CONSTANTS
    Addr = {a1, a2, a3}
    None = none
    GItemBase = 100
    MaxBorn = 3
    Classes = {"QDialog", "QMenu", "QGraphicsView", "QQuickWindow", "QTimer"}
    qtQuickAvailable = TRUE
SPECIFICATION DiscoverySpec
SYMMETRY AddrSymmetry
INVARIANTS
    ObjectIdsStable
    NamedOnce
    ParentListsIt
    WalkReaches
CHECK_DEADLOCK FALSE
