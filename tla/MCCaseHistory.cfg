SPECIFICATION Spec
CONSTANTS
    Subjects = {s1, s2}
    Entities = {dev, doc}
    Depths = {1, 2}
    MaxRuns = 4
SYMMETRY Symmetry
INVARIANTS
    HistoryIsRead
    StoreIsOfLastRuns
    PinIsOnDisk
CHECK_DEADLOCK FALSE
