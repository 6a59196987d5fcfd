CONSTANTS
    Sessions = {s1, s2}
    Work = 1
    MaxRuns = 3
    NoPackage = NoPackage
    Torn = Torn
SPECIFICATION Spec
INVARIANTS
    IntactIsSerial
    StampCoversPrefix
PROPERTIES
    LoneRunAgrees
SYMMETRY SessionSymmetry
CHECK_DEADLOCK FALSE
VIEW RunView
