\* Two processes boot side by side, with two kills or failures.
SPECIFICATION BootSpec
CONSTANTS
    Processes = {p1, p2}
    Tables = {t1, t2}
    MaxBoots = 3
    MaxMishaps = 2
SYMMETRY BootSymmetry
INVARIANTS LoneBootHeals FailureRollsBack
PROPERTY LoneBootKeepsData
CHECK_DEADLOCK FALSE
