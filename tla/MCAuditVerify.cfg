CONSTANTS
    Bodies = {b1, b2}
    MaxRecords = 3
    MaxEdits = 2
SPECIFICATION Spec
INVARIANTS
    VerdictLocated
    VerifiedIsGenuine
