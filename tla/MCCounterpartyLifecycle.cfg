CONSTANTS
    c1 = c1
    c2 = c2
    d1 = d1
    d2 = d2
    Customers = {c1, c2}
    Services = {d1, d2}
    Listed <- MCListed
    Unsayable <- MCUnsayable
    Days = {1, 2}
    MaxRows = 3
    MaxSweeps = 2
SPECIFICATION Spec
INVARIANTS
    UnblockIsEarned
    OffboardIsSticky
    DealersAreAnsweredOnce
    CheckAgreesWithSweep
