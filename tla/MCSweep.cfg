CONSTANTS
    w1 = w1
    w2 = w2
    nobody = nobody
    Accounts = {1, 2, 3}
    Addresses = {w1, w2}
    Nobody = nobody
    Worlds <- MCWorlds
SPECIFICATION Spec
CHECK_DEADLOCK FALSE
INVARIANTS
    HopsAreShortest
    NamesakeSeedsNothing
    OneRowPerSurfaced
    ExposureIsAnswered
    SignalNeverBinds
    TotalityIsWeighed
    CheckTellsTheSweep
    OpenMatchesAreAsked
    ChainTellsTheSweep
