SPECIFICATION FairSpec
CONSTANTS
    a = a  b = b  c = c  d = d  x = x  y = y  z = z
    phone = phone  passport = passport  visa = visa
    NoUid = NoUid  NoDoc = NoDoc
    Accounts = {a, b, c, d}
    Addresses = {x, y, z}
    Devices = {phone}
    Docs = {passport, visa}
    Evidence <- MCEvidence
    Asked <- MCAsked
    HopsLimit = 4
INVARIANTS
    WalkIsTheBall
    ScoresFollowTheMoney
    ExhaustedIsComponent
    ExposureIsExact
    ClusterIsSupported
    WalkedHopsAreAttributed
PROPERTY Finishes
