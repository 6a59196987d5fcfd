CONSTANTS
    Sessions = {s1, s2}
    Work = 1
    MaxRuns = 2
    NoPackage = NoPackage
    Torn = Torn
SPECIFICATION SoloSpec
INVARIANT DownloadMatchesDigest
CHECK_DEADLOCK FALSE
