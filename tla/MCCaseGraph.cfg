\* The code's bounds.  A run stops when it has ended.
SPECIFICATION Spec
CONSTANTS
    HopRequests <- MCHopRequests
    Reaches <- MCReaches
    MaxMatches = 2
    MaxClaims = 2
    MAX_HOPS_LIMIT = 7
    MAX_REVISION_ITERATIONS = 3
    RECURSION_LIMIT = 100
INVARIANTS PathIsReplayable DispositionIsGrounded ExpansionIsComplete
PROPERTY ImplementsCaseLife
CHECK_DEADLOCK FALSE
