SPECIFICATION FairSpec
CONSTANTS
    Requests = {r1, r2}
    MaxRuntimes = 3
    HasGrace = TRUE
INVARIANTS
    NoOrphanPool
PROPERTIES
    ImplementsContract
    ClosingEnds
CHECK_DEADLOCK FALSE
