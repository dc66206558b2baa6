SPECIFICATION FairSpec
CONSTANTS
    Calls = {r1, r2}
    MaxThreads = 2
    Limit = 1
INVARIANTS
    KillHitsOwnStatement
PROPERTIES
    CancelledSlotReturned
CHECK_DEADLOCK FALSE
