SPECIFICATION Spec
CONSTANTS
    Requests = {r1, r2}
    MaxRuntimes = 3
    HasGrace = FALSE
INVARIANT
    LastUserClosesRetired
CHECK_DEADLOCK FALSE
