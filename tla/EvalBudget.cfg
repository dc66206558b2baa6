SPECIFICATION Spec
CONSTANTS
    NumCases = 3
    Repeat = 2
    NumLanes = 2
    Budget = 1
    MaxCost = 1
INVARIANTS
    OvershootIsCasesInFlight
CHECK_DEADLOCK FALSE
