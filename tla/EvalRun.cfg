SPECIFICATION PartSpec
CONSTANTS
    NumCases = 2
    Repeat = 2
    NumLanes = 2
    Budget = 2
    MaxCost = 2
    CaseWorlds <- SomeWorlds
    Rules = {"G1", "G2"}
    MaxTries = 2
    MaxFaults = 2
    SomeRepetitions <- SomeLists
    AnswerCases = {"a", "b", "c"}
    BehaviorCases = {"d"}
    Golds = {1, 2}
    GateRuns = {"r1", "r2"}
    RunOptions <- SomeOptions
    RunDays <- SomeDays
    Earlier <- SomeBaselines
    MaxChanges = 1
    AlphaOver = 3
    AlphaUnder = 5
    ReportCases = {"a", "b", "c", "d"}
    Shares = 2
    DeclineCases = {"d"}
    HoldoutCases <- Secrets
    IntentOf <- Intents
    Results <- DisplayResults
    Baselines <- DisplayBaselines
    DisplayOptions <- SomeDisplays
INVARIANTS
    OvershootBounded
    JudgedFairly
    SummaryIsFair
    GateHasTested
    BaselineIsComplete
    HoldoutStaysHidden
PROPERTIES
    RunEnds
CHECK_DEADLOCK FALSE
