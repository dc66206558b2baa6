SPECIFICATION Spec
CONSTANTS
    Left = {1, 2, 3}
    Right = {1, 2, 3}
    Graphs <- AllGraphs
    Cases <- SomeCases
    Like <- LikeNames
    Allowance = 1
    Calls = {"c1", "c2", "c3"}
    Signals = {"s1", "s2"}
    NoSignal = "no signal"
    NoCall = "no call"
    Tasks <- SomeTasks
    Recordings <- SomeRecordings
    Days <- SomeDays
    NoSql = "no sql"
    Clarify = "clarify"
    MaxAttempts = 2
    MaxRescores = 2
    Repetitions <- SomeRepetitions
    Dates <- SomeDates
    Safe <- SafeSql
    SetupRuns <- SeedRuns
    Fixtures = {1, 2}
    Versions = {"new", "old"}
    Setups <- SomeSetups
    MaxTroubles = 1
    Jobs <- SomeJobs
    Variants <- SomeVariants
    Folded <- FoldedCase
    FloorNum = 1
    FloorDen = 2
    MaxGlitches = 1
    DatasetNames <- SomeDatasetNames
    CaseIds = {1, 2, 3}
    Values <- SomeValues
    FirstDatasets <- SomeDatasets
    FirstControls <- SomeControls
    CaseEdits <- SomeCaseEdits
    ControlEdits <- SomeControlEdits
    NoControls = NoControls
    MaxEdits = 2
INVARIANTS
    VerdictIsExact
    RescoreStable
    BaselineReadsAsReport
    PassIsDeserved
    SelectionIsOrderFree
    FreezeHolds
PROPERTIES
    MatchingExact
    GoldAnswered
    SeedingRepairs
CHECK_DEADLOCK FALSE
