SPECIFICATION Spec
CONSTANTS
    Conns = {c1, c2}
    Clients = {k1, k2}
    MaxRequests = 2
    Window = 2
    MaxKeys = 1
    MaxTime = 4
    HostCheck = TRUE
    AuthEnabled = TRUE
    MaxId = 2
    Tables = {1, 2, 3, 4, 5}
    Bounds = {2, 3}
    Schemas <- SomeSchemas
    Configs <- SomeConfigs
    Scores <- SomeScores
    Requirements <- SomeRequirements
    Order <- SomeOrder
    MaxTables = 2
    JoinHops = 2
    WidenHops = 1
    TooLarge = TRUE
    Queries <- SomeQueries
    Databases <- SomeDatabases
    Statements <- SomeStatements
    Names = {"orders", "secrets", "SECRETS", "sleep"}
    Lower <- LowerOf
    Allowed = {"orders"}
    Trees <- SomeTrees
    TableColumns <- SomeTables
    LowerCase <- LowerColumns
    MixedCase = {"CustId", "Id", "Name", "Orders", "Customers", "Recent"}
    Relationships <- Related
    MetricChecks <- SomeMetricChecks
    TableOf <- TableValues
    Literal <- Literals
    Environments <- SomeEnvironments
    Machines <- SomeMachines
    MaxMeddling = 1
    MaxPolls = 2
    Reviews <- SomeReviews
    DatabaseNames <- ShortNames
    ListedPrices <- Listed
    PricedRuns <- SomePricedRuns
INVARIANTS
    CleanExit
    LimitKept
    PageIsRight
    PathIsShortest
    PromptJoinable
    FanOutExact
    ScopeIsExact
    NamesAreTheServers
    DifferenceReachesResult
    GrantsAreJudged
    ChargesAreCounted
PROPERTIES
    ShutdownEnds
    PreflightIsSafe
CHECK_DEADLOCK FALSE
