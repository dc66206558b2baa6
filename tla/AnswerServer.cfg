SPECIFICATION FairSpec
CONSTANTS
    Requests = {r1, r2}
    Admins = {a1, a2}
    MaxVersion = 2
    MaxInspections = 2
    Databases = {"empty", "demo", "demo+1"}
    Ready = {"demo", "demo+1"}
    SchemaVersion <- SchemaVersions
    MaxEntries = 1
INVARIANTS
    CacheIsFresh
PROPERTIES
    DeadlineBoundsRequest
CHECK_DEADLOCK FALSE
