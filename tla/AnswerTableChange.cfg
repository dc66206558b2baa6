SPECIFICATION Spec
CONSTANTS
    Requests = {r1, r2}
    Admins = {a1}
    MaxVersion = 2
    MaxInspections = 2
    Databases = {"empty", "demo", "demo+1"}
    Ready = {"demo", "demo+1"}
    SchemaVersion <- SchemaVersions
    MaxEntries = 1
INVARIANT TableChangeBusts
CHECK_DEADLOCK FALSE
