SPECIFICATION FairSpec
CONSTANTS
    InScope <- Schema
    Foreign = {"secrets"}
    Retrieved = {"orders"}
    Linked <- LinkedTables
    MaxRetries = 2
INVARIANTS
    UsageReported
    RejectionHeals
PROPERTIES
    ImplementsContract
    AbortAnswers
CHECK_DEADLOCK FALSE
