SPECIFICATION Spec
CONSTANTS
    InScope <- Schema
    Foreign = {"secrets"}
    Retrieved = {"orders"}
    Linked <- LinkedTables
    MaxRetries = 2
INVARIANT FeedbackIsCurrent
CHECK_DEADLOCK FALSE
