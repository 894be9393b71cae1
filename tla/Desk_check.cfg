SPECIFICATION DeskSpec
CONSTANTS
    MaxJobs = 1
    MaxAttempts = 2
    BackoffBase = 1
    MaxBackoff = 1
    Retention = 0
    MaxLag = 1
    MaxRestarts = 1
    MaxRetries = 0
    DBFaults = TRUE
    MaxManual = 1
    MaxPublishes = 1
    LostReplies = TRUE
INVARIANTS
    DuplicatesExplained
    AdminKept
CHECK_DEADLOCK FALSE
