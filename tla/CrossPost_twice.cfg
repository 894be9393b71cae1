SPECIFICATION Spec
CONSTANTS
    MaxJobs = 1
    MaxAttempts = 2
    BackoffBase = 1
    MaxBackoff = 1
    Retention = 0
    MaxLag = 1
    MaxRestarts = 1
    MaxRetries = 0
    DBFaults = FALSE
    MaxManual = 0
    MaxPublishes = 1
    LostReplies = FALSE
INVARIANT
    PostedOnce
