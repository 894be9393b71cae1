SPECIFICATION EitherSpec
CONSTANTS
    MaxJobs = 2
    MaxAttempts = 2
    BackoffBase = 1
    MaxBackoff = 1
    Retention = 0
    MaxLag = 1
    MaxRestarts = 1
    MaxRetries = 1
    DBFaults = FALSE
    MaxPublishes = 1
    LostReplies = FALSE
    LastPlugin = 2
    Default = 2
    Rule = "1"
    Reqs = {q1, q2}
    NoKey = NoKey
INVARIANT
    SingleRunner
PROPERTIES
    EveryJobSettles
    CrossPostArrives
