SPECIFICATION KeptSpec
CONSTANTS
    MaxJobs = 2
    MaxAttempts = 3
    BackoffBase = 2
    MaxBackoff = 3
    Retention = 1
    MaxLag = 2
    MaxRestarts = 1
    MaxRetries = 1
    DBFaults = TRUE
    MaxPublishes = 1
    LostReplies = FALSE
    LastPlugin = 2
    Default = 2
    Rule = "1"
    Reqs = {q1, q2}
    NoKey = NoKey
SYMMETRY Interchangeable
INVARIANTS
    TypeOK
    ClaimHeld
    NoLostWakeup
    CacheAgrees
    SlotKept
PROPERTY
    KeepsPromise
