SPECIFICATION LiveSpec
CONSTANTS
    Tags = {t1, t2, t3}
    Editors = {e1, e2}
    NoTag = NoTag
    Merges = TRUE
    MaxRequests = 3
    MaxAtOnce = 1
    DBFaults = TRUE
INVARIANTS
    TypeOK
    AcyclicUnlessExcused
PROPERTY
    RequestsEnd
