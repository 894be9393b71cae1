SPECIFICATION Spec
CONSTANTS
    Tags = {t1, t2}
    Editors = {e1, e2}
    NoTag = NoTag
    Merges = FALSE
    MaxRequests = 2
    MaxAtOnce = 1
    DBFaults = FALSE
INVARIANT
    AlwaysAcyclic
