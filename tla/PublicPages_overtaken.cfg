SPECIFICATION Spec
CONSTANTS
    Readers = {r1}
    Writers = {w1}
    Queries = {tags, counts}
    Counts = {counts}
    Posts = posts
    NoReader = NoReader
    MaxWrites = 1
    Faults = FALSE
INVARIANT
    PagesFollowWrites
