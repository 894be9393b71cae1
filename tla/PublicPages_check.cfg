SPECIFICATION LiveSpec
CONSTANTS
    Readers = {r1, r2}
    Writers = {w1, w2}
    Queries = {tags, counts}
    Counts = {counts}
    Posts = posts
    NoReader = NoReader
    MaxWrites = 1
    Faults = TRUE
INVARIANTS
    GraphFresh
    PagesFresh
PROPERTY
    ReadersAnswered
