SPECIFICATION ServerSpec
CONSTANTS
    Last = 2
    KeepCount = 2
    MaxBoots = 3
    MaxWrites = 1
    Empty = Empty
    Torn = Torn
    NoFile = NoFile
INVARIANTS
    TypeOK
    ServedIsWanted
    RolledBackExactly
    CopySurvives
    DemoKept
CHECK_DEADLOCK FALSE
