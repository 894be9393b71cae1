SPECIFICATION PagesSpec
CONSTANTS
    a = a
    Tabs = {a}
    Runs <- SyncRuns
    MaxOps = 2
    MaxDrops = 1
    NoOp = NoOp
    Pages = 3
    Fetches = 2
    MaxPagerActs = 3
    Files = 2
    Loads = 2
    MaxUses = 3
    Total = 2
    Slots = 2
    MaxListActs = 2
INVARIANTS
    PagesTypeOK
    QueueKept
    ListKept
    MediaKept
    TagsKept
    PagerKept
    ViewerKept
    PublicKept
CHECK_DEADLOCK FALSE
