SPECIFICATION FrontSpec
CONSTANTS
    NoId = NoId
    Parts = 3
    MaxWrites = 2
    MaxMoves = 2
    MaxCalls = 2
    MaxEdits = 2
    MaxErrands = 1
    MaxHandlers = 2
    MaxPosts = 2
    Slots = 2
    Pages = 3
    MaxHops = 2
    Links = {"home", "post1", "post2", "tags", "posts", "setup", "nowhere", "lost", "login"}
    Builds = 2
    Shares = {1, 2}
    MaxDeeds = 4
    Total = 5
    Queue = 2
    Sizes = {2, 5}
    Viewports = {1, 2}
    FitOf <- Windows
    MaxRequests = 2
    MaxSteps = 2
INVARIANTS
    FrontTypeOK
    RouterKept
    ContractKept
    FeedKept
    FitsOnScreen
    ShellKept
    OfflineKept
    EditorKept
PROPERTIES
    FrontSettles
    EditsAreSaved
CHECK_DEADLOCK FALSE
