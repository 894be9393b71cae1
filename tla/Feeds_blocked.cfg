SPECIFICATION FeedSpec
CONSTANTS
    Total = 3
    Queue = 2
    Sizes = {2}
    Viewports = {1}
    FitOf <- OneFit
    MaxRequests = 2
    MaxSteps = 2
INVARIANT NeverBlocked
CHECK_DEADLOCK FALSE
