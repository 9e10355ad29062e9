SPECIFICATION CooperativeSpec
CONSTANTS
    MaxThreads = 3
    Priorities = {0, 1}
    MaxTime = 9
    YieldDelay = 1
    Delays = {0, 1}
    TickAttached = FALSE
    Horizon = 2
    MaxDepth = 0
INVARIANTS
    CleanedBeforeHandOver
PROPERTIES
    DominantRuns
CHECK_DEADLOCK FALSE
