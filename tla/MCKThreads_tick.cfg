SPECIFICATION PreemptiveSpec
CONSTANTS
    MaxThreads = 3
    Priorities = {0, 1}
    MaxTime = 9
    YieldDelay = 1
    Delays = {0, 9}
    TickAttached = TRUE
    Horizon = 2
    MaxDepth = 1
INVARIANTS
    TypeOK
    CriticalExclusion
    InterruptsMatchDepth
    FrameWaits
PROPERTIES
    HandsOverToReady
    CreateRestores
    TickRescues
CHECK_DEADLOCK FALSE
