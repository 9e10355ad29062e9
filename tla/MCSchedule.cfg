SPECIFICATION Spec
CONSTANTS
    MaxThreads = 3
    MaxPriority = 1
    MaxTime = 3
    Horizon = 2
INVARIANTS
    TypeOK
    ReturnsPreferred
CHECK_DEADLOCK FALSE
