SPECIFICATION Spec
CONSTANTS
    YieldDelay = 2
    HeartbeatDelay = 200
    thread_yielddelay = 1000
INVARIANTS
    TypeOK
PROPERTIES
    EarlyReturnsBrief
    EveryoneRuns
