SPECIFICATION Spec
CONSTANTS
    MaxThreads = 2
    TickAttached = TRUE
    TickInWindows = FALSE
    MaxFrames = 3
INVARIANTS
    TypeOK
    RunsAsLeft
    FramesHold
PROPERTIES
    SwitchesEnd
CHECK_DEADLOCK FALSE
