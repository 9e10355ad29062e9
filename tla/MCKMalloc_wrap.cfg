SPECIFICATION Spec
CONSTANTS
    Threads = {t1}
    MaxArenas = 2
    HeapBlocks = 3
    BlockBytes = 8
    Align = 2
    HeaderBytes = 1
    SizeMod = 128
    CountMod = 4
    Sizes = {2, 118}
    Counts = {2}
    TickAttached = FALSE
    MaxLive = 3
INVARIANTS
    DataBelowHeaders
CHECK_DEADLOCK FALSE
