SPECIFICATION Spec
CONSTANTS
    Threads = {t1, t2}
    MaxArenas = 2
    HeapBlocks = 3
    BlockBytes = 8
    Align = 2
    HeaderBytes = 1
    SizeMod = 128
    CountMod = 4
    Sizes = {1, 8, 33}
    Counts = {2}
    TickAttached = TRUE
    MaxLive = 3
SYMMETRY Symmetry
INVARIANTS
    TypeOK
    LiveSeparate
    SectorsAnswer
    Coalesced
    BlocksAccounted
PROPERTIES
    ImplementsHeap
CHECK_DEADLOCK FALSE
