SPECIFICATION Spec
CONSTANTS
    SizeMod = 8
    ElfMod = 16
    ImageSizes = {0, 3}
    Headers = {2, 5, 9, 14}
    None = None
INVARIANTS
    TypeOK
    ReadsInImage
    SegmentsInMemory
    ResultConsistent
    AcceptsWhatFits
CHECK_DEADLOCK FALSE
