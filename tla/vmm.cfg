SPECIFICATION Spec
CONSTANTS
    FrameCount = 14
    LowPages = 2
    MaxDirs = 5
    BootStates <- MCBootStates
    Values = {0, 1}
INVARIANTS
    TypeOK
    PrivateFrames
    MappedMarked
    CopyKept
    KernelShared
CHECK_DEADLOCK FALSE
