SPECIFICATION Spec
CONSTANTS
    FrameCount = 40
    KernelEnds <- MCKernelEnds
    BitsetBytes = 8
    TabPages = 4
    HeapStart = 64
    HeapPages = 4
    Reserved <- MCReserved
INVARIANTS
    TakenMapped
    HeapFramesOwn
    TakenDisjoint
PROPERTIES
    BootEnds
CHECK_DEADLOCK FALSE
