SPECIFICATION Spec
CONSTANTS
    Start <- MCStart
    End = 16384
    AddrSpace <- MCAddrSpace
    Sizes <- WholeHeap
    PageSizes <- PageTableSize
    BootHeads <- NoHeads
    PastEnd = {0}
    Careful = FALSE
    MaxLive = 2
INVARIANT
    LiveDisjoint
CHECK_DEADLOCK FALSE
