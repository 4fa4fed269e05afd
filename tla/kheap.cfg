SPECIFICATION Spec
CONSTANTS
    Start <- MCStart
    End = 20480
    AddrSpace <- MCAddrSpace
    Sizes <- FillingSizes
    PageSizes <- PageTableSize
    BootHeads <- MCHeads
    PastEnd = {0, 1}
    Careful = TRUE
    MaxLive = 2
INVARIANTS
    TypeOK
    FootersMatch
    BinsWellFormed
    HolesAreBinned
    PayloadIntact
    LiveNotFree
PROPERTIES
    ChainSpec
CHECK_DEADLOCK FALSE
