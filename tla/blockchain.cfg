SPECIFICATION Spec
CONSTANTS
    Start <- MCStart
    End <- MCEnd
    Sizes <- MCSizes
    PageSizes <- MCPageSizes
INVARIANTS
    TypeOK
    Tiled
PROPERTIES
    HeapContract
CHECK_DEADLOCK FALSE
