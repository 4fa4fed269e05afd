SPECIFICATION Spec
CONSTANTS
    PAGE = 16
    Word = 512
    MiB = 32
    KernEnds = {44, 48, 63}
    HeapPages = 4
    HeapBytes = 20
    Maps <- MCMaps
    Behind <- MCBehind
INVARIANTS
    StackNotGivenAway
    FramesOwn
CHECK_DEADLOCK FALSE
