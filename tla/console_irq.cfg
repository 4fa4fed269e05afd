SPECIFICATION Spec
CONSTANTS
    WIDTH = 3
    HEIGHT = 2
    Word = 512
    Items <- MCItems
    IrqItems <- MCIrqItems
    Inside = TRUE
    MaxRows = 3
INVARIANT
    CursorInScreen
CHECK_DEADLOCK FALSE
