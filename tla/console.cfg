SPECIFICATION Spec
CONSTANTS
    WIDTH = 3
    HEIGHT = 2
    Word = 512
    Items <- MCItems
    IrqItems <- MCIrqItems
    Inside = FALSE
    MaxRows = 3
INVARIANTS
    WindowOnPaper
    CursorInScreen
    NumbersReadBack
    NumberKeepsLength
CHECK_DEADLOCK FALSE
