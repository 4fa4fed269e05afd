SPECIFICATION Spec
CONSTANTS
    MaxTasks = 5
    Freq = 2
    Fills <- MCAnyFill
INVARIANTS
    TypeOK
    NoTaskLost
    WalkEnds
    ForkOrder
PROPERTIES
    ForkedTaskChosen
CHECK_DEADLOCK FALSE
