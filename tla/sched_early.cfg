SPECIFICATION Spec
CONSTANTS
    MaxTasks = 2
    Freq = 2
    Fills <- MCZeroFill
INVARIANT
    ScheduleHasTask
CHECK_DEADLOCK FALSE
