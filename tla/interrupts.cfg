SPECIFICATION Spec
CONSTANTS
    Versions = {"kern", "v1"}
    Devices = {0, 8, 12}
    Exceptions = {0, 13, 14}
    MaxRaise = 2
    MaxTraps = 1
INVARIANTS
    ComesBack
    OwnNumber
    NothingInService
PROPERTIES
    SegmentsKept
    RequestTaken
CHECK_DEADLOCK FALSE
