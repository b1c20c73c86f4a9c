SPECIFICATION Spec
CONSTANTS
    Sessions = 1
    Client = {c1}
    FaultAfter = 3
    LongestGap = 10
    CountMax = 7
CHECK_DEADLOCK FALSE
PROPERTIES
    AnnouncedInARow
