SPECIFICATION Spec
CONSTANTS
    Known = {k1, k2}
    Other = {o1, o2}
    Room = 1
    Waiter = {w1, w2}
    None = None
    MaxReports = 3
SYMMETRY Symmetry
\* The reports are used up.
CHECK_DEADLOCK FALSE
INVARIANTS
    TypeOK
    RoomIsCounted
    NoReportMissed
PROPERTIES
    CountsSince
