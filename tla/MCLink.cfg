SPECIFICATION Spec
CONSTANTS
    Sessions = 1
    Client = {c1, c2}
    Command = {k1, k2}
    WriteAttempts = 2
    Work = {"prime", "probe"}
    None = None
SYMMETRY Symmetry
\* The session may be unloaded, with nothing left to do.
CHECK_DEADLOCK FALSE
INVARIANTS
    TypeOK
    NothingForgotten
    HeldIsSound
    VouchChannelStays
    WaitsForSomebody
PROPERTIES
    LiveLinkLetGoByItsUser
    GoesThroughOneDoor
    TakesTurns
