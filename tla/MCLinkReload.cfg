SPECIFICATION Spec
CONSTANTS
    Sessions = 2
    Client = {c1, c2}
    Command = {k1}
    WriteAttempts = 2
    Work = {"prime"}
    None = None
SYMMETRY Symmetry
\* The last session may be unloaded, with nothing left to do.
CHECK_DEADLOCK FALSE
INVARIANTS
    StoppedHoldsNothing
PROPERTIES
    DialMeetsNoLink
