SPECIFICATION Spec
CONSTANTS
    Sessions = 1
    Client = {c1, c2}
    Command = {k1, k2}
    WriteAttempts = 2
    Work = {}
    None = None
CHECK_DEADLOCK FALSE
INVARIANTS
    OneKept
