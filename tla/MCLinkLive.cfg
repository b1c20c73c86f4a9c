SPECIFICATION FairSpec
CONSTANTS
    Sessions = 1
    Client = {c1}
    Command = {k1}
    WriteAttempts = 2
    Work = {"reconnect", "prime", "probe"}
    None = None
\* The session may be unloaded, with nothing left to do.
CHECK_DEADLOCK FALSE
PROPERTIES
    CommandEnds
    DialsAgain
    KeptIsRetried
