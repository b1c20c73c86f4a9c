SPECIFICATION SSpec
CONSTANTS
    Caller = {c1, c2}
    Attempts = 1
    None = None
    Field = {}
    Ask <- AskModes
    Found <- FoundInSchedule
    Calls = 2
SYMMETRY Symmetry
\* The calls are used up.
CHECK_DEADLOCK FALSE
INVARIANTS
    RampRemembered
    ModesApart
PROPERTIES
    AloneDoesAsAsked
