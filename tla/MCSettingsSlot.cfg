SPECIFICATION SSpec
CONSTANTS
    Caller = {c1, c2}
    Attempts = 1
    None = None
    Field = {"start", "end"}
    Ask <- AskSlot
    Calls = 2
    Found <- FoundInManual
CHECK_DEADLOCK FALSE
PROPERTIES
    SlotKeepsTheRest
