SPECIFICATION DSpec
CONSTANTS
    Caller = {c1, c2}
    Key = {power, level}
    Value = {v1, v2}
    StateKeys = {power, level}
    Resets = {}
    Default = v1
    Carried <- AnyReport
    Attempts = 2
    None = None
SYMMETRY Symmetry
INVARIANTS
    MirrorIsTheLamps
PROPERTIES
    DoneOnTheLampsWord
    TakesTurns
