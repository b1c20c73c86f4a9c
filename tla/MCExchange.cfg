SPECIFICATION Spec
CONSTANTS
    Limit = 3
    MaxFaults = 3
INVARIANTS
    TypeOK
    BroughtUpWhole
    CheckedWasActive
    PrimedSpoke
PROPERTIES
    Settles
    IsBroughtUp
