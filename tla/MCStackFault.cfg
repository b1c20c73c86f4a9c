SPECIFICATION FairSpec
CONSTANTS
    Sessions = 2
    Client = {c1, c2}
    FaultAfter = 2
    LongestGap = 3
    CountMax = 3
\* The last session may be stopped, with no hang-up under way.
CHECK_DEADLOCK FALSE
INVARIANTS
    TypeOK
    RepairIsOwned
    EpisodeIsTheFault
PROPERTIES
    EndsWithTheLamp
    DialsGoOn
