SPECIFICATION Spec
CONSTANTS
    MaxTasks = 5
    Limits <- MCLimits
    DefaultLimit = 2
    MaxLimit = 3
INVARIANTS
    TypeOK
    MissesExplained
    RepeatsExplained
CHECK_DEADLOCK FALSE
