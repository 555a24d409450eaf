SPECIFICATION Spec
CONSTANTS
    Compressed = TRUE
    MaxEvents = 2
    MaxHandles = 2
    MaxFaults = 1
    MaxCrashes = 1
CHECK_DEADLOCK FALSE
INVARIANTS
    TypeOK
    LosesNothing
PROPERTIES
    HandleProgresses
