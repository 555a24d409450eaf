SPECIFICATION Spec
CONSTANTS
    Reader = {r}
    Limit = 2
    MaxLen = 6
    MaxFeed = 1
    MaxFaults = 3
CHECK_DEADLOCK FALSE
INVARIANTS
    TypeOK
    StreamIsHonest
PROPERTIES
    ImplementsWindow
    CatchesUp
