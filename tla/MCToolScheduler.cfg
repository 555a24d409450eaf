SPECIFICATION Spec
CONSTANTS
    N = 4
    MaxParallel = 2
    MaxFlips = 1
CHECK_DEADLOCK FALSE
INVARIANTS
    TypeOK
    PoolDiscipline
    LogIsTrue
PROPERTIES
    NoStartAfterAbort
    Terminates
