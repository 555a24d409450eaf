SPECIFICATION Spec
CONSTANTS
    MaxMessages = 2
    MaxSteps = 2
    MaxJobs = 1
CHECK_DEADLOCK FALSE
INVARIANTS
    TypeOK
    LogDiscipline
    NothingOwed
    DisposedIsQuiescent
PROPERTIES
    NoWorkAfterAbort
    Converges
