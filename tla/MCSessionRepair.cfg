SPECIFICATION Spec
CONSTANTS
    CallId = {a, b}
    MaxTurns = 2
    MaxSteps = 2
    MaxChunks = 2
    MaxPrunes = 1
    MaxCrashes = 2
SYMMETRY CallIdSymmetry
INVARIANTS
    TypeOK
    TranscriptIsTrue
    LogsAreLegal
CHECK_DEADLOCK FALSE
