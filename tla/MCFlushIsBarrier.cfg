SPECIFICATION Spec
CONSTANTS
    Compressed = TRUE
    MaxEvents = 2
    MaxHandles = 1
    MaxFaults = 0
    MaxCrashes = 0
CHECK_DEADLOCK FALSE
PROPERTY FlushIsBarrier
