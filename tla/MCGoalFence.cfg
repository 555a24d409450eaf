SPECIFICATION FenceSpec
CONSTANTS
    MaxGoals = 1
    MaxRevision = 3
    MaxCap = 2
    MaxInput = 1
    OuterAwait = TRUE
CHECK_DEADLOCK FALSE
INVARIANT FoldNeverFails
