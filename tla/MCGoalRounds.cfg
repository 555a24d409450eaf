SPECIFICATION FenceSpec
CONSTANTS
    MaxGoals = 1
    MaxRevision = 2
    MaxCap = 2
    MaxInput = 1
    OuterAwait = TRUE
CHECK_DEADLOCK FALSE
INVARIANTS
    TypeOK
    RoundDiscipline
    RestIsExplained
PROPERTIES
    FoldFailsOnlyOvertaken
    ArmedGoalConcludes
