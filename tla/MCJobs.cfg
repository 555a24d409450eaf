SPECIFICATION Spec
CONSTANTS
    Job = {j1, j2}
    Owner = {a}
    NoOwner = NoOwner
    Wait = {w}
    NoJob = NoJob
    MaxJobs = 1
    MaxWakes = 1
    MaxCalls = 2
    MaxInput = 1
    MaxRemounts = 1
CHECK_DEADLOCK FALSE
INVARIANTS
    TypeOK
    JobDiscipline
PROPERTIES
    JobsConclude
