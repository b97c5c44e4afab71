SPECIFICATION FairSpec
CONSTANTS
    N = 2
    JobStatus <- MCJobStatus
INVARIANTS
    OrderKept
    FlagsRespected
    OutcomeIsTrue
PROPERTIES
    PlanEnds
    PlanAdvances
CHECK_DEADLOCK FALSE
