\* Only the model's own follow-ups propose turns.
SPECIFICATION FairSpec
CONSTANTS
    U32Max = 6
    Reasons <- FollowUpReasons
    Failures <- MCFailures
    MaxSteps = 1
    MaxPending = 0
INVARIANTS
    FollowUpsBounded
PROPERTIES
    FollowUpsEnd
CHECK_DEADLOCK FALSE
