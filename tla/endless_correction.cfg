\* A failure that stays open while edits go on.
SPECIFICATION FairSpec
CONSTANTS
    U32Max = 8
    Reasons <- FollowUpReasons
    Failures <- MCFailures
    MaxSteps = 0
    MaxPending = 0
INVARIANT
    SelfCorrectionBounded
CHECK_DEADLOCK FALSE
