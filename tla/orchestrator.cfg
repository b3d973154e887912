\* Every reason for a turn, with input and mail arriving at any time.
SPECIFICATION Spec
CONSTANTS
    U32Max = 5
    Reasons <- ContinueReason
    Failures <- MCFailures
    MaxSteps = 1
    MaxPending = 1
INVARIANTS
    OrchestratorInv
    FailureStallBounded
    PostCompactionStallBounded
    HandoffNeedsStall
    HandoffCheckpointed
PROPERTIES
    KeepsWakeups
CHECK_DEADLOCK FALSE
