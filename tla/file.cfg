\* decide-file with a policy of its own; the host knows of pending approvals.
SPECIFICATION Spec
CONSTANTS
    U32Max = 6
    Route = "file"
    FilePolicy <- MCSmallPolicy
    Failures <- MCFailures
    StepsPerTurn = {0, 1}
    MaxSteps = 6
    Nil = Nil
INVARIANTS
    SessionInv
    HandoffCheckpointed
    CheckpointCadence
PROPERTIES
    CorrectionWaitsForApproval
CHECK_DEADLOCK FALSE
