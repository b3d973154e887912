\* decide-codex-snapshot with live snapshots: window numbers wider than the counter.
SPECIFICATION Spec
CONSTANTS
    U32Max = 5
    Route = "live"
    FilePolicy <- MCSmallPolicy
    Failures <- MCFailures
    StepsPerTurn = {0, 1}
    MaxSteps = 2
    Nil = Nil
INVARIANTS
    TypeOK
CHECK_DEADLOCK FALSE
