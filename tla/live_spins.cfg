\* decide-codex-snapshot with live snapshots: what the host counted never arrives.
SPECIFICATION FairSpec
CONSTANTS
    U32Max = 5
    Route = "live"
    FilePolicy <- MCSmallPolicy
    Failures <- MCFailures
    StepsPerTurn = {1}
    MaxSteps = 1
    Nil = Nil
INVARIANT
    NoSpin
CHECK_DEADLOCK FALSE
