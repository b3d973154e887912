\* decide-codex-snapshot with signal snapshots: the limits the adapter hard-codes.
SPECIFICATION FairSpec
CONSTANTS
    U32Max = 5
    Route = "signal"
    FilePolicy <- MCSmallPolicy
    Failures <- MCFailures
    StepsPerTurn = {0, 1}
    MaxSteps = 1
    Nil = Nil
INVARIANTS
    NoSpin
    SelfCorrectionBounded
    CompactionLoopBounded
    HandoffIsEarned
    FakeProgressIsReported
    RoutesAgree
    CompactionInv
PROPERTIES
    StallIsEscalated
    SpinEnds
    KeepsAntiSpinPromise
CHECK_DEADLOCK FALSE
