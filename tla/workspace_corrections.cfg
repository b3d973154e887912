\* decide-workspace called between turns: the attempts of a correction never arrive.
SPECIFICATION FairSpec
CONSTANTS
    U32Max = 5
    Route = "workspace"
    FilePolicy <- MCSmallPolicy
    Failures <- MCFailures
    StepsPerTurn = {1}
    MaxSteps = 3
    Nil = Nil
INVARIANT
    SelfCorrectionBounded
CHECK_DEADLOCK FALSE
