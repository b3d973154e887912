\* decide-workspace called between turns with the flags an operator knows.
SPECIFICATION FairSpec
CONSTANTS
    U32Max = 5
    Route = "workspace"
    FilePolicy <- MCSmallPolicy
    Failures <- MCFailures
    StepsPerTurn = {0, 1}
    MaxSteps = 1
    Nil = Nil
INVARIANTS
    NoSpin
PROPERTIES
    StallIsEscalated
CHECK_DEADLOCK FALSE
