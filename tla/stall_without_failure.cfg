\* Turns for input and wakeups that change nothing but do not fail either.
SPECIFICATION FairSpec
CONSTANTS
    U32Max = 8
    Reasons <- MCOutsideReasons
    Failures <- MCFailures
    MaxSteps = 0
    MaxPending = 1
INVARIANT
    NoEndlessStall
CHECK_DEADLOCK FALSE
