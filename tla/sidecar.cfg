\* A sidecar that decides as the local orchestrator does, over either transport.
SPECIFICATION SidecarFairSpec
CONSTANTS
    U32Max = 5
    Reasons = {"TriggerTurnWakeup", "CompactionRecovery"}
    Failures = {}
    MaxSteps = 0
    MaxPending = 1
    Nil = Nil
    Err = Err
    Transports = {"service", "pipe"}
    MaxInFlight = 2
INVARIANTS
    SidecarInv
PROPERTIES
    ServiceKeepsSession
    StaleDecisionLeavesTrace
    UndecidedOnlyIfLost
CHECK_DEADLOCK FALSE
