---------------------------- MODULE HarnessTypes ----------------------------
(***************************************************************************)
(* Every snapshot becomes a well-typed request and every request gets a    *)
(* well-typed answer: facts about the pure part of the code, for the       *)
(* proofs about the sessions and the commands it is used in.               *)
(***************************************************************************)
EXTENDS ReasoningHarness, UpstreamAdapter, TLAPS

\* The conversion of each kind of snapshot yields a well-typed request.
LEMMA SignalRequestType ==
  ASSUME NEW body \in CodexSignalSnapshot
  PROVE  CodexSnapshotToHarnessRequest(body) \in ReasoningHarnessRequest
  <1>1. UpstreamPolicy \in EscalationPolicy
    BY U32MaxAssumption DEF UpstreamPolicy, EscalationPolicy, U32
  <1> QED
    BY <1>1 DEF CodexSignalSnapshot, CodexSnapshotToHarnessRequest,
       SignalSelfCorrection, SignalContextPressure,
       ReasoningHarnessRequest, ProhibitionRule, ProgressSnapshot,
       RecoverySnapshot, SelfCorrectionState, PermissionContextSnapshot,
       NoApprovalNeeded, ContextPressure

LEMMA LiveRequestType ==
  ASSUME NEW body \in CodexLiveContinuationSnapshot
  PROVE  CodexLiveSnapshotToHarnessRequest(body) \in ReasoningHarnessRequest
  <1>1. UpstreamPolicy \in EscalationPolicy
    BY U32MaxAssumption DEF UpstreamPolicy, EscalationPolicy, U32
  <1>2. SaturateToU32(body.auto_compact_window_number) \in U32
    BY U32MaxAssumption DEF SaturateToU32, U32
  <1>3. 0 \in U32 /\ 1 \in U32
    BY U32MaxAssumption DEF U32
  <1> QED
    BY <1>1, <1>2, <1>3 DEF CodexLiveContinuationSnapshot,
       CodexLiveSnapshotToHarnessRequest, ReasoningHarnessRequest,
       ProhibitionRule, ProgressSnapshot, RecoverySnapshot,
       SelfCorrectionState, PermissionContextSnapshot, NoApprovalNeeded,
       NoRecovery, NoCorrection, ContextPressure

LEMMA BootstrapRequestType ==
  CodexBootstrapRequest \in ReasoningHarnessRequest
  <1>1. UpstreamPolicy \in EscalationPolicy
    BY U32MaxAssumption DEF UpstreamPolicy, EscalationPolicy, U32
  <1>2. 0 \in U32
    BY U32MaxAssumption DEF U32
  <1> QED
    BY <1>1, <1>2 DEF CodexBootstrapRequest, ReasoningHarnessRequest,
       ProhibitionRule, ProgressSnapshot, RecoverySnapshot,
       SelfCorrectionState, PermissionContextSnapshot, NoApprovalNeeded,
       NoRecovery, NoCorrection, ContextPressure

LEMMA WorkspaceRequestType ==
  ASSUME NEW body \in WorkspaceFlags
  PROVE  /\ BuildWorkspaceRequest(body) \in ReasoningHarnessRequest
         /\ BuildWorkspaceRequest(body).escalation_policy = UpstreamPolicy
         /\ BuildWorkspaceRequest(body).progress.no_progress_iteration_count
              = body.no_progress_iterations
  <1>1. UpstreamPolicy \in EscalationPolicy
    BY U32MaxAssumption DEF UpstreamPolicy, EscalationPolicy, U32
  <1>2. 0 \in U32 /\ 1 \in U32 /\ 3 \in U32
    BY U32MaxAssumption DEF U32
  <1>3. body.no_progress_iterations \in U32
    BY DEF WorkspaceFlags
  <1> QED
    BY <1>1, <1>2, <1>3 DEF BuildWorkspaceRequest, HealthyRequest,
       ReasoningHarnessRequest, ProhibitionRule, ProgressSnapshot,
       RecoverySnapshot, RecoveryReason, SelfCorrectionState,
       PermissionContextSnapshot, NoApprovalNeeded, NoCorrection,
       ContextPressure

\* An answer has the type of the code's.
LEMMA DecisionType ==
  ASSUME NEW request \in ReasoningHarnessRequest
  PROVE  DecideReasoningHarness(request) \in ReasoningHarnessDecision
  <1>1. ViolatedRules(request) \in SUBSET ProhibitionRule
    BY DEF ViolatedRules, ProhibitionRule
  <1>2. ShouldEnterSelfCorrection(request) \in BOOLEAN
    BY DEF ShouldEnterSelfCorrection
  <1>3. CheckpointDue(request) \in BOOLEAN
    BY DEF CheckpointDue
  <1>4. request.escalation_policy.request_checkpoint_before_handoff \in BOOLEAN
    BY DEF ReasoningHarnessRequest, EscalationPolicy
  <1> QED
    BY <1>1, <1>2, <1>3, <1>4
       DEF DecideReasoningHarness, ReasoningHarnessDecision, ContinueMode
=============================================================================
