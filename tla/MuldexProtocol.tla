--------------------------- MODULE MuldexProtocol ---------------------------
(***************************************************************************)
(* The data types that cross Muldex's boundary (crates/muldex-core,        *)
(* protocol.rs and the head of reasoning_harness.rs), reduced to the       *)
(* fields a decision function reads or a property is about.  Text fields,  *)
(* identifiers, timestamps, token gauges and media are left out: no        *)
(* decision depends on them.                                               *)
(***************************************************************************)
EXTENDS Integers

CONSTANT U32Max       \* the largest u32 counter value; 2^32 - 1 in the build

\* The limits the adapters hard-code (3 and 2) and the cadence 5 are u32s.
ASSUME U32MaxAssumption == U32Max \in Nat /\ U32Max >= 5

U32 == 0..U32Max

\* A host that counts in a u32 stops at the largest one.
Increment(n) == IF n < U32Max THEN n + 1 ELSE n

\* The absence of an Option<RecoveryReason>.
None == "None"

RecoveryReason ==
    {"ToolFailure", "PartialResult", "ContextPressure",
     "TransientModelFailure", "ExternalDependencyUnavailable"}

ContinueMode == {"SameTurn", "NextTurn", "QueueOnly", "Handoff", "Stop"}

ProhibitionRule ==
    {"NoFakeProgress", "NoDuplicateInjection", "NoSilentScopeExpansion",
     "NoUnverifiedCompletion", "NoRepeatedNoProgressContinuation",
     "NoSilentModelSwitch", "NoSilentExecutionModeSwitch"}

ProgressSnapshot ==
    [completed_steps : U32, no_progress_iteration_count : U32]

RecoverySnapshot ==
    [last_recovery_reason : RecoveryReason \cup {None},
     last_recovery_had_progress : BOOLEAN]

SelfCorrectionState == [active : BOOLEAN, correction_attempt_count : U32]

ContextPressure ==
    [recent_compaction_count : U32, last_compaction_had_state_change : BOOLEAN]

PermissionContextSnapshot ==
    [requires_explicit_approval_for_next_step : BOOLEAN]

EscalationPolicy ==
    [no_progress_limit : U32, repeated_compaction_limit : U32,
     self_correction_limit : U32, request_checkpoint_before_handoff : BOOLEAN]

ReasoningHarnessRequest ==
    [prohibited_behaviors : SUBSET ProhibitionRule,
     progress : ProgressSnapshot,
     recovery : RecoverySnapshot,
     self_correction : SelfCorrectionState,
     safety : PermissionContextSnapshot,
     context_pressure : ContextPressure,
     escalation_policy : EscalationPolicy]

ReasoningHarnessDecision ==
    [mode : ContinueMode,
     should_checkpoint : BOOLEAN,
     should_enter_self_correction : BOOLEAN,
     violated_rules : SUBSET ProhibitionRule]

\* The orchestrator's side of protocol.rs.
ContinueReason ==
    {"ModelFollowUp", "ToolResult", "PendingInput", "TriggerTurnWakeup",
     "ManualUserRequest", "CompactionRecovery"}

StateChangeKind ==
    {"CodeEdit", "NewConfirmedFinding", "NewError", "UserDecision",
     "ToolSideEffect", "NoMeaningfulChange"}

PostCompactionState == [pending_post_compaction : BOOLEAN]

\* The order of recent_state_changes is never looked at: a set stands for it.
ContinueRequest ==
    [continue_reason : ContinueReason,
     recent_state_changes : SUBSET StateChangeKind,
     duplicate_injection_detected : BOOLEAN,
     repeated_follow_up_count : U32,
     progress : ProgressSnapshot,
     recovery : RecoverySnapshot,
     post_compaction : PostCompactionState]

ContinueDecision ==
    [allow_continue : BOOLEAN,
     mode : ContinueMode,
     suppress_duplicate_injection : BOOLEAN,
     downgrade_trigger_turn : BOOLEAN,
     request_compaction : BOOLEAN,
     request_handoff_summary : BOOLEAN,
     request_checkpoint : BOOLEAN,
     enter_self_correction : BOOLEAN]

\* What a planner recommends; the text of it is left out.
PlannerResponse == [recommended_mode : ContinueMode]
=============================================================================
