--------------------------- MODULE UpstreamAdapter ---------------------------
(***************************************************************************)
(* How a snapshot of a Codex session becomes a harness request             *)
(* (upstream_adapter.rs), and how the CLI builds one from a workspace and  *)
(* its flags (main.rs).  The conversions are pure.  What they drop or fix  *)
(* to a constant matters: no decision can depend on it.                    *)
(* An operator marked "Mutant" is the next definition with a mistake in it.*)
(***************************************************************************)
EXTENDS MuldexProtocol

\* The policy every adapter and the CLI hard-code.
UpstreamPolicy ==
    [no_progress_limit |-> 3, repeated_compaction_limit |-> 2,
     self_correction_limit |-> 2, request_checkpoint_before_handoff |-> TRUE]

\* Mutant: the wide counter is passed on as it is.
SaturateToU32Not(n) == n

\* u32::try_from(..).unwrap_or(u32::MAX)
SaturateToU32(n) == IF n \in U32 THEN n ELSE U32Max

\* A session as seen by the two adapters whose snapshot says nothing of
\* progress: no failure, no correction, a compaction that changed something.
NoRecovery == [last_recovery_reason |-> None, last_recovery_had_progress |-> TRUE]
NoCorrection == [active |-> FALSE, correction_attempt_count |-> 0]
NoApprovalNeeded == [requires_explicit_approval_for_next_step |-> FALSE]

-----------------------------------------------------------------------------
\* CodexSignalSnapshot: the fields the conversion passes on to a decision.
\* It has no field for a pending approval; the conversion fixes it to FALSE.
CodexSignalSnapshot ==
    [completed_steps : U32,
     no_progress_iteration_count : U32,
     last_recovery_reason : RecoveryReason \cup {None},
     last_recovery_had_progress : BOOLEAN,
     self_correction_active : BOOLEAN,
     self_correction_attempt_count : U32,
     recent_compaction_count : U32,
     last_compaction_had_state_change : BOOLEAN]

\* Mutant: the attempts of a correction are dropped on the way.
SignalSelfCorrectionDropped(snapshot) ==
    [active |-> snapshot.self_correction_active, correction_attempt_count |-> 0]

SignalSelfCorrection(snapshot) ==
    [active |-> snapshot.self_correction_active,
     correction_attempt_count |-> snapshot.self_correction_attempt_count]

\* Mutant: one boolean of the snapshot is taken for another.
SignalContextPressureSwapped(snapshot) ==
    [recent_compaction_count |-> snapshot.recent_compaction_count,
     last_compaction_had_state_change |-> snapshot.last_recovery_had_progress]

SignalContextPressure(snapshot) ==
    [recent_compaction_count |-> snapshot.recent_compaction_count,
     last_compaction_had_state_change |->
         snapshot.last_compaction_had_state_change]

CodexSnapshotToHarnessRequest(snapshot) ==
    [prohibited_behaviors |->
         {"NoFakeProgress", "NoRepeatedNoProgressContinuation",
          "NoDuplicateInjection", "NoUnverifiedCompletion"},
     progress |->
         [completed_steps |-> snapshot.completed_steps,
          no_progress_iteration_count |-> snapshot.no_progress_iteration_count],
     recovery |->
         [last_recovery_reason |-> snapshot.last_recovery_reason,
          last_recovery_had_progress |-> snapshot.last_recovery_had_progress],
     self_correction |-> SignalSelfCorrection(snapshot),
     safety |-> NoApprovalNeeded,
     context_pressure |-> SignalContextPressure(snapshot),
     escalation_policy |-> UpstreamPolicy]

-----------------------------------------------------------------------------
\* CodexBootstrapSnapshot describes a session that has not run a turn yet;
\* none of its fields reaches a decision.
CodexBootstrapRequest ==
    [prohibited_behaviors |->
         {"NoFakeProgress", "NoRepeatedNoProgressContinuation",
          "NoSilentScopeExpansion"},
     progress |-> [completed_steps |-> 0, no_progress_iteration_count |-> 0],
     recovery |-> NoRecovery,
     self_correction |-> NoCorrection,
     safety |-> NoApprovalNeeded,
     context_pressure |->
         [recent_compaction_count |-> 0, last_compaction_had_state_change |-> TRUE],
     escalation_policy |-> UpstreamPolicy]

-----------------------------------------------------------------------------
\* CodexLiveContinuationSnapshot: the window number is a u64, wider than the
\* counter it becomes.
CodexLiveContinuationSnapshot ==
    [pending_input_present : BOOLEAN, auto_compact_window_number : Nat]

CodexLiveSnapshotToHarnessRequest(snapshot) ==
    [prohibited_behaviors |->
         {"NoFakeProgress", "NoRepeatedNoProgressContinuation"},
     progress |->
         [completed_steps |-> 0,
          no_progress_iteration_count |->
              IF snapshot.pending_input_present THEN 1 ELSE 0],
     recovery |-> NoRecovery,
     self_correction |-> NoCorrection,
     safety |-> NoApprovalNeeded,
     context_pressure |->
         [recent_compaction_count |->
              SaturateToU32(snapshot.auto_compact_window_number),
          last_compaction_had_state_change |-> TRUE],
     escalation_policy |-> UpstreamPolicy]

-----------------------------------------------------------------------------
\* decide-workspace: the two flags of the command line that reach a decision.
WorkspaceFlags ==
    [no_progress_iterations : U32, recoverable_failure : BOOLEAN]

\* sample_request(Healthy), the request every CLI-built one starts from.
HealthyRequest ==
    [prohibited_behaviors |->
         {"NoFakeProgress", "NoRepeatedNoProgressContinuation",
          "NoDuplicateInjection"},
     progress |-> [completed_steps |-> 3, no_progress_iteration_count |-> 1],
     recovery |->
         [last_recovery_reason |-> "PartialResult",
          last_recovery_had_progress |-> TRUE],
     self_correction |-> NoCorrection,
     safety |-> NoApprovalNeeded,
     context_pressure |->
         [recent_compaction_count |-> 1, last_compaction_had_state_change |-> TRUE],
     escalation_policy |-> UpstreamPolicy]

\* Mutant: the stalls counted by the operator are overwritten.
BuildWorkspaceRequestUncounted(flags) ==
    [HealthyRequest EXCEPT
        !.recovery = IF flags.recoverable_failure
                     THEN [last_recovery_reason |-> "ToolFailure",
                           last_recovery_had_progress |-> FALSE]
                     ELSE @,
        !.self_correction = IF flags.recoverable_failure
                            THEN [active |-> TRUE, correction_attempt_count |-> 1]
                            ELSE @]

BuildWorkspaceRequest(flags) ==
    [HealthyRequest EXCEPT
        !.progress.no_progress_iteration_count = flags.no_progress_iterations,
        !.recovery = IF flags.recoverable_failure
                     THEN [last_recovery_reason |-> "ToolFailure",
                           last_recovery_had_progress |-> FALSE]
                     ELSE @,
        !.self_correction = IF flags.recoverable_failure
                            THEN [active |-> TRUE, correction_attempt_count |-> 1]
                            ELSE @]
=============================================================================
