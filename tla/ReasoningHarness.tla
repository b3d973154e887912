-------------------------- MODULE ReasoningHarness --------------------------
(***************************************************************************)
(* decide_reasoning_harness: the pure function that looks at one exported  *)
(* request and answers how the host may go on.  It keeps no state between  *)
(* calls; HarnessSession closes the loop around it.                        *)
(*                                                                         *)
(* An operator marked "Mutant" is not part of the model: it is the next    *)
(* definition with a plausible mistake in it, and the properties must      *)
(* notice when the one takes the place of the other.                       *)
(***************************************************************************)
EXTENDS MuldexProtocol

\* Mutant: > for >=.
NoProgressViolationTooLate(request) ==
    request.progress.no_progress_iteration_count
        > request.escalation_policy.no_progress_limit

NoProgressViolation(request) ==
    request.progress.no_progress_iteration_count
        >= request.escalation_policy.no_progress_limit

SelfCorrectionViolation(request) ==
    request.self_correction.correction_attempt_count
        >= request.escalation_policy.self_correction_limit

\* Mutant: > for >=.
CompactionViolationTooLate(request) ==
    /\ request.context_pressure.recent_compaction_count
           > request.escalation_policy.repeated_compaction_limit
    /\ ~request.context_pressure.last_compaction_had_state_change

\* Mutant: a compaction that had something to compact blocks too.
CompactionViolationOfAny(request) ==
    request.context_pressure.recent_compaction_count
        >= request.escalation_policy.repeated_compaction_limit

CompactionViolation(request) ==
    /\ request.context_pressure.recent_compaction_count
           >= request.escalation_policy.repeated_compaction_limit
    /\ ~request.context_pressure.last_compaction_had_state_change

\* Mutant: a correction that is open is fake progress, even if it helped.
ViolatedRulesOfOpen(request) ==
    {rule \in {"NoRepeatedNoProgressContinuation"} : NoProgressViolation(request)}
    \cup
    {rule \in {"NoFakeProgress"} : request.self_correction.active}

\* Which rules the answer reports as broken.  The list of prohibited
\* behaviors in the request is not consulted.
ViolatedRules(request) ==
    {rule \in {"NoRepeatedNoProgressContinuation"} : NoProgressViolation(request)}
    \cup
    {rule \in {"NoFakeProgress"} :
        /\ ~request.recovery.last_recovery_had_progress
        /\ request.self_correction.active}

\* Mutant: stalls alone do not block.
BlockedWithoutStalls(request) ==
    \/ SelfCorrectionViolation(request)
    \/ CompactionViolation(request)

Blocked(request) ==
    \/ NoProgressViolation(request)
    \/ SelfCorrectionViolation(request)
    \/ CompactionViolation(request)

\* Mutant: an approval that is missing does not matter.
ShouldEnterSelfCorrectionUnapproved(request) ==
    /\ request.recovery.last_recovery_reason # None
    /\ ~request.recovery.last_recovery_had_progress
    /\ request.self_correction.correction_attempt_count
           < request.escalation_policy.self_correction_limit

ShouldEnterSelfCorrection(request) ==
    /\ request.recovery.last_recovery_reason # None
    /\ ~request.recovery.last_recovery_had_progress
    /\ request.self_correction.correction_attempt_count
           < request.escalation_policy.self_correction_limit
    /\ ~request.safety.requires_explicit_approval_for_next_step

\* Mutant: the fifth step is not the first to be checkpointed.
CheckpointDueFromTen(request) ==
    /\ request.progress.completed_steps > 5
    /\ request.progress.completed_steps % 5 = 0

\* The periodic checkpoint of a session that goes on.
CheckpointDue(request) ==
    /\ request.progress.completed_steps > 0
    /\ request.progress.completed_steps % 5 = 0

\* Mutant: a handoff checkpoints on the periodic rule, as the other answers do.
DecideReasoningHarnessPeriodic(request) ==
    [mode |-> IF Blocked(request) THEN "Handoff"
              ELSE IF ShouldEnterSelfCorrection(request)
                   THEN "SameTurn" ELSE "NextTurn",
     should_checkpoint |-> CheckpointDue(request),
     should_enter_self_correction |->
         ~Blocked(request) /\ ShouldEnterSelfCorrection(request),
     violated_rules |-> ViolatedRules(request)]

DecideReasoningHarness(request) ==
    IF Blocked(request)
    THEN [mode |-> "Handoff",
          should_checkpoint |->
              request.escalation_policy.request_checkpoint_before_handoff,
          should_enter_self_correction |-> FALSE,
          violated_rules |-> ViolatedRules(request)]
    ELSE [mode |-> IF ShouldEnterSelfCorrection(request)
                   THEN "SameTurn" ELSE "NextTurn",
          should_checkpoint |-> CheckpointDue(request),
          should_enter_self_correction |-> ShouldEnterSelfCorrection(request),
          violated_rules |-> ViolatedRules(request)]
=============================================================================
