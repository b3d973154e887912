------------------------- MODULE DeterministicPolicy -------------------------
(***************************************************************************)
(* DeterministicOrchestrator::decide_continue (policy.rs): the local       *)
(* implementation of AgentOrchestrator.  Like the harness it is a pure     *)
(* function of the request; unlike it, its limits are fixed in the code    *)
(* and it reads neither the compaction counters nor the attempts of a      *)
(* self-correction.  An operator marked "Mutant" is the next definition    *)
(* with a mistake in it.                                                   *)
(***************************************************************************)
EXTENDS MuldexProtocol

\* Iterator::all: true of no changes at all.
RepeatedWithoutChange(request) ==
    \A change \in request.recent_state_changes : change = "NoMeaningfulChange"

\* Mutant: the count of follow-ups is not looked at.
FollowUpLoopUncounted(request) == RepeatedWithoutChange(request)

\* Mutant: > for >=.
FollowUpLoopTooLate(request) ==
    /\ request.repeated_follow_up_count > 3
    /\ RepeatedWithoutChange(request)

\* Mutant: the changes are taken for meaningful whatever they are.
FollowUpLoopNever(request) ==
    /\ request.repeated_follow_up_count >= 3
    /\ ~RepeatedWithoutChange(request)

FollowUpLoop(request) ==
    /\ request.repeated_follow_up_count >= 3
    /\ RepeatedWithoutChange(request)

\* Mutant: a recovery that did help is a stall.
StalledTaskInverted(request) ==
    /\ request.progress.no_progress_iteration_count >= 3
    /\ request.recovery.last_recovery_had_progress

\* A task that stalls on a failure it has not recovered from.
StalledTask(request) ==
    /\ request.progress.no_progress_iteration_count >= 3
    /\ ~request.recovery.last_recovery_had_progress

\* Mutant: the limit of the other rule.
PostCompactionStallTooLate(request) ==
    /\ request.post_compaction.pending_post_compaction
    /\ request.progress.no_progress_iteration_count >= 3

PostCompactionStall(request) ==
    /\ request.post_compaction.pending_post_compaction
    /\ request.progress.no_progress_iteration_count >= 2

\* Mutant: the flags of the default answer, left as they are.
HandoffDecisionWithoutFlags(suppress) ==
    [allow_continue |-> FALSE,
     mode |-> "Handoff",
     suppress_duplicate_injection |-> suppress,
     downgrade_trigger_turn |-> FALSE,
     request_compaction |-> FALSE,
     request_handoff_summary |-> TRUE,
     request_checkpoint |-> FALSE,
     enter_self_correction |-> FALSE]

\* The three early returns differ in what they say of duplicated guidance.
HandoffDecision(suppress) ==
    [allow_continue |-> FALSE,
     mode |-> "Handoff",
     suppress_duplicate_injection |-> suppress,
     downgrade_trigger_turn |-> TRUE,
     request_compaction |-> FALSE,
     request_handoff_summary |-> TRUE,
     request_checkpoint |-> TRUE,
     enter_self_correction |-> FALSE]

\* Mutant: any turn with duplicated guidance is queued, not only a wakeup.
DefaultDecisionQueuesAny(request) ==
    [allow_continue |-> TRUE,
     mode |-> IF request.duplicate_injection_detected THEN "QueueOnly" ELSE "NextTurn",
     suppress_duplicate_injection |-> request.duplicate_injection_detected,
     downgrade_trigger_turn |-> FALSE,
     request_compaction |-> FALSE,
     request_handoff_summary |-> FALSE,
     request_checkpoint |-> FALSE,
     enter_self_correction |-> FALSE]

DefaultDecision(request) ==
    [allow_continue |-> TRUE,
     mode |-> IF /\ request.continue_reason = "TriggerTurnWakeup"
                 /\ request.duplicate_injection_detected
              THEN "QueueOnly" ELSE "NextTurn",
     suppress_duplicate_injection |-> request.duplicate_injection_detected,
     downgrade_trigger_turn |-> FALSE,
     request_compaction |-> FALSE,
     request_handoff_summary |-> FALSE,
     request_checkpoint |->
         /\ request.progress.completed_steps > 0
         /\ request.progress.completed_steps % 5 = 0,
     enter_self_correction |->
         /\ request.recovery.last_recovery_reason # None
         /\ ~request.recovery.last_recovery_had_progress]

DecideContinue(request) ==
    IF FollowUpLoop(request) THEN HandoffDecision(TRUE)
    ELSE IF StalledTask(request)
         THEN HandoffDecision(request.duplicate_injection_detected)
    ELSE IF PostCompactionStall(request) THEN HandoffDecision(TRUE)
    ELSE DefaultDecision(request)
=============================================================================
