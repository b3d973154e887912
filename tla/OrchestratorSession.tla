------------------------- MODULE OrchestratorSession -------------------------
(***************************************************************************)
(* A session governed by an AgentOrchestrator, here the deterministic one. *)
(* What makes the host want another turn (a follow-up of the model, input  *)
(* that waits, a mailbox item that may wake an idle session, a compaction) *)
(* becomes a candidate: a ContinueRequest.  Only the decision starts the   *)
(* turn.  Input and mail arrive at any time, also while the answer is      *)
(* awaited (decide_continue is async).                                     *)
(*                                                                         *)
(* The host is outside this repository; it is modelled from the fields of  *)
(* ContinueRequest and ContinueDecision.                                   *)
(***************************************************************************)
EXTENDS DeterministicPolicy

CONSTANTS
    Reasons,        \* the reasons the host can propose a turn for
    Failures,       \* the reasons a turn can fail with
    MaxSteps,       \* bound: how many steps a session completes
    MaxPending      \* bound: how many inputs, and how many wakeups, wait

ASSUME OrchestratorAssumption ==
    /\ Reasons \subseteq ContinueReason
    /\ Failures \subseteq RecoveryReason
    /\ MaxSteps \in U32
    /\ MaxPending \in U32

VARIABLES
    phase,        \* where the session is, one of Phases
    reason,       \* why the last turn was started
    progress,     \* ProgressSnapshot
    recovery,     \* RecoverySnapshot
    followUps,    \* follow-ups in a row that changed nothing
    changes,      \* what the last turn changed
    pendingPost,  \* compacted, and no turn has changed anything since
    duplicate,    \* the guidance to be injected next was injected before
    input,        \* inputs that wait
    armed,        \* mailbox items that may start a turn
    queued,       \* mailbox items that may not
    request,      \* the candidate under decision
    decision,     \* the answer to it
    lastCheckpoint, \* completed steps covered by the last checkpoint
    corrections   \* corrections started on a failure still open

taskVars == <<progress, recovery, followUps, changes, pendingPost, duplicate>>
mailVars == <<input, armed, queued>>
vars == <<phase, reason, taskVars, mailVars, request, decision, lastCheckpoint,
          corrections>>

Phases == {"turn", "ended", "idle", "asked", "decided", "handoff"}

FollowUpReasons == {"ModelFollowUp", "ToolResult"}

-----------------------------------------------------------------------------
(* The host's turns. *)

\* A turn may compact; what it changes before that does not count any more.
EndTurn(kinds, useful) ==
    /\ phase = "turn"
    /\ phase' = "ended"
    /\ changes' = kinds
    /\ duplicate' \in BOOLEAN
    /\ \/ pendingPost' = (pendingPost /\ ~useful)
       \/ pendingPost' = TRUE
    /\ UNCHANGED <<reason, mailVars, request, decision, lastCheckpoint>>

\* A follow-up that changes nothing is one more; another kind of turn that
\* changes nothing may end the row or not.
CountFollowUp ==
    IF reason \in FollowUpReasons THEN followUps' = Increment(followUps)
                                  ELSE followUps' \in {0, followUps}

Advance ==
    /\ \E steps \in {0, 1} :
        /\ progress.completed_steps + steps <= MaxSteps
        /\ progress' = [completed_steps |-> progress.completed_steps + steps,
                        no_progress_iteration_count |-> 0]
    /\ followUps' = 0

Stall ==
    /\ progress' = [progress EXCEPT !.no_progress_iteration_count = Increment(@)]
    /\ CountFollowUp

Fail(failure) ==
    recovery' = [last_recovery_reason |-> failure,
                 last_recovery_had_progress |-> FALSE]

UsefulTurn ==
    /\ EndTurn({"CodeEdit"}, TRUE)
    /\ Advance
    /\ recovery' = [recovery EXCEPT !.last_recovery_had_progress = TRUE]
    /\ corrections' = 0

\* The host records that nothing changed, or records nothing.
IdleTurn ==
    /\ \E kinds \in {{}, {"NoMeaningfulChange"}} : EndTurn(kinds, FALSE)
    /\ Stall
    /\ UNCHANGED <<recovery, corrections>>

FailedTurn(failure) ==
    /\ EndTurn({"NewError"}, FALSE)
    /\ Stall
    /\ Fail(failure)
    /\ UNCHANGED corrections

\* The turn fails after an edit.
PartialTurn(failure) ==
    /\ EndTurn({"CodeEdit", "NewError"}, TRUE)
    /\ Advance
    /\ Fail(failure)
    /\ UNCHANGED corrections

-----------------------------------------------------------------------------
(* Candidates and decisions. *)

ArriveInput ==
    /\ phase # "handoff"
    /\ input < MaxPending
    /\ input' = input + 1
    /\ UNCHANGED <<phase, reason, taskVars, armed, queued, request, decision,
                   lastCheckpoint, corrections>>

ArriveWakeup ==
    /\ phase # "handoff"
    /\ armed + queued < MaxPending
    /\ armed' = armed + 1
    /\ UNCHANGED <<phase, reason, taskVars, input, queued, request, decision,
                   lastCheckpoint, corrections>>

GoIdle ==
    /\ phase = "ended"
    /\ phase' = "idle"
    /\ UNCHANGED <<reason, taskVars, mailVars, request, decision, lastCheckpoint,
                   corrections>>

\* The signals that make a turn a candidate.
Candidate(why) ==
    CASE why \in FollowUpReasons     -> phase = "ended"
      [] why = "PendingInput"        -> input > 0
      [] why = "TriggerTurnWakeup"   -> armed > 0
      [] why = "CompactionRecovery"  -> phase = "ended" /\ pendingPost
      [] why = "ManualUserRequest"   -> phase = "idle"

Propose(why) ==
    /\ phase \in {"ended", "idle"}
    /\ Candidate(why)
    /\ request' =
        [continue_reason |-> why,
         recent_state_changes |-> changes,
         duplicate_injection_detected |-> duplicate,
         repeated_follow_up_count |-> followUps,
         progress |-> progress,
         recovery |-> recovery,
         post_compaction |-> [pending_post_compaction |-> pendingPost]]
    /\ phase' = "asked"
    /\ UNCHANGED <<reason, taskVars, mailVars, decision, lastCheckpoint, corrections>>

Decide ==
    /\ phase = "asked"
    /\ decision' = DecideContinue(request)
    /\ phase' = "decided"
    /\ UNCHANGED <<reason, taskVars, mailVars, request, lastCheckpoint, corrections>>

\* The host gives the candidate up: the call returned an error, or the operator
\* interrupts.
Withdraw ==
    /\ phase = "asked"
    /\ phase' = "idle"
    /\ UNCHANGED <<reason, taskVars, mailVars, request, decision, lastCheckpoint,
                   corrections>>

Checkpoint ==
    lastCheckpoint' = IF decision.request_checkpoint
                      THEN progress.completed_steps ELSE lastCheckpoint

\* The turn starts and takes what it was proposed for.
StartTurn ==
    /\ phase = "decided"
    /\ decision.allow_continue /\ decision.mode = "NextTurn"
    /\ Checkpoint
    /\ phase' = "turn"
    /\ reason' = request.continue_reason
    /\ input' = IF reason' = "PendingInput" THEN input - 1 ELSE input
    /\ armed' = IF reason' = "TriggerTurnWakeup" THEN armed - 1 ELSE armed
    /\ corrections' = IF decision.enter_self_correction
                      THEN Increment(corrections) ELSE corrections
    /\ UNCHANGED <<taskVars, queued, request, decision>>

\* The wakeup stays in the mailbox and may no longer start a turn.
QueueOnly ==
    /\ phase = "decided"
    /\ decision.mode = "QueueOnly"
    /\ Checkpoint
    /\ phase' = "idle"
    /\ armed' = armed - 1
    /\ queued' = queued + 1
    /\ UNCHANGED <<reason, taskVars, input, request, decision, corrections>>

\* An operator takes over; the wakeups that wait are downgraded if the answer
\* says so, those that came in meanwhile included.
HandOff ==
    /\ phase = "decided"
    /\ decision.mode = "Handoff"
    /\ Checkpoint
    /\ phase' = "handoff"
    /\ armed' = IF decision.downgrade_trigger_turn THEN 0 ELSE armed
    /\ queued' = IF decision.downgrade_trigger_turn THEN queued + armed ELSE queued
    /\ UNCHANGED <<reason, taskVars, input, request, decision, corrections>>

-----------------------------------------------------------------------------
StartRequest ==
    [continue_reason |-> "ManualUserRequest",
     recent_state_changes |-> {},
     duplicate_injection_detected |-> FALSE,
     repeated_follow_up_count |-> 0,
     progress |-> [completed_steps |-> 0, no_progress_iteration_count |-> 0],
     recovery |-> [last_recovery_reason |-> None, last_recovery_had_progress |-> TRUE],
     post_compaction |-> [pending_post_compaction |-> FALSE]]

\* The operator asks for the first turn.
Init ==
    /\ phase = "asked"
    /\ request = StartRequest
    /\ reason = "ManualUserRequest"
    /\ progress = StartRequest.progress
    /\ recovery = StartRequest.recovery
    /\ followUps = 0
    /\ changes = {}
    /\ pendingPost = FALSE
    /\ duplicate = FALSE
    /\ input = 0 /\ armed = 0 /\ queued = 0
    /\ decision = DecideContinue(StartRequest)
    /\ lastCheckpoint = 0
    /\ corrections = 0

Turn ==
    \/ UsefulTurn
    \/ IdleTurn
    \/ \E failure \in Failures : FailedTurn(failure)
    \/ \E failure \in Failures : PartialTurn(failure)

Arrive == ArriveInput \/ ArriveWakeup

Obey == StartTurn \/ QueueOnly \/ HandOff

Next ==
    \/ Turn
    \/ Arrive
    \/ GoIdle
    \/ \E why \in Reasons : Propose(why)
    \/ Decide
    \/ Withdraw
    \/ Obey

Spec == Init /\ [][Next]_vars

\* A candidate that is not withdrawn is decided and the decision is obeyed.
FairSpec == Spec /\ WF_vars(Decide \/ Obey)

-----------------------------------------------------------------------------
(* Properties. *)

\* The type invariant.
TypeOK ==
    /\ phase \in Phases
    /\ reason \in ContinueReason
    /\ progress \in ProgressSnapshot
    /\ recovery \in RecoverySnapshot
    /\ followUps \in U32
    /\ changes \subseteq StateChangeKind
    /\ pendingPost \in BOOLEAN
    /\ duplicate \in BOOLEAN
    /\ input \in 0..MaxPending
    /\ armed \in 0..MaxPending
    /\ queued \in 0..MaxPending
    /\ request \in ContinueRequest
    /\ decision \in ContinueDecision
    /\ lastCheckpoint \in U32
    /\ corrections \in U32

\* A task that has not recovered from a failure is not continued after three
\* turns in a row that changed nothing, whatever proposed the turn.
FailureStallBounded ==
    (phase = "turn" /\ ~recovery.last_recovery_had_progress) =>
        progress.no_progress_iteration_count < 3

\* After a compaction no turn starts before something changed if the last two
\* turns changed nothing.
PostCompactionStallBounded ==
    (phase = "turn" /\ pendingPost) => progress.no_progress_iteration_count < 2

\* No session is handed off before its third turn in a row that changed nothing,
\* or its second after a compaction, although Iterator::all holds of no changes
\* and a failure may be open.
HandoffNeedsStall ==
    phase = "handoff" =>
        progress.no_progress_iteration_count >= IF pendingPost THEN 2 ELSE 3

\* A session handed off leaves nothing it completed out of a checkpoint.
HandoffCheckpointed == phase = "handoff" => lastCheckpoint = progress.completed_steps

\* A session that continues only for follow-ups of its own is stopped: its
\* first turn and three follow-ups are all that can change nothing.
FollowUpsBounded == progress.no_progress_iteration_count <= 4

\* A session that runs turns for ever for follow-ups of its own changes
\* something again and again.
FollowUpsEnd ==
    []<><<Turn>>_vars => []<><<Turn /\ progress'.no_progress_iteration_count = 0>>_vars

\* No mailbox item starts two turns or vanishes, none starts a turn after a
\* handoff, and none is taken that is not there, although items arrive while
\* answers are awaited and an answer may have been given to another candidate.
WakeupLedger == INSTANCE Wakeups WITH open <- phase # "handoff"

KeepsWakeups == WakeupLedger!Spec

\* Iterations that make no progress are not repeated without end: the count
\* never reaches the largest one there is.
NoEndlessStall == progress.no_progress_iteration_count < U32Max

\* Self-correction is bounded: the corrections started on one failure never
\* reach the largest count there is.
SelfCorrectionBounded == corrections < U32Max

-----------------------------------------------------------------------------
(* Why the safety properties hold: what is true between any two steps.     *)

\* What a request under way says of the task is still so when the answer is
\* obeyed, and what it was proposed for still waits.
RequestIsCurrent ==
    phase \in {"asked", "decided"} =>
        /\ request.progress = progress
        /\ request.recovery = recovery
        /\ request.repeated_follow_up_count = followUps
        /\ request.post_compaction.pending_post_compaction = pendingPost
        /\ request.continue_reason = "PendingInput" => input > 0
        /\ request.continue_reason = "TriggerTurnWakeup" => armed > 0

\* An answer is the one the orchestrator gives to the request under way.
DecisionIsAnswer == phase = "decided" => decision = DecideContinue(request)

\* Every follow-up that changed nothing is a turn that changed nothing.
FollowUpsAreStalls == followUps <= progress.no_progress_iteration_count

\* An item of the mailbox is armed or queued, not both.
MailboxBounded == armed + queued <= MaxPending

\* What holds whoever decides.
HostInv ==
    /\ TypeOK
    /\ RequestIsCurrent
    /\ FollowUpsAreStalls
    /\ MailboxBounded

\* The inductive invariant of a session.
OrchestratorInv == HostInv /\ DecisionIsAnswer
=============================================================================
