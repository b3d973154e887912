---------------------- MODULE OrchestratorSessionProofs ----------------------
(***************************************************************************)
(* What OrchestratorSession guarantees for every bound on steps and        *)
(* pending items, every set of reasons and failures and every counter      *)
(* width, proved with TLAPS.                                               *)
(***************************************************************************)
EXTENDS OrchestratorSession, TLAPS

USE DEF taskVars, mailVars

\* Each answer is a handoff for one of the three rules or the default one.
LEMMA Answers ==
  ASSUME NEW candidate
  PROVE  \/ /\ FollowUpLoop(candidate) \/ StalledTask(candidate)
                 \/ PostCompactionStall(candidate)
            /\ \E suppress \in {TRUE, candidate.duplicate_injection_detected} :
                 DecideContinue(candidate) = HandoffDecision(suppress)
         \/ /\ ~FollowUpLoop(candidate) /\ ~StalledTask(candidate)
            /\ ~PostCompactionStall(candidate)
            /\ DecideContinue(candidate) = DefaultDecision(candidate)
  <1>1. CASE FollowUpLoop(candidate)
    BY <1>1 DEF DecideContinue
  <1>2. CASE ~FollowUpLoop(candidate) /\ StalledTask(candidate)
    BY <1>2 DEF DecideContinue
  <1>3. CASE ~FollowUpLoop(candidate) /\ ~StalledTask(candidate)
             /\ PostCompactionStall(candidate)
    BY <1>3 DEF DecideContinue
  <1>4. CASE ~FollowUpLoop(candidate) /\ ~StalledTask(candidate)
             /\ ~PostCompactionStall(candidate)
    BY <1>4 DEF DecideContinue
  <1> QED
    BY <1>1, <1>2, <1>3, <1>4

LEMMA AnswerType ==
  ASSUME NEW candidate \in ContinueRequest
  PROVE  DecideContinue(candidate) \in ContinueDecision
  <1>1. candidate.duplicate_injection_detected \in BOOLEAN
    BY DEF ContinueRequest
  <1>2. ASSUME NEW suppress \in BOOLEAN
        PROVE  HandoffDecision(suppress) \in ContinueDecision
    BY DEF HandoffDecision, ContinueDecision, ContinueMode
  <1>3. DefaultDecision(candidate) \in ContinueDecision
    BY <1>1 DEF DefaultDecision, ContinueDecision, ContinueMode
  <1> QED
    BY <1>1, <1>2, <1>3, Answers

\* Only a wakeup is answered queue_only, and what is continued was stopped by
\* no rule.
LEMMA AnswerMode ==
  ASSUME NEW candidate
  PROVE  LET answer == DecideContinue(candidate)
         IN  /\ answer.mode = "QueueOnly" =>
                  candidate.continue_reason = "TriggerTurnWakeup"
             /\ answer.mode # "Handoff" =>
                  /\ ~StalledTask(candidate)
                  /\ ~PostCompactionStall(candidate)
             /\ answer.mode = "Handoff" =>
                  /\ \/ FollowUpLoop(candidate)
                     \/ StalledTask(candidate)
                     \/ PostCompactionStall(candidate)
                  /\ answer.downgrade_trigger_turn
                  /\ answer.request_checkpoint
  <1>1. ASSUME NEW suppress
        PROVE  /\ HandoffDecision(suppress).mode = "Handoff"
               /\ HandoffDecision(suppress).downgrade_trigger_turn
               /\ HandoffDecision(suppress).request_checkpoint
    BY DEF HandoffDecision
  <1>2. /\ DefaultDecision(candidate).mode \in {"QueueOnly", "NextTurn"}
        /\ DefaultDecision(candidate).mode = "QueueOnly" =>
             candidate.continue_reason = "TriggerTurnWakeup"
    BY DEF DefaultDecision
  <1> QED
    BY <1>1, <1>2, Answers

\* A candidate that is no better than another: as many stalls and follow-ups at
\* least, no other changes, nothing recovered or settled that was not.
NoBetter(worse, candidate) ==
    /\ worse.progress.no_progress_iteration_count
          >= candidate.progress.no_progress_iteration_count
    /\ worse.repeated_follow_up_count >= candidate.repeated_follow_up_count
    /\ worse.recent_state_changes \subseteq candidate.recent_state_changes
    /\ worse.recovery.last_recovery_had_progress
          => candidate.recovery.last_recovery_had_progress
    /\ candidate.post_compaction.pending_post_compaction
          => worse.post_compaction.pending_post_compaction

\* No candidate is continued if one that is better was stopped, whichever rule
\* stopped it and whatever the two were proposed for.
THEOREM OrchestratorStopsWorse ==
  ASSUME NEW candidate \in ContinueRequest, NEW worse \in ContinueRequest,
         NoBetter(worse, candidate), DecideContinue(candidate).mode = "Handoff"
  PROVE  DecideContinue(worse).mode = "Handoff"
  <1>1. \/ FollowUpLoop(candidate)
        \/ StalledTask(candidate)
        \/ PostCompactionStall(candidate)
    BY AnswerMode
  <1>2. /\ worse.progress.no_progress_iteration_count \in Nat
        /\ candidate.progress.no_progress_iteration_count \in Nat
        /\ worse.repeated_follow_up_count \in Nat
        /\ candidate.repeated_follow_up_count \in Nat
    BY DEF ContinueRequest, ProgressSnapshot, U32
  <1>3. \/ FollowUpLoop(worse)
        \/ StalledTask(worse)
        \/ PostCompactionStall(worse)
    <2>1. CASE FollowUpLoop(candidate)
      BY <1>2, <2>1 DEF FollowUpLoop, RepeatedWithoutChange, NoBetter
    <2>2. CASE StalledTask(candidate)
      BY <1>2, <2>2 DEF StalledTask, NoBetter
    <2>3. CASE PostCompactionStall(candidate)
      BY <1>2, <2>3 DEF PostCompactionStall, NoBetter
    <2> QED
      BY <1>1, <2>1, <2>2, <2>3
  <1> QED
    BY <1>3, Answers DEF HandoffDecision

-----------------------------------------------------------------------------
(* Types and the counters. *)

LEMMA IncrementType ==
  ASSUME NEW n \in U32
  PROVE  Increment(n) \in U32 /\ Increment(n) >= n
  BY U32MaxAssumption DEF Increment, U32

LEMMA IncrementMonotone ==
  ASSUME NEW n \in U32, NEW k \in U32, k <= n
  PROVE  Increment(k) <= Increment(n)
  BY U32MaxAssumption DEF Increment, U32

LEMMA EndTurnType ==
  ASSUME TypeOK, NEW kinds \in SUBSET StateChangeKind, NEW useful \in BOOLEAN,
         EndTurn(kinds, useful)
  PROVE  /\ phase = "turn" /\ phase' = "ended"
         /\ changes' \subseteq StateChangeKind
         /\ duplicate' \in BOOLEAN
         /\ pendingPost' \in BOOLEAN
         /\ UNCHANGED <<reason, mailVars, request, decision, lastCheckpoint>>
  BY DEF EndTurn, TypeOK

LEMMA AdvanceType ==
  ASSUME TypeOK, Advance
  PROVE  progress' \in ProgressSnapshot /\ followUps' \in U32 /\ FollowUpsAreStalls'
  BY U32MaxAssumption, OrchestratorAssumption
     DEF Advance, TypeOK, ProgressSnapshot, U32, FollowUpsAreStalls

LEMMA StallType ==
  ASSUME TypeOK, FollowUpsAreStalls, Stall
  PROVE  progress' \in ProgressSnapshot /\ followUps' \in U32 /\ FollowUpsAreStalls'
  <1> DEFINE stalls == progress.no_progress_iteration_count
  <1>1. stalls \in U32 /\ followUps \in U32 /\ followUps <= stalls
    BY DEF TypeOK, ProgressSnapshot, FollowUpsAreStalls
  <1>2. /\ progress' = [progress EXCEPT !.no_progress_iteration_count = Increment(@)]
        /\ followUps' \in {0, followUps, Increment(followUps)}
    BY DEF Stall, CountFollowUp
  <1>3. /\ progress' \in ProgressSnapshot
        /\ progress'.no_progress_iteration_count = Increment(stalls)
    BY <1>1, <1>2, IncrementType DEF TypeOK, ProgressSnapshot
  <1>4. Increment(stalls) >= stalls /\ Increment(stalls) \in U32
    BY <1>1, IncrementType
  <1>5. Increment(followUps) <= Increment(stalls) /\ Increment(followUps) \in U32
    BY <1>1, IncrementMonotone, IncrementType
  <1>6. 0 \in U32
    BY U32MaxAssumption DEF U32
  <1>7. followUps' \in U32 /\ followUps' <= Increment(stalls)
    BY <1>1, <1>2, <1>4, <1>5, <1>6 DEF U32
  <1> QED
    BY <1>3, <1>7 DEF FollowUpsAreStalls

LEMMA FailType ==
  ASSUME NEW failure \in Failures, Fail(failure)
  PROVE  recovery' \in RecoverySnapshot
  BY OrchestratorAssumption DEF Fail, RecoverySnapshot

LEMMA CheckpointType ==
  ASSUME TypeOK, Checkpoint
  PROVE  lastCheckpoint' \in U32
  BY DEF Checkpoint, TypeOK, ProgressSnapshot

LEMMA StartRequestType == StartRequest \in ContinueRequest
  <1>1. 0 \in U32
    BY U32MaxAssumption DEF U32
  <1> QED
    BY <1>1 DEF StartRequest, ContinueRequest, ContinueReason, ProgressSnapshot,
       RecoverySnapshot, PostCompactionState

-----------------------------------------------------------------------------
(* The inductive invariant. *)

LEMMA InitOrchestrator == Init => OrchestratorInv
  <1> SUFFICES ASSUME Init PROVE OrchestratorInv
    OBVIOUS
  <1>1. 0 \in U32 /\ 0 \in 0..MaxPending
    BY U32MaxAssumption, OrchestratorAssumption DEF U32
  <1>2. /\ progress \in ProgressSnapshot /\ recovery \in RecoverySnapshot
        /\ request \in ContinueRequest /\ decision \in ContinueDecision
    <2>1. StartRequest.progress \in ProgressSnapshot
          /\ StartRequest.recovery \in RecoverySnapshot
      BY StartRequestType DEF ContinueRequest
    <2> QED
      BY <2>1, StartRequestType, AnswerType DEF Init
  <1>3. TypeOK
    BY <1>1, <1>2 DEF Init, TypeOK, Phases, ContinueReason
  <1>4. RequestIsCurrent
    BY DEF Init, RequestIsCurrent, StartRequest
  <1>5. DecisionIsAnswer /\ FollowUpsAreStalls
    BY DEF Init, DecisionIsAnswer, FollowUpsAreStalls, StartRequest
  <1>6. MailboxBounded
    BY <1>1 DEF Init, MailboxBounded
  <1> QED
    BY <1>3, <1>4, <1>5, <1>6 DEF OrchestratorInv, HostInv

\* A turn that ends.
LEMMA TurnHost ==
  ASSUME HostInv, Turn
  PROVE  HostInv'
  <1> USE DEF HostInv
  <1>1. PICK kinds \in SUBSET StateChangeKind, useful \in BOOLEAN : EndTurn(kinds, useful)
    BY DEF Turn, UsefulTurn, IdleTurn, FailedTurn, PartialTurn, StateChangeKind
  <1>2. /\ phase = "turn" /\ phase' = "ended"
        /\ changes' \subseteq StateChangeKind
        /\ duplicate' \in BOOLEAN /\ pendingPost' \in BOOLEAN
        /\ UNCHANGED <<reason, mailVars, request, decision, lastCheckpoint>>
    BY <1>1, EndTurnType
  <1>3. progress' \in ProgressSnapshot /\ followUps' \in U32 /\ FollowUpsAreStalls'
    BY AdvanceType, StallType DEF Turn, UsefulTurn, IdleTurn, FailedTurn, PartialTurn
  <1>4. recovery' \in RecoverySnapshot
    <2>1. CASE UsefulTurn
      BY <2>1 DEF UsefulTurn, TypeOK, RecoverySnapshot
    <2>2. CASE IdleTurn
      BY <2>2 DEF IdleTurn, TypeOK
    <2>3. CASE \E failure \in Failures : FailedTurn(failure) \/ PartialTurn(failure)
      BY <2>3, FailType DEF FailedTurn, PartialTurn
    <2> QED
      BY <2>1, <2>2, <2>3 DEF Turn
  <1>5. corrections' \in U32
    <2>1. corrections' \in {0, corrections}
      BY DEF Turn, UsefulTurn, IdleTurn, FailedTurn, PartialTurn
    <2> QED
      BY <2>1, U32MaxAssumption DEF TypeOK, U32
  <1>6. TypeOK'
    BY <1>2, <1>3, <1>4, <1>5 DEF TypeOK, Phases
  <1> QED
    BY <1>2, <1>3, <1>6 DEF RequestIsCurrent, MailboxBounded

\* Input or mail that arrives: what waits only grows.
LEMMA ArriveHost ==
  ASSUME HostInv, Arrive
  PROVE  HostInv'
  <1> USE DEF HostInv
  <1>1. /\ input \in Nat /\ armed \in Nat /\ queued \in Nat /\ MaxPending \in Nat
        /\ input <= MaxPending
    BY OrchestratorAssumption DEF TypeOK, U32
  <1>2. /\ UNCHANGED <<phase, reason, taskVars, queued, request, decision,
                       lastCheckpoint, corrections>>
        /\ \/ input' = input + 1 /\ input < MaxPending /\ armed' = armed
           \/ input' = input /\ armed' = armed + 1 /\ armed + queued < MaxPending
    BY DEF Arrive, ArriveInput, ArriveWakeup
  <1>3. /\ input' \in 0..MaxPending /\ armed' \in 0..MaxPending
        /\ input' >= input /\ armed' >= armed
        /\ MailboxBounded'
    BY <1>1, <1>2 DEF MailboxBounded, TypeOK
  <1>4. TypeOK'
    BY <1>2, <1>3 DEF TypeOK
  <1>5. RequestIsCurrent'
    BY <1>1, <1>2, <1>3 DEF RequestIsCurrent
  <1> QED
    BY <1>2, <1>3, <1>4, <1>5 DEF FollowUpsAreStalls

LEMMA ProposeHost ==
  ASSUME HostInv, NEW why \in Reasons, Propose(why)
  PROVE  HostInv'
  <1> USE DEF HostInv
  <1>1. /\ phase' = "asked" /\ Candidate(why)
        /\ UNCHANGED <<reason, taskVars, mailVars, decision, lastCheckpoint, corrections>>
        /\ request' =
            [continue_reason |-> why,
             recent_state_changes |-> changes,
             duplicate_injection_detected |-> duplicate,
             repeated_follow_up_count |-> followUps,
             progress |-> progress,
             recovery |-> recovery,
             post_compaction |-> [pending_post_compaction |-> pendingPost]]
    BY DEF Propose
  <1>2. request' \in ContinueRequest
    <2>1. why \in ContinueReason
      BY OrchestratorAssumption
    <2> QED
      BY <1>1, <2>1 DEF TypeOK, ContinueRequest, PostCompactionState
  <1>3. /\ why = "PendingInput" => input > 0
        /\ why = "TriggerTurnWakeup" => armed > 0
    BY <1>1 DEF Candidate, FollowUpReasons
  <1>4. TypeOK'
    BY <1>1, <1>2 DEF TypeOK, Phases
  <1>5. RequestIsCurrent'
    BY <1>1, <1>3 DEF RequestIsCurrent
  <1> QED
    BY <1>1, <1>4, <1>5 DEF FollowUpsAreStalls, MailboxBounded

\* A decision that is obeyed takes from the mailbox only what is there.
LEMMA ObeyHost ==
  ASSUME HostInv, Obey, QueueOnly => armed > 0
  PROVE  HostInv'
  <1> USE DEF HostInv
  <1>1. /\ phase = "decided" /\ phase' \in {"turn", "idle", "handoff"}
        /\ UNCHANGED <<taskVars, request, decision>> /\ Checkpoint
    BY DEF Obey, StartTurn, QueueOnly, HandOff
  <1>2. /\ input \in Nat /\ armed \in Nat /\ queued \in Nat /\ MaxPending \in Nat
        /\ input <= MaxPending /\ armed + queued <= MaxPending
    BY OrchestratorAssumption DEF TypeOK, U32, MailboxBounded
  <1>3. lastCheckpoint' \in U32
    BY <1>1, CheckpointType
  <1>4. corrections' \in U32 /\ reason' \in ContinueReason
    <2>1. corrections' \in {corrections, Increment(corrections)}
          /\ reason' \in {reason, request.continue_reason}
      BY DEF Obey, StartTurn, QueueOnly, HandOff
    <2> QED
      BY <2>1, IncrementType DEF TypeOK, ContinueRequest
  <1>5. input' \in 0..MaxPending /\ armed' \in 0..MaxPending
        /\ queued' \in 0..MaxPending /\ armed' + queued' <= MaxPending
    <2>1. CASE StartTurn
      <3>1. /\ input' = IF request.continue_reason = "PendingInput"
                        THEN input - 1 ELSE input
            /\ armed' = IF request.continue_reason = "TriggerTurnWakeup"
                        THEN armed - 1 ELSE armed
            /\ queued' = queued
        BY <2>1 DEF StartTurn
      <3> QED
        BY <1>1, <1>2, <3>1 DEF RequestIsCurrent
    <2>2. CASE QueueOnly
      <3>1. input' = input /\ armed' = armed - 1 /\ queued' = queued + 1
        BY <2>2 DEF QueueOnly
      <3>2. armed > 0
        BY <2>2
      <3> QED
        BY <1>2, <3>1, <3>2
    <2>3. CASE HandOff
      <3>1. /\ input' = input
            /\ \/ armed' = 0 /\ queued' = queued + armed
               \/ armed' = armed /\ queued' = queued
        BY <2>3 DEF HandOff
      <3> QED
        BY <1>2, <3>1
    <2> QED
      BY <2>1, <2>2, <2>3 DEF Obey
  <1>6. TypeOK'
    BY <1>1, <1>3, <1>4, <1>5 DEF TypeOK, Phases
  <1> QED
    BY <1>1, <1>5, <1>6
       DEF RequestIsCurrent, FollowUpsAreStalls, MailboxBounded

LEMMA DecideHost ==
  ASSUME HostInv, Decide
  PROVE  HostInv'
  <1>1. /\ phase = "asked" /\ phase' = "decided"
        /\ decision' = DecideContinue(request)
        /\ UNCHANGED <<reason, taskVars, mailVars, request, lastCheckpoint, corrections>>
    BY DEF Decide
  <1>2. decision' \in ContinueDecision
    BY <1>1, AnswerType DEF HostInv, TypeOK
  <1>3. TypeOK'
    BY <1>1, <1>2 DEF HostInv, TypeOK, Phases
  <1> QED
    BY <1>1, <1>3 DEF HostInv, RequestIsCurrent, FollowUpsAreStalls, MailboxBounded

LEMMA RestHost ==
  ASSUME HostInv, GoIdle \/ Withdraw \/ UNCHANGED vars
  PROVE  HostInv'
  BY DEF vars, HostInv, GoIdle, Withdraw, TypeOK, Phases, RequestIsCurrent,
     FollowUpsAreStalls, MailboxBounded

LEMMA NextOrchestrator ==
  ASSUME OrchestratorInv, [Next]_vars
  PROVE  OrchestratorInv'
  <1> USE DEF OrchestratorInv
  <1>1. ASSUME QueueOnly PROVE armed > 0
    BY <1>1, AnswerMode DEF QueueOnly, DecisionIsAnswer, HostInv, RequestIsCurrent
  <1>2. HostInv'
    BY <1>1, TurnHost, ArriveHost, ProposeHost, DecideHost, RestHost, ObeyHost DEF Next
  <1>3. phase' = "decided" =>
            \/ phase = "decided" /\ UNCHANGED <<request, decision>>
            \/ Decide
    BY DEF Next, Turn, UsefulTurn, IdleTurn, FailedTurn, PartialTurn, EndTurn,
       Arrive, ArriveInput, ArriveWakeup, GoIdle, Propose, Withdraw, Obey,
       StartTurn, QueueOnly, HandOff, vars
  <1> QED
    BY <1>2, <1>3 DEF DecisionIsAnswer, Decide

\* Between any two steps the request under way describes the task as it is,
\* although input and mail arrive while the answer is awaited.
THEOREM OrchestratorCorrect == Spec => []OrchestratorInv
  BY InitOrchestrator, NextOrchestrator, PTL DEF Spec

-----------------------------------------------------------------------------
(* Turns that are started. *)

\* A step that leaves a session in a turn starts it on a decision or leaves
\* the task alone.
LEMMA IntoTurn ==
  ASSUME [Next]_vars, phase' = "turn"
  PROVE  \/ StartTurn
         \/ phase = "turn" /\ UNCHANGED taskVars
  BY DEF Next, Turn, UsefulTurn, IdleTurn, FailedTurn, PartialTurn, EndTurn,
     Arrive, ArriveInput, ArriveWakeup, GoIdle, Propose, Decide, Withdraw, Obey,
     QueueOnly, HandOff, vars

\* What the rules promise of a turn that is started.
LEMMA StartTurnIsUseful ==
  ASSUME OrchestratorInv, StartTurn
  PROVE  /\ ~recovery.last_recovery_had_progress =>
              progress.no_progress_iteration_count < 3
         /\ pendingPost => progress.no_progress_iteration_count < 2
  <1> USE DEF OrchestratorInv, HostInv
  <1>1. phase = "decided" /\ decision.mode = "NextTurn"
    BY DEF StartTurn
  <1>2. ~StalledTask(request) /\ ~PostCompactionStall(request)
    BY <1>1, AnswerMode DEF DecisionIsAnswer
  <1>3. /\ request.progress = progress /\ request.recovery = recovery
        /\ request.post_compaction.pending_post_compaction = pendingPost
    BY <1>1 DEF RequestIsCurrent
  <1>4. progress.no_progress_iteration_count \in Nat
    BY DEF TypeOK, ProgressSnapshot, U32
  <1> QED
    BY <1>2, <1>3, <1>4 DEF StalledTask, PostCompactionStall

\* A task with an open failure is never continued after three turns in a row
\* that changed nothing, whatever proposed the turn.
THEOREM FailureStallsBounded == Spec => []FailureStallBounded
  <1>1. Init => FailureStallBounded
    BY DEF Init, FailureStallBounded
  <1>2. OrchestratorInv /\ FailureStallBounded /\ [Next]_vars => FailureStallBounded'
    BY IntoTurn, StartTurnIsUseful DEF FailureStallBounded, StartTurn
  <1> QED
    BY <1>1, <1>2, OrchestratorCorrect, PTL DEF Spec

\* After a compaction no turn starts on two turns in a row that changed
\* nothing, in whatever order they came.
THEOREM PostCompactionStallsBounded == Spec => []PostCompactionStallBounded
  <1>1. Init => PostCompactionStallBounded
    BY DEF Init, PostCompactionStallBounded
  <1>2. OrchestratorInv /\ PostCompactionStallBounded /\ [Next]_vars
          => PostCompactionStallBounded'
    BY IntoTurn, StartTurnIsUseful DEF PostCompactionStallBounded, StartTurn
  <1> QED
    BY <1>1, <1>2, OrchestratorCorrect, PTL DEF Spec

-----------------------------------------------------------------------------
(* Sessions that are handed off. *)

LEMMA IntoHandoff ==
  ASSUME [Next]_vars, phase' = "handoff"
  PROVE  HandOff \/ (phase = "handoff" /\ UNCHANGED vars)
  BY DEF Next, Turn, UsefulTurn, IdleTurn, FailedTurn, PartialTurn, EndTurn,
     Arrive, ArriveInput, ArriveWakeup, GoIdle, Propose, Decide, Withdraw, Obey,
     StartTurn, QueueOnly, HandOff, vars

LEMMA HandOffIsSafe ==
  ASSUME OrchestratorInv, HandOff
  PROVE  /\ progress'.no_progress_iteration_count >= IF pendingPost' THEN 2 ELSE 3
         /\ lastCheckpoint' = progress'.completed_steps
  <1> USE DEF OrchestratorInv, HostInv
  <1>1. /\ phase = "decided" /\ decision.mode = "Handoff" /\ Checkpoint
        /\ progress' = progress /\ pendingPost' = pendingPost
    BY DEF HandOff
  <1>2. /\ \/ FollowUpLoop(request)
           \/ StalledTask(request)
           \/ PostCompactionStall(request)
        /\ decision.request_checkpoint
    BY <1>1, AnswerMode DEF DecisionIsAnswer
  <1>3. /\ request.progress = progress
        /\ request.repeated_follow_up_count = followUps
        /\ request.post_compaction.pending_post_compaction = pendingPost
    BY <1>1 DEF RequestIsCurrent
  <1>4. /\ progress.no_progress_iteration_count \in Nat /\ followUps \in Nat
        /\ followUps <= progress.no_progress_iteration_count
    BY DEF TypeOK, ProgressSnapshot, U32, FollowUpsAreStalls
  <1>5. progress.no_progress_iteration_count >= IF pendingPost THEN 2 ELSE 3
    BY <1>2, <1>3, <1>4 DEF FollowUpLoop, StalledTask, PostCompactionStall
  <1> QED
    BY <1>1, <1>2, <1>5 DEF Checkpoint

\* No session is handed off before its third turn in a row that changed
\* nothing, or its second after a compaction.
THEOREM HandoffsNeedStall == Spec => []HandoffNeedsStall
  <1>1. Init => HandoffNeedsStall
    BY DEF Init, HandoffNeedsStall
  <1>2. OrchestratorInv /\ HandoffNeedsStall /\ [Next]_vars => HandoffNeedsStall'
    BY IntoHandoff, HandOffIsSafe DEF HandoffNeedsStall, vars
  <1> QED
    BY <1>1, <1>2, OrchestratorCorrect, PTL DEF Spec

\* A session handed off has all its work in a checkpoint.
THEOREM OrchestratorHandoffsCheckpointed == Spec => []HandoffCheckpointed
  <1>1. Init => HandoffCheckpointed
    BY DEF Init, HandoffCheckpointed
  <1>2. OrchestratorInv /\ HandoffCheckpointed /\ [Next]_vars => HandoffCheckpointed'
    BY IntoHandoff, HandOffIsSafe DEF HandoffCheckpointed, vars
  <1> QED
    BY <1>1, <1>2, OrchestratorCorrect, PTL DEF Spec

-----------------------------------------------------------------------------
(* Sessions that continue only on follow-ups of their own. *)

\* With no other reason for a turn, the follow-ups count all turns that changed
\* nothing but the first, and a task without an open failure that stalls says
\* so in its changes.
FollowUpsInv ==
    /\ progress.no_progress_iteration_count <= followUps + 1
    /\ progress.no_progress_iteration_count <= 4
    /\ phase = "turn" =>
          /\ progress.no_progress_iteration_count <= 3
          /\ reason \in FollowUpReasons \/ progress.no_progress_iteration_count = 0
    /\ phase \in {"asked", "decided"} =>
          /\ request.recent_state_changes = changes
          /\ \/ request.continue_reason \in FollowUpReasons
             \/ progress.no_progress_iteration_count = 0
    /\ progress.no_progress_iteration_count > 0 /\ recovery.last_recovery_had_progress
          => \A change \in changes : change = "NoMeaningfulChange"

LEMMA InitFollowUps == Init => FollowUpsInv
  BY DEF Init, FollowUpsInv, StartRequest

LEMMA TurnFollowUps ==
  ASSUME OrchestratorInv, FollowUpsInv, Turn
  PROVE  FollowUpsInv'
  <1> USE DEF OrchestratorInv, HostInv
  <1> DEFINE stalls == progress.no_progress_iteration_count
  <1>1. phase = "turn" /\ phase' = "ended"
    BY DEF Turn, UsefulTurn, IdleTurn, FailedTurn, PartialTurn, EndTurn
  <1>2. /\ stalls \in U32 /\ followUps \in U32
        /\ stalls <= 3 /\ stalls <= followUps + 1
        /\ reason \in FollowUpReasons \/ stalls = 0
    BY <1>1 DEF FollowUpsInv, TypeOK, ProgressSnapshot
  <1>3. CASE Advance
    <2>1. progress'.no_progress_iteration_count = 0 /\ followUps' = 0
      BY <1>3 DEF Advance
    <2> QED
      BY <1>1, <2>1 DEF FollowUpsInv
  <1>4. CASE Stall /\ (IdleTurn \/ \E failure \in Failures : FailedTurn(failure))
    <2>1. progress'.no_progress_iteration_count = stalls + 1
      <3>1. progress'.no_progress_iteration_count = Increment(stalls)
        BY <1>4 DEF Stall, TypeOK, ProgressSnapshot
      <3> QED
        BY <1>2, <3>1, U32MaxAssumption DEF Increment, U32
    <2>2. stalls <= followUps'
      <3>1. CASE reason \in FollowUpReasons
        <4>1. followUps' = Increment(followUps)
          BY <1>4, <3>1 DEF Stall, CountFollowUp
        <4> QED
          BY <1>2, <4>1, U32MaxAssumption DEF Increment, U32
      <3>2. CASE reason \notin FollowUpReasons
        <4>1. followUps' \in {0, followUps}
          BY <1>4, <3>2 DEF Stall, CountFollowUp
        <4> QED
          BY <1>2, <3>2, <4>1 DEF U32
      <3> QED
        BY <3>1, <3>2
    <2>3. followUps' \in U32
      BY <1>4, StallType
    <2>4. \/ ~recovery'.last_recovery_had_progress
          \/ \A change \in changes' : change = "NoMeaningfulChange"
      <3>1. CASE IdleTurn
        BY <3>1 DEF IdleTurn, EndTurn
      <3>2. CASE \E failure \in Failures : FailedTurn(failure)
        BY <3>2 DEF FailedTurn, Fail
      <3> QED
        BY <1>4, <3>1, <3>2
    <2> QED
      BY <1>1, <1>2, <2>1, <2>2, <2>3, <2>4 DEF FollowUpsInv, U32
  <1> QED
    BY <1>3, <1>4 DEF Turn, UsefulTurn, IdleTurn, FailedTurn, PartialTurn

LEMMA NextFollowUps ==
  ASSUME OrchestratorInv, FollowUpsInv, [Next]_vars, Reasons \subseteq FollowUpReasons
  PROVE  FollowUpsInv'
  <1> USE DEF OrchestratorInv, HostInv
  <1>1. CASE Turn
    BY <1>1, TurnFollowUps
  <1>2. CASE Arrive
    BY <1>2 DEF Arrive, ArriveInput, ArriveWakeup, FollowUpsInv
  <1>3. CASE GoIdle \/ Withdraw \/ QueueOnly \/ HandOff \/ Decide
    BY <1>3 DEF GoIdle, Withdraw, QueueOnly, HandOff, Decide, FollowUpsInv
  <1>4. ASSUME NEW why \in Reasons, Propose(why) PROVE FollowUpsInv'
    BY <1>4 DEF Propose, FollowUpsInv
  <1>5. CASE StartTurn
    <2>1. /\ phase = "decided" /\ phase' = "turn" /\ decision.mode = "NextTurn"
          /\ UNCHANGED taskVars /\ reason' = request.continue_reason
      BY <1>5 DEF StartTurn
    <2>2. ~FollowUpLoop(request) /\ ~StalledTask(request)
      <3>1. DecideContinue(request).mode # "Handoff"
        BY <2>1 DEF DecisionIsAnswer
      <3> QED
        BY <3>1, Answers DEF HandoffDecision
    <2>3. /\ request.progress = progress /\ request.recovery = recovery
          /\ request.repeated_follow_up_count = followUps
          /\ request.recent_state_changes = changes
      BY <2>1 DEF RequestIsCurrent, FollowUpsInv
    <2>4. /\ progress.no_progress_iteration_count \in Nat /\ followUps \in Nat
          /\ progress.no_progress_iteration_count <= followUps + 1
      BY DEF TypeOK, ProgressSnapshot, U32, FollowUpsInv
    <2>5. progress.no_progress_iteration_count <= 3
      <3>1. CASE ~recovery.last_recovery_had_progress
        BY <2>2, <2>3, <2>4, <3>1 DEF StalledTask
      <3>2. CASE /\ progress.no_progress_iteration_count > 0
                 /\ recovery.last_recovery_had_progress
        <4>1. RepeatedWithoutChange(request)
          BY <2>3, <3>2 DEF FollowUpsInv, RepeatedWithoutChange
        <4>2. ~(followUps >= 3)
          BY <2>2, <2>3, <4>1 DEF FollowUpLoop
        <4> QED
          BY <2>4, <4>2
      <3> QED
        BY <2>4, <3>1, <3>2
    <2> QED
      BY <2>1, <2>5 DEF FollowUpsInv
  <1>6. CASE UNCHANGED vars
    BY <1>6 DEF vars, FollowUpsInv
  <1> QED
    BY <1>1, <1>2, <1>3, <1>4, <1>5, <1>6 DEF Next, Obey

\* A session that continues only on follow-ups of its own is stopped after its
\* first turn and three follow-ups that changed nothing, failed or not.
THEOREM FollowUpLoopsBounded ==
  ASSUME Reasons \subseteq FollowUpReasons
  PROVE  Spec => []FollowUpsBounded
  <1>1. FollowUpsInv => FollowUpsBounded
    BY DEF FollowUpsInv, FollowUpsBounded
  <1> QED
    BY <1>1, InitFollowUps, NextFollowUps, OrchestratorCorrect, PTL DEF Spec

-----------------------------------------------------------------------------
(* A session that runs on follow-ups of its own changes something in the end. *)

\* A turn that changes something.
Useful == Turn /\ progress'.no_progress_iteration_count = 0

LEMMA TurnCounts ==
  ASSUME OrchestratorInv, FollowUpsInv, Turn
  PROVE  \/ Useful
         \/ /\ progress.no_progress_iteration_count < 4
            /\ progress'.no_progress_iteration_count =
                   progress.no_progress_iteration_count + 1
  <1> USE DEF OrchestratorInv, HostInv
  <1> DEFINE stalls == progress.no_progress_iteration_count
  <1>1. stalls \in U32 /\ stalls <= 3
    BY DEF Turn, UsefulTurn, IdleTurn, FailedTurn, PartialTurn, EndTurn,
       FollowUpsInv, TypeOK, ProgressSnapshot
  <1>2. CASE Advance
    BY <1>2 DEF Advance, Useful
  <1>3. CASE Stall
    <2>1. progress'.no_progress_iteration_count = Increment(stalls)
      BY <1>3 DEF Stall, TypeOK, ProgressSnapshot
    <2>2. Increment(stalls) = stalls + 1 /\ stalls < 4
      BY <1>1, U32MaxAssumption DEF Increment, U32
    <2> QED
      BY <2>1, <2>2
  <1> QED
    BY <1>2, <1>3 DEF Turn, UsefulTurn, IdleTurn, FailedTurn, PartialTurn

\* A turn is useful or one more that is not; nothing else lowers the count.
LEMMA StallsMount ==
  ASSUME OrchestratorInv, FollowUpsInv, [Next]_vars, NEW k \in 0..4,
         progress.no_progress_iteration_count >= k
  PROVE  \/ <<Useful>>_vars
         \/ /\ progress'.no_progress_iteration_count >= k
            /\ Turn => k < 4 /\ progress'.no_progress_iteration_count >= k + 1
  <1>1. CASE Turn
    <2>1. vars' # vars
      BY <1>1 DEF Turn, UsefulTurn, IdleTurn, FailedTurn, PartialTurn, EndTurn, vars
    <2>2. progress.no_progress_iteration_count \in Nat
      BY DEF OrchestratorInv, HostInv, TypeOK, ProgressSnapshot, U32
    <2> QED
      BY <1>1, <2>1, <2>2, TurnCounts
  <1>2. CASE ~Turn
    <2>1. UNCHANGED progress
      BY <1>2 DEF Next, Arrive, ArriveInput, ArriveWakeup, GoIdle, Propose, Decide,
         Withdraw, Obey, StartTurn, QueueOnly, HandOff, vars
    <2> QED
      BY <1>2, <2>1
  <1> QED
    BY <1>1, <1>2

\* A session that runs turns for ever for follow-ups of its own changes
\* something again and again.  The limit of four is in the code, not in a
\* policy, so that there are five counts to climb and no induction is needed;
\* nor is any fairness.
THEOREM FollowUpTurnsEnd ==
  ASSUME Reasons \subseteq FollowUpReasons
  PROVE  Spec => FollowUpsEnd
  <1> DEFINE Stalls(k) == progress.no_progress_iteration_count >= k
             SpinInv == OrchestratorInv /\ FollowUpsInv
  <1>1. Spec => []SpinInv
    BY InitFollowUps, NextFollowUps, OrchestratorCorrect, PTL DEF Spec
  <1>2. SpinInv => Stalls(0)
    BY DEF OrchestratorInv, HostInv, TypeOK, ProgressSnapshot, U32
  <1> USE StallsMount
  <1>3. SpinInv /\ [Next]_vars /\ Turn /\ Stalls(0) => <<Useful>>_vars \/ Stalls(1)'
    OBVIOUS
  <1>4. SpinInv /\ [Next]_vars /\ Turn /\ Stalls(1) => <<Useful>>_vars \/ Stalls(2)'
    OBVIOUS
  <1>5. SpinInv /\ [Next]_vars /\ Turn /\ Stalls(2) => <<Useful>>_vars \/ Stalls(3)'
    OBVIOUS
  <1>6. SpinInv /\ [Next]_vars /\ Turn /\ Stalls(3) => <<Useful>>_vars \/ Stalls(4)'
    OBVIOUS
  <1>7. SpinInv /\ [Next]_vars /\ Turn /\ Stalls(4) => <<Useful>>_vars
    OBVIOUS
  <1>8. SpinInv /\ [Next]_vars /\ Stalls(1) => <<Useful>>_vars \/ Stalls(1)'
    OBVIOUS
  <1>9. SpinInv /\ [Next]_vars /\ Stalls(2) => <<Useful>>_vars \/ Stalls(2)'
    OBVIOUS
  <1>10. SpinInv /\ [Next]_vars /\ Stalls(3) => <<Useful>>_vars \/ Stalls(3)'
    OBVIOUS
  <1>11. SpinInv /\ [Next]_vars /\ Stalls(4) => <<Useful>>_vars \/ Stalls(4)'
    OBVIOUS
  <1> HIDE DEF Stalls, SpinInv
  <1>12. Spec => ([]<><<Turn>>_vars => []<><<Useful>>_vars)
    BY <1>1, <1>2, <1>3, <1>4, <1>5, <1>6, <1>7, <1>8, <1>9, <1>10, <1>11, PTL DEF Spec
  <1> QED
    BY <1>12, PTL DEF Useful, FollowUpsEnd

-----------------------------------------------------------------------------
(* Wakeups. *)

LEMMA InitWakeups == Init => WakeupLedger!Init
  BY DEF Init, WakeupLedger!Init

\* Whoever decided, obeying a decision moves the wakeups as the ledger says if a
\* wakeup to be queued is there and a handoff downgrades those that wait.
LEMMA ObeyWakeups ==
  ASSUME HostInv, Obey, QueueOnly => armed > 0,
         HandOff => decision.downgrade_trigger_turn
  PROVE  [WakeupLedger!Next]_WakeupLedger!vars
  <1> USE DEF WakeupLedger!Next, WakeupLedger!vars
  <1>1. phase = "decided"
    BY DEF Obey, StartTurn, QueueOnly, HandOff
  <1>2. CASE StartTurn
    <2>1. /\ phase' = "turn" /\ queued' = queued
          /\ armed' = IF request.continue_reason = "TriggerTurnWakeup"
                      THEN armed - 1 ELSE armed
      BY <1>2 DEF StartTurn
    <2>2. request.continue_reason = "TriggerTurnWakeup" => armed > 0
      BY <1>1 DEF HostInv, RequestIsCurrent
    <2> QED
      BY <1>1, <2>1, <2>2 DEF WakeupLedger!Wake
  <1>3. CASE QueueOnly
    BY <1>3 DEF QueueOnly, WakeupLedger!Park
  <1>4. CASE HandOff
    BY <1>4 DEF HandOff, WakeupLedger!Stop
  <1> QED
    BY <1>2, <1>3, <1>4 DEF Obey

\* Nothing else touches a wakeup, save that one more may arrive.
LEMMA RestWakeups ==
  ASSUME \/ Turn \/ Arrive \/ GoIdle \/ Decide \/ Withdraw \/ UNCHANGED vars
         \/ \E why \in Reasons : Propose(why)
  PROVE  [WakeupLedger!Next]_WakeupLedger!vars
  <1> USE DEF WakeupLedger!Next, WakeupLedger!vars
  <1>1. CASE ArriveWakeup
    BY <1>1 DEF ArriveWakeup, WakeupLedger!Arrive
  <1>2. CASE Turn \/ ArriveInput \/ GoIdle \/ Decide \/ Withdraw \/ UNCHANGED vars
             \/ \E why \in Reasons : Propose(why)
    <2>1. /\ UNCHANGED <<armed, queued>>
          /\ phase # "handoff" <=> phase' # "handoff"
      BY <1>2 DEF Turn, UsefulTurn, IdleTurn, FailedTurn, PartialTurn, EndTurn,
         ArriveInput, GoIdle, Decide, Withdraw, Propose, vars
    <2> QED
      BY <2>1
  <1> QED
    BY <1>1, <1>2 DEF Arrive

LEMMA NextWakeups ==
  ASSUME OrchestratorInv, [Next]_vars
  PROVE  [WakeupLedger!Next]_WakeupLedger!vars
  <1>1. ASSUME QueueOnly PROVE armed > 0
    BY <1>1, AnswerMode
       DEF OrchestratorInv, QueueOnly, DecisionIsAnswer, HostInv, RequestIsCurrent
  <1>2. ASSUME HandOff PROVE decision.downgrade_trigger_turn
    BY <1>2, AnswerMode DEF OrchestratorInv, HandOff, DecisionIsAnswer
  <1> QED
    BY <1>1, <1>2, ObeyWakeups, RestWakeups DEF Next, OrchestratorInv

\* Every item that may start a turn starts one, or loses the right to, once: the
\* session implements the ledger whatever arrives while an answer is awaited.
THEOREM SessionKeepsWakeups == Spec => KeepsWakeups
  BY InitWakeups, NextWakeups, OrchestratorCorrect, PTL
     DEF Spec, KeepsWakeups, WakeupLedger!Spec
=============================================================================
