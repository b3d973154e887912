------------------------ MODULE HarnessAnswerProofs ------------------------
(***************************************************************************)
(* What a host that obeys an answer can rely on: a session handed off is   *)
(* checkpointed, fake progress is reported, no correction starts before it *)
(* is approved, and a session that goes on is checkpointed in time.        *)
(***************************************************************************)
EXTENDS HarnessSessionProofs

USE DEF hostVars, compactionVars

\* Nothing happens to a session that was handed off.
LEMMA HandoffIsFinal ==
  ASSUME phase = "handoff", [Next]_vars
  PROVE  UNCHANGED vars
  BY DEF Next, Turn, UsefulTurn, IdleTurn, FailedTurn, PartialTurn, EndTurn,
     LateCompaction, Approve, Governor, ExportBootstrap, ExportTurn, Decide, Continue,
     HandOff

\* A session that has not run a turn is never answered with a handoff.
LEMMA BootstrapGoesOn ==
  ASSUME snapshot = [kind |-> "bootstrap", body |-> Nil]
  PROVE  ~Blocked(CurrentRequest) /\ ~ShouldEnterSelfCorrection(CurrentRequest)
  <1>1. CurrentRequest = CodexBootstrapRequest
    BY DEF CurrentRequest, HarnessRequest
  <1> QED
    BY <1>1 DEF CodexBootstrapRequest, Blocked, NoProgressViolation,
       SelfCorrectionViolation, CompactionViolation, ShouldEnterSelfCorrection,
       UpstreamPolicy, NoCorrection, NoRecovery

\* A request that is no better than another: every counter as high at least,
\* every limit as low at least, no compaction of use that was of none.
NoBetter(worse, asked) ==
    /\ worse.progress.no_progress_iteration_count
          >= asked.progress.no_progress_iteration_count
    /\ worse.self_correction.correction_attempt_count
          >= asked.self_correction.correction_attempt_count
    /\ worse.context_pressure.recent_compaction_count
          >= asked.context_pressure.recent_compaction_count
    /\ worse.context_pressure.last_compaction_had_state_change
          => asked.context_pressure.last_compaction_had_state_change
    /\ worse.escalation_policy.no_progress_limit
          <= asked.escalation_policy.no_progress_limit
    /\ worse.escalation_policy.self_correction_limit
          <= asked.escalation_policy.self_correction_limit
    /\ worse.escalation_policy.repeated_compaction_limit
          <= asked.escalation_policy.repeated_compaction_limit

\* Nothing a host reports in addition and no limit an operator tightens turns a
\* handoff into a continuation.
THEOREM HarnessStopsWorse ==
  ASSUME NEW asked \in ReasoningHarnessRequest, NEW worse \in ReasoningHarnessRequest,
         NoBetter(worse, asked), DecideReasoningHarness(asked).mode = "Handoff"
  PROVE  DecideReasoningHarness(worse).mode = "Handoff"
  <1>1. Blocked(asked)
    BY DecisionMode
  <1>2. ASSUME NEW any \in {asked, worse}
        PROVE  /\ any.progress.no_progress_iteration_count \in Nat
               /\ any.self_correction.correction_attempt_count \in Nat
               /\ any.context_pressure.recent_compaction_count \in Nat
               /\ any.escalation_policy.no_progress_limit \in Nat
               /\ any.escalation_policy.self_correction_limit \in Nat
               /\ any.escalation_policy.repeated_compaction_limit \in Nat
    BY DEF ReasoningHarnessRequest, ProgressSnapshot, SelfCorrectionState,
       ContextPressure, EscalationPolicy, U32
  <1>3. NoProgressViolation(asked) => NoProgressViolation(worse)
    BY <1>2 DEF NoProgressViolation, NoBetter
  <1>4. SelfCorrectionViolation(asked) => SelfCorrectionViolation(worse)
    BY <1>2 DEF SelfCorrectionViolation, NoBetter
  <1>5. CompactionViolation(asked) => CompactionViolation(worse)
    BY <1>2 DEF CompactionViolation, NoBetter
  <1>6. Blocked(worse)
    BY <1>1, <1>3, <1>4, <1>5 DEF Blocked
  <1> QED
    BY <1>6, DecisionMode

LEMMA HandOffCheckpoints ==
  ASSUME SessionInv, HandOff, Policy.request_checkpoint_before_handoff
  PROVE  lastCheckpoint' = progress.completed_steps
  <1> USE DEF SessionInv
  <1>1. phase = "decided" /\ decision.mode = "Handoff" /\ Checkpoint
    BY DEF HandOff
  <1>2. Blocked(CurrentRequest)
    BY <1>1, DecisionMode DEF DecisionIsAnswer
  <1>3. CurrentRequest.escalation_policy = Policy
    BY <1>1, <1>2, BootstrapGoesOn DEF RequestIsCurrent
  <1>4. decision.should_checkpoint = Policy.request_checkpoint_before_handoff
    <2>1. DecideReasoningHarness(CurrentRequest).should_checkpoint
            = CurrentRequest.escalation_policy.request_checkpoint_before_handoff
      BY <1>2 DEF DecideReasoningHarness
    <2> QED
      BY <1>1, <1>3, <2>1 DEF DecisionIsAnswer
  <1> QED
    BY <1>1, <1>4 DEF Checkpoint

\* A session handed off under a policy that asks for a checkpoint leaves
\* nothing it completed out of it, on every route that carries the stalls.
THEOREM HandoffsCheckpointed ==
  ASSUME Route \in StallRoutes
  PROVE  Spec => []HandoffCheckpointed
  <1>1. Init => HandoffCheckpointed
    BY DEF Init, HandoffCheckpointed
  <1>2. SessionInv /\ HandoffCheckpointed /\ [Next]_vars => HandoffCheckpointed'
    <2> SUFFICES ASSUME SessionInv, HandoffCheckpointed, [Next]_vars
                 PROVE  HandoffCheckpointed'
      OBVIOUS
    <2>1. CASE phase = "handoff"
      BY <2>1, HandoffIsFinal DEF vars, HandoffCheckpointed, Policy
    <2>2. CASE HandOff
      BY <2>2, HandOffCheckpoints DEF HandOff, HandoffCheckpointed, Policy
    <2>3. CASE phase # "handoff" /\ ~HandOff
      <3>1. phase' # "handoff"
        BY <2>3 DEF Next, Turn, UsefulTurn, IdleTurn, FailedTurn, PartialTurn,
           EndTurn, LateCompaction, Approve, Governor, ExportBootstrap, ExportTurn,
           Export, Decide, Continue, vars
      <3> QED
        BY <3>1 DEF HandoffCheckpointed
    <2> QED
      BY <2>1, <2>2, <2>3
  <1> QED
    BY <1>1, <1>2, SessionCorrect, PTL DEF Spec

-----------------------------------------------------------------------------
(* Fake progress. *)

LEMMA ReportIsExact ==
  ASSUME SessionInv, Route \in CorrectionRoutes
  PROVE  FakeProgressIsReported
  <1> USE DEF SessionInv
  <1> SUFFICES ASSUME phase = "decided", snapshot.kind = Route
               PROVE  "NoFakeProgress" \in decision.violated_rules
                        <=> self_correction.active /\ ~recovery.last_recovery_had_progress
    BY DEF FakeProgressIsReported
  <1>1. snapshot # [kind |-> "bootstrap", body |-> Nil]
    BY DEF CorrectionRoutes
  <1>2. /\ CurrentRequest.self_correction = self_correction
        /\ CurrentRequest.recovery = recovery
    BY <1>1 DEF RequestIsCurrent
  <1>3. decision.violated_rules = ViolatedRules(CurrentRequest)
    BY DEF DecisionIsAnswer, DecideReasoningHarness
  <1>4. "NoFakeProgress" \in ViolatedRules(CurrentRequest)
          <=> /\ ~recovery.last_recovery_had_progress
              /\ self_correction.active
    BY <1>2 DEF ViolatedRules
  <1> QED
    BY <1>3, <1>4

\* Over a route that carries the correction, an answer reports fake progress
\* exactly when a correction is open that has achieved nothing.
THEOREM FakeProgressReported ==
  ASSUME Route \in CorrectionRoutes
  PROVE  Spec => []FakeProgressIsReported
  <1>1. Spec => []SessionInv
    BY CorrectionRoutesCarryStalls, SessionCorrect
  <1> QED
    BY <1>1, ReportIsExact, PTL

-----------------------------------------------------------------------------
(* Approvals: only the request of decide-file carries them. *)

\* An approval a request under way does not ask for is not pending: it may have
\* been granted since, but none became necessary.
ApprovalIsKnown ==
    phase \in {"exported", "decided"} =>
        \/ snapshot = [kind |-> "bootstrap", body |-> Nil]
        \/ approval => CurrentRequest.safety.requires_explicit_approval_for_next_step

LEMMA NextApprovalIsKnown ==
  ASSUME ApprovalIsKnown, [Next]_vars, Route = "file"
  PROVE  ApprovalIsKnown'
  <1> USE DEF ApprovalIsKnown
  <1>1. CASE ExportTurn
    <2>1. Export("file", RequestOfHost)
      BY <1>1 DEF ExportTurn, Snapshots
    <2>2. CurrentRequest' = RequestOfHost /\ approval' = approval
      BY <2>1 DEF Export, CurrentRequest, HarnessRequest
    <2> QED
      BY <2>2 DEF RequestOfHost
  <1>2. CASE ExportBootstrap
    BY <1>2 DEF ExportBootstrap, Export
  <1>3. CASE UNCHANGED <<snapshot, approval>> /\ phase \in {"exported", "decided"}
    BY <1>3 DEF CurrentRequest
  <1>4. CASE phase' \notin {"exported", "decided"}
    BY <1>4
  <1>5. CASE Approve \/ UNCHANGED vars
    BY <1>5 DEF Approve, vars, CurrentRequest
  <1> QED
    BY <1>1, <1>2, <1>3, <1>4, <1>5
       DEF Next, Turn, UsefulTurn, IdleTurn, FailedTurn, PartialTurn, EndTurn,
           LateCompaction, Governor, Decide, Continue, HandOff

LEMMA CorrectionIsApproved ==
  ASSUME SessionInv, ApprovalIsKnown, [Next]_vars, Route = "file",
         self_correction'.correction_attempt_count
           > self_correction.correction_attempt_count
  PROVE  ~approval
  <1> USE DEF SessionInv
  <1>0. self_correction.correction_attempt_count \in Nat
    BY DEF TypeOK, SelfCorrectionState, U32
  <1>1. ~Turn
    BY <1>0, TurnCorrection
  <1>2. Continue
    BY <1>0, <1>1 DEF Next, Governor, LateCompaction, Approve, ExportBootstrap,
       ExportTurn, Export, Decide, HandOff, vars
  <1>3. phase = "decided" /\ decision.should_enter_self_correction
    <2>1. phase = "decided"
      BY <1>2 DEF Continue
    <2>2. decision.should_enter_self_correction \in BOOLEAN
      BY <2>1 DEF TypeOK, ReasoningHarnessDecision
    <2>3. CASE ~decision.should_enter_self_correction
      BY <1>0, <1>2, <2>3 DEF Continue
    <2> QED
      BY <2>1, <2>2, <2>3
  <1>4. ShouldEnterSelfCorrection(CurrentRequest)
    BY <1>3, DecisionMode DEF DecisionIsAnswer
  <1> QED
    BY <1>3, <1>4, BootstrapGoesOn DEF ApprovalIsKnown, ShouldEnterSelfCorrection

\* Where the request carries it, no correction starts while the next step
\* waits for an approval.
THEOREM CorrectionsWaitForApproval ==
  ASSUME Route = "file"
  PROVE  Spec => CorrectionWaitsForApproval
  <1>1. Spec => []SessionInv
    BY SessionCorrect DEF StallRoutes
  <1>2. Init => ApprovalIsKnown
    BY DEF Init, ApprovalIsKnown
  <1>3. SessionInv /\ ApprovalIsKnown /\ [Next]_vars =>
          [self_correction'.correction_attempt_count
             > self_correction.correction_attempt_count => ~approval]_vars
    BY CorrectionIsApproved
  <1> QED
    BY <1>1, <1>2, <1>3, NextApprovalIsKnown, PTL
       DEF Spec, CorrectionWaitsForApproval
-----------------------------------------------------------------------------
(* The periodic checkpoint. *)

\* How far a session is past its last periodic checkpoint, which lies on a
\* multiple of five, and what its request says of the steps.
CadenceInv ==
    phase # "handoff" =>
        /\ lastCheckpoint % 5 = 0
        /\ progress.completed_steps >= lastCheckpoint
        /\ progress.completed_steps - lastCheckpoint
              <= IF phase \in {"start", "turn"} THEN 4 ELSE 5
        /\ phase \in {"exported", "decided"} =>
              CurrentRequest.progress.completed_steps = progress.completed_steps

LEMMA InitCadence == Init => CadenceInv
  BY DEF Init, CadenceInv

\* The request that is sent carries the steps completed.
LEMMA ExportCadence ==
  ASSUME TypeOK, StartIsFresh, CadenceInv, Route \in CorrectionRoutes,
         ExportBootstrap \/ ExportTurn
  PROVE  CadenceInv'
  <1>1. /\ phase \in {"start", "ended"} /\ phase' = "exported"
        /\ UNCHANGED <<progress, lastCheckpoint>>
    BY DEF ExportBootstrap, ExportTurn, Export
  <1>2. CurrentRequest'.progress.completed_steps = progress.completed_steps
    <2>1. CASE ExportBootstrap
      <3>1. CurrentRequest' = CodexBootstrapRequest /\ phase = "start"
        BY <2>1 DEF ExportBootstrap, Export, CurrentRequest, HarnessRequest
      <3> QED
        BY <3>1 DEF StartIsFresh
    <2>2. CASE ExportTurn /\ Route = "file"
      <3>1. CurrentRequest' = RequestOfHost
        BY <2>2 DEF ExportTurn, Export, Snapshots, CurrentRequest, HarnessRequest
      <3> QED
        BY <3>1 DEF RequestOfHost
    <2>3. CASE ExportTurn /\ Route = "signal"
      <3>1. CurrentRequest' = CodexSnapshotToHarnessRequest(SignalOfHost)
        BY <2>3 DEF ExportTurn, Export, Snapshots, CurrentRequest, HarnessRequest
      <3> QED
        BY <3>1 DEF CodexSnapshotToHarnessRequest, SignalOfHost
    <2> QED
      BY <2>1, <2>2, <2>3 DEF CorrectionRoutes
  <1>3. progress.completed_steps \in Nat /\ lastCheckpoint \in Nat
    BY DEF TypeOK, ProgressSnapshot, U32
  <1> QED
    BY <1>1, <1>2, <1>3 DEF CadenceInv

\* An answer that lets a session go on checkpoints it on the fifth step.
LEMMA ContinueCadence ==
  ASSUME SessionInv, CadenceInv, Continue
  PROVE  CadenceInv'
  <1> USE DEF SessionInv
  <1> DEFINE steps == progress.completed_steps
  <1>1. /\ phase = "decided" /\ phase' = "turn" /\ progress' = progress
        /\ Checkpoint /\ decision.mode # "Handoff"
    BY DEF Continue
  <1>2. steps \in Nat /\ lastCheckpoint \in Nat
    BY DEF TypeOK, ProgressSnapshot, U32
  <1>3. /\ lastCheckpoint % 5 = 0 /\ steps >= lastCheckpoint
        /\ steps - lastCheckpoint <= 5
        /\ CurrentRequest.progress.completed_steps = steps
    BY <1>1 DEF CadenceInv
  <1>4. decision.should_checkpoint <=> steps > 0 /\ steps % 5 = 0
    <2>1. decision = DecideReasoningHarness(CurrentRequest) /\ ~Blocked(CurrentRequest)
      BY <1>1, DecisionMode DEF DecisionIsAnswer
    <2>2. decision.should_checkpoint = CheckpointDue(CurrentRequest)
      BY <2>1 DEF DecideReasoningHarness
    <2> QED
      BY <1>3, <2>2 DEF CheckpointDue
  <1>5. steps - lastCheckpoint = 5 => steps > 0 /\ steps % 5 = 0
    BY <1>2, <1>3
  <1>6. decision.should_checkpoint \in BOOLEAN
    BY <1>1 DEF TypeOK, ReasoningHarnessDecision
  <1>7. CASE decision.should_checkpoint
    <2>1. lastCheckpoint' = steps /\ steps % 5 = 0
      BY <1>1, <1>4, <1>7 DEF Checkpoint
    <2> QED
      BY <1>1, <1>2, <2>1 DEF CadenceInv
  <1>8. CASE ~decision.should_checkpoint
    <2>1. lastCheckpoint' = lastCheckpoint /\ steps - lastCheckpoint <= 4
      BY <1>1, <1>2, <1>3, <1>4, <1>5, <1>8 DEF Checkpoint
    <2> QED
      BY <1>1, <1>2, <1>3, <2>1 DEF CadenceInv
  <1> QED
    BY <1>6, <1>7, <1>8

\* A turn completes one step at the most.
LEMMA TurnCadence ==
  ASSUME TypeOK, CadenceInv, Turn, StepsPerTurn \subseteq {0, 1}
  PROVE  CadenceInv'
  <1>1. /\ phase = "turn" /\ phase' = "ended" /\ UNCHANGED lastCheckpoint
    BY DEF Turn, UsefulTurn, IdleTurn, FailedTurn, PartialTurn, EndTurn
  <1>2. progress.completed_steps \in Nat /\ lastCheckpoint \in Nat
    BY DEF TypeOK, ProgressSnapshot, U32
  <1>3. progress'.completed_steps
            \in {progress.completed_steps, progress.completed_steps + 1}
    <2>1. CASE \E steps \in StepsPerTurn : Advance(steps)
      BY <1>2, <2>1 DEF Advance
    <2>2. CASE Stall
      BY <2>2 DEF Stall, TypeOK, ProgressSnapshot
    <2> QED
      BY <2>1, <2>2 DEF Turn, UsefulTurn, IdleTurn, FailedTurn, PartialTurn
  <1> QED
    BY <1>1, <1>2, <1>3 DEF CadenceInv

LEMMA NextCadence ==
  ASSUME SessionInv, CadenceInv, [Next]_vars,
         Route \in CorrectionRoutes, StepsPerTurn \subseteq {0, 1}
  PROVE  CadenceInv'
  <1>1. CASE Turn
    BY <1>1, TurnCadence DEF SessionInv
  <1>2. CASE ExportBootstrap \/ ExportTurn
    BY <1>2, ExportCadence DEF SessionInv
  <1>3. CASE Continue
    BY <1>3, ContinueCadence
  <1>4. CASE HandOff
    BY <1>4 DEF HandOff, CadenceInv
  <1>5. CASE LateCompaction \/ Decide
    <2>1. /\ UNCHANGED <<progress, lastCheckpoint, snapshot>>
          /\ phase = "exported" /\ phase' \in {"exported", "decided"}
      BY <1>5 DEF LateCompaction, Decide
    <2> QED
      BY <2>1 DEF CadenceInv, CurrentRequest
  <1>6. CASE Approve \/ UNCHANGED vars
    BY <1>6 DEF Approve, vars, CadenceInv, CurrentRequest
  <1> QED
    BY <1>1, <1>2, <1>3, <1>4, <1>5, <1>6 DEF Next, Governor

\* When every turn completes at most one step, a session that goes on is never
\* five completed steps or more past its last checkpoint, over a route that
\* carries the steps.
THEOREM CheckpointsKeepCadence ==
  ASSUME Route \in CorrectionRoutes, StepsPerTurn \subseteq {0, 1}
  PROVE  Spec => []CheckpointCadence
  <1>1. Spec => []SessionInv
    BY CorrectionRoutesCarryStalls, SessionCorrect
  <1>2. SessionInv /\ CadenceInv => CheckpointCadence
    BY DEF SessionInv, TypeOK, ProgressSnapshot, U32, CadenceInv, CheckpointCadence
  <1> QED
    BY <1>1, <1>2, InitCadence, NextCadence, PTL DEF Spec

-----------------------------------------------------------------------------
(* The signal route and the file route. *)

\* A signal snapshot under way is the one the host would export now, unless the
\* host has compacted since, and an answer is the one to it.
SignalIsCurrent ==
    /\ DecisionIsAnswer
    /\ (phase \in {"exported", "decided"} /\ snapshot.kind = "signal" /\ ~overtaken)
          => snapshot.body = SignalOfHost

LEMMA NextSignal ==
  ASSUME SignalIsCurrent, [Next]_vars
  PROVE  SignalIsCurrent'
  <1>1. CASE Turn \/ Continue \/ HandOff
    <2>1. phase' \in {"ended", "turn", "handoff"}
      BY <1>1 DEF Turn, UsefulTurn, IdleTurn, FailedTurn, PartialTurn, EndTurn,
         Continue, HandOff
    <2> QED
      BY <2>1 DEF SignalIsCurrent, DecisionIsAnswer
  <1>2. CASE ExportBootstrap \/ ExportTurn
    <2>1. PICK kind, body :
            /\ Export(kind, body)
            /\ kind = "signal" => body = SignalOfHost
      BY <1>2 DEF ExportBootstrap, ExportTurn, Snapshots
    <2>2. /\ snapshot' = [kind |-> kind, body |-> body] /\ phase' = "exported"
          /\ UNCHANGED <<hostVars, compactionVars>>
      BY <2>1 DEF Export
    <2>3. SignalOfHost' = SignalOfHost
      BY <2>2 DEF SignalOfHost
    <2> QED
      BY <2>1, <2>2, <2>3 DEF SignalIsCurrent, DecisionIsAnswer
  <1>3. CASE LateCompaction
    BY <1>3 DEF LateCompaction, SignalIsCurrent, DecisionIsAnswer
  <1>4. CASE Decide
    BY <1>4 DEF Decide, SignalIsCurrent, DecisionIsAnswer, CurrentRequest, SignalOfHost
  <1>5. CASE Approve \/ UNCHANGED vars
    BY <1>5 DEF Approve, vars, SignalIsCurrent, DecisionIsAnswer, CurrentRequest,
       SignalOfHost
  <1> QED
    BY <1>1, <1>2, <1>3, <1>4, <1>5 DEF Next, Governor

\* The conversion keeps all of a request that an answer depends on, apart from
\* the policy and the approval.
LEMMA ConversionIsFaithful ==
  DecideReasoningHarness(CodexSnapshotToHarnessRequest(SignalOfHost)) =
      DecideReasoningHarness([RequestOfHost EXCEPT !.safety = NoApprovalNeeded,
                                                   !.escalation_policy = UpstreamPolicy])
  <1> DEFINE converted == CodexSnapshotToHarnessRequest(SignalOfHost)
             written == [RequestOfHost EXCEPT !.safety = NoApprovalNeeded,
                                              !.escalation_policy = UpstreamPolicy]
  <1>1. /\ converted.progress.completed_steps = written.progress.completed_steps
        /\ converted.progress.no_progress_iteration_count
              = written.progress.no_progress_iteration_count
        /\ converted.recovery.last_recovery_reason = written.recovery.last_recovery_reason
        /\ converted.recovery.last_recovery_had_progress
              = written.recovery.last_recovery_had_progress
        /\ converted.self_correction.active = written.self_correction.active
        /\ converted.self_correction.correction_attempt_count
              = written.self_correction.correction_attempt_count
        /\ converted.safety = written.safety
        /\ converted.context_pressure.recent_compaction_count
              = written.context_pressure.recent_compaction_count
        /\ converted.context_pressure.last_compaction_had_state_change
              = written.context_pressure.last_compaction_had_state_change
        /\ converted.escalation_policy = written.escalation_policy
    BY DEF CodexSnapshotToHarnessRequest, SignalOfHost, SignalSelfCorrection,
       SignalContextPressure, RequestOfHost
  <1> HIDE DEF converted, written
  <1>2. /\ Blocked(converted) <=> Blocked(written)
        /\ NoProgressViolation(converted) <=> NoProgressViolation(written)
        /\ ShouldEnterSelfCorrection(converted) <=> ShouldEnterSelfCorrection(written)
        /\ CheckpointDue(converted) <=> CheckpointDue(written)
    BY <1>1 DEF Blocked, NoProgressViolation, SelfCorrectionViolation,
       CompactionViolation, ShouldEnterSelfCorrection, CheckpointDue
  <1>3. ViolatedRules(converted) = ViolatedRules(written)
    BY <1>1, <1>2 DEF ViolatedRules
  <1>4. DecideReasoningHarness(converted) = DecideReasoningHarness(written)
    <2>1. CheckpointDue(converted) = CheckpointDue(written)
          /\ ShouldEnterSelfCorrection(converted) = ShouldEnterSelfCorrection(written)
      BY <1>2 DEF CheckpointDue, ShouldEnterSelfCorrection
    <2> QED
      BY <1>1, <1>2, <1>3, <2>1 DEF DecideReasoningHarness
  <1> QED
    BY <1>4 DEF converted, written

\* Unless the host compacts after the export, the answer to a signal snapshot is
\* in full the one to the request the host could have written itself: only the
\* policy and a pending approval are lost on the way.
THEOREM SignalRouteAgrees == Spec => []RoutesAgree
  <1>1. Init => SignalIsCurrent
    BY DEF Init, SignalIsCurrent, DecisionIsAnswer
  <1>2. SignalIsCurrent => RoutesAgree
    <2> SUFFICES ASSUME SignalIsCurrent, phase = "decided", snapshot.kind = "signal",
                        ~overtaken
                 PROVE  decision = DecideReasoningHarness(
                                 [RequestOfHost EXCEPT !.safety = NoApprovalNeeded,
                                                       !.escalation_policy = UpstreamPolicy])
      BY DEF RoutesAgree
    <2>1. CurrentRequest = CodexSnapshotToHarnessRequest(SignalOfHost)
      BY DEF SignalIsCurrent, CurrentRequest, HarnessRequest
    <2> QED
      BY <2>1, ConversionIsFaithful DEF SignalIsCurrent, DecisionIsAnswer
  <1> QED
    BY <1>1, <1>2, NextSignal, PTL DEF Spec

-----------------------------------------------------------------------------
(* What the other two routes can and cannot be answered. *)

\* A request that says nothing of stalls, corrections or barren compactions.
LEMMA LiveGoesOn ==
  ASSUME NEW body
  PROVE  ~Blocked(CodexLiveSnapshotToHarnessRequest(body))
  BY DEF CodexLiveSnapshotToHarnessRequest, Blocked, NoProgressViolation,
     SelfCorrectionViolation, CompactionViolation, UpstreamPolicy, NoCorrection

\* No answer over the live route is a handoff.
NeverEscalated ==
    /\ phase \in {"exported", "decided"} =>
          \/ snapshot = [kind |-> "bootstrap", body |-> Nil]
          \/ snapshot.kind = "live"
    /\ phase = "decided" => decision.mode # "Handoff"
    /\ phase # "handoff"

LEMMA NextNeverEscalated ==
  ASSUME NeverEscalated, [Next]_vars, Route = "live"
  PROVE  NeverEscalated'
  <1>1. CASE Turn \/ Continue
    <2>1. phase' \in {"ended", "turn"}
      BY <1>1 DEF Turn, UsefulTurn, IdleTurn, FailedTurn, PartialTurn, EndTurn, Continue
    <2> QED
      BY <2>1 DEF NeverEscalated
  <1>2. CASE ExportBootstrap \/ ExportTurn
    <2>1. \E kind \in {"bootstrap", "live"} : \E body :
            Export(kind, body) /\ (kind = "bootstrap" => body = Nil)
      BY <1>2 DEF ExportBootstrap, ExportTurn
    <2> QED
      BY <2>1 DEF Export, NeverEscalated
  <1>3. CASE LateCompaction \/ Approve \/ UNCHANGED vars
    BY <1>3 DEF LateCompaction, Approve, vars, NeverEscalated
  <1>4. CASE Decide
    <2>1. ~Blocked(CurrentRequest)
      <3>1. CASE snapshot.kind = "live"
        BY <3>1, LiveGoesOn DEF CurrentRequest, HarnessRequest
      <3>2. CASE snapshot = [kind |-> "bootstrap", body |-> Nil]
        BY <3>2, BootstrapGoesOn
      <3> QED
        BY <1>4, <3>1, <3>2 DEF Decide, NeverEscalated
    <2>2. DecideReasoningHarness(CurrentRequest).mode # "Handoff"
      BY <2>1, DecisionMode
    <2> QED
      BY <1>4, <2>2 DEF Decide, NeverEscalated
  <1>5. ~HandOff
    BY DEF HandOff, NeverEscalated
  <1> QED
    BY <1>1, <1>2, <1>3, <1>4, <1>5 DEF Next, Governor

\* A session that exports live snapshots is never handed off, however long it
\* stalls and whatever it compacts: NoSpin fails there for every width of the
\* counters and every use of the session, not in a corner.
THEOREM LiveNeverEscalates ==
  ASSUME Route = "live"
  PROVE  Spec => [](phase # "handoff")
  <1>1. Init => NeverEscalated
    BY DEF Init, NeverEscalated
  <1>2. NeverEscalated => phase # "handoff"
    BY DEF NeverEscalated
  <1> QED
    BY <1>1, <1>2, NextNeverEscalated, PTL DEF Spec

\* A session governed by decide-workspace is handed off for its stalls and for
\* nothing else: the request built there has one attempt and one compaction,
\* whatever the host counted.
THEOREM WorkspaceEscalatesStalls ==
  ASSUME Route = "workspace"
  PROVE  Spec => [](phase = "handoff" =>
                      progress.no_progress_iteration_count >= Policy.no_progress_limit)
  <1> DEFINE Stalled == progress.no_progress_iteration_count >= Policy.no_progress_limit
             Earned == phase = "handoff" => Stalled
  <1>1. Init => Earned
    BY DEF Init
  <1>2. ASSUME SessionInv, HandOff PROVE Stalled
    <2> USE <1>2 DEF SessionInv
    <2>1. phase = "decided" /\ decision.mode = "Handoff"
      BY DEF HandOff
    <2>2. Blocked(CurrentRequest)
      BY <2>1, DecisionMode DEF DecisionIsAnswer
    <2>3. /\ snapshot.kind = "workspace"
          /\ CurrentRequest.escalation_policy = Policy
          /\ CurrentRequest.progress.no_progress_iteration_count
                = progress.no_progress_iteration_count
      BY <2>1, <2>2, BootstrapGoesOn DEF RequestIsCurrent
    <2>4. CurrentRequest = BuildWorkspaceRequest(snapshot.body)
      BY <2>3 DEF CurrentRequest, HarnessRequest
    <2>5. ~SelfCorrectionViolation(CurrentRequest) /\ ~CompactionViolation(CurrentRequest)
      BY <2>4 DEF BuildWorkspaceRequest, HealthyRequest, NoCorrection, UpstreamPolicy,
         SelfCorrectionViolation, CompactionViolation
    <2> QED
      BY <2>2, <2>3, <2>5 DEF Blocked, NoProgressViolation
  <1>3. SessionInv /\ Earned /\ [Next]_vars => Earned'
    <2> SUFFICES ASSUME SessionInv, Earned, [Next]_vars, phase' = "handoff"
                 PROVE  Stalled'
      OBVIOUS
    <2>1. CASE phase = "handoff"
      BY <2>1, HandoffIsFinal DEF vars, Policy
    <2>2. CASE HandOff
      BY <1>2, <2>2 DEF HandOff, Policy
    <2> QED
      BY <2>1, <2>2 DEF Next, Turn, UsefulTurn, IdleTurn, FailedTurn, PartialTurn,
         EndTurn, LateCompaction, Approve, Governor, ExportBootstrap, ExportTurn,
         Export, Decide, Continue, vars
  <1>4. Spec => []SessionInv
    BY SessionCorrect DEF StallRoutes
  <1> QED
    BY <1>1, <1>3, <1>4, PTL DEF Spec
=============================================================================
