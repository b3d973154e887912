------------------------ MODULE HarnessSessionProofs ------------------------
(***************************************************************************)
(* What HarnessSession guarantees for every policy, every width of the     *)
(* counters and every bound on the steps, proved with TLAPS.  The types    *)
(* hold on every route; the limits only on the routes whose snapshot       *)
(* carries what the limit counts.                                          *)
(***************************************************************************)
EXTENDS HarnessSession, HarnessTypes

USE DEF hostVars, compactionVars

LEMMA PolicyType == Policy \in EscalationPolicy
  BY U32MaxAssumption, SessionAssumption
     DEF Policy, UpstreamPolicy, EscalationPolicy, U32

LEMMA RequestType ==
  ASSUME NEW body \in BodyType
  PROVE  HarnessRequest(Route, body) \in ReasoningHarnessRequest
  <1>1. CASE Route = "file"
    BY <1>1 DEF BodyType, HarnessRequest
  <1>2. CASE Route = "signal"
    BY <1>2, SignalRequestType DEF BodyType, HarnessRequest
  <1>3. CASE Route = "workspace"
    BY <1>3, WorkspaceRequestType DEF BodyType, HarnessRequest
  <1>4. CASE Route = "live"
    BY <1>4, LiveRequestType DEF BodyType, HarnessRequest
  <1> QED
    BY <1>1, <1>2, <1>3, <1>4, SessionAssumption DEF Routes

\* What the host sends is well typed.
LEMMA SnapshotsType ==
  ASSUME TypeOK, NEW body \in Snapshots
  PROVE  body \in BodyType
  <1>1. CASE Route = "file"
    <2>1. body = RequestOfHost
      BY <1>1 DEF Snapshots
    <2> QED
      BY <1>1, <2>1, SessionAssumption
         DEF TypeOK, BodyType, RequestOfHost, ReasoningHarnessRequest,
             ProhibitionRule, PermissionContextSnapshot
  <1>2. CASE Route = "signal"
    <2>1. body = SignalOfHost
      BY <1>2 DEF Snapshots
    <2> QED
      BY <1>2, <2>1 DEF TypeOK, BodyType, SignalOfHost, CodexSignalSnapshot,
         ProgressSnapshot, RecoverySnapshot, SelfCorrectionState, ContextPressure
  <1>3. CASE Route = "workspace"
    <2>1. body = FlagsOfHost
      BY <1>3 DEF Snapshots
    <2> QED
      BY <1>3, <2>1 DEF TypeOK, BodyType, FlagsOfHost, WorkspaceFlags,
         ProgressSnapshot, RecoverySnapshot
  <1>4. CASE Route = "live"
    <2>1. body \in LiveOfHost
      BY <1>4 DEF Snapshots
    <2> QED
      BY <1>4, <2>1, U32MaxAssumption
         DEF BodyType, LiveOfHost, CodexLiveContinuationSnapshot
  <1> QED
    BY <1>1, <1>2, <1>3, <1>4, SessionAssumption DEF Routes

-----------------------------------------------------------------------------
(* Type correctness, on every route. *)

LEMMA IncrementType ==
  ASSUME NEW n \in U32
  PROVE  /\ Increment(n) \in U32
         /\ Increment(n) >= n
         /\ Increment(n) <= n + 1
  BY U32MaxAssumption DEF Increment, U32

LEMMA CompactType ==
  ASSUME TypeOK, NEW productive \in BOOLEAN, Compact(productive)
  PROVE  pressure' \in ContextPressure /\ barren' \in U32
  <1>1. 0 \in U32 /\ 1 \in U32
    BY U32MaxAssumption DEF U32
  <1>2. Increment(pressure.recent_compaction_count) \in U32
    BY IncrementType DEF TypeOK, ContextPressure
  <1>3. Increment(barren) \in U32
    BY IncrementType DEF TypeOK
  <1> QED
    BY <1>1, <1>2, <1>3 DEF Compact, ContextPressure

\* What the end of a turn does to the compaction counters.
LEMMA EndTurnType ==
  ASSUME TypeOK, NEW useful \in BOOLEAN, EndTurn(useful)
  PROVE  /\ pressure' \in ContextPressure
         /\ barren' \in U32
         /\ changed' \in BOOLEAN
  <1>1. CASE UNCHANGED <<pressure, barren>> /\ changed' = (changed \/ useful)
    BY <1>1 DEF TypeOK
  <1>2. CASE Compact(changed) /\ changed' = useful
    BY <1>2, CompactType DEF TypeOK
  <1>3. CASE Compact(TRUE) /\ changed' = FALSE
    BY <1>3, CompactType
  <1> QED
    BY <1>1, <1>2, <1>3 DEF EndTurn, CompactDuringTurn

LEMMA AdvanceType ==
  ASSUME TypeOK, NEW steps \in StepsPerTurn, Advance(steps)
  PROVE  /\ progress' \in ProgressSnapshot
         /\ progress'.no_progress_iteration_count = 0
  BY U32MaxAssumption, SessionAssumption
     DEF Advance, TypeOK, ProgressSnapshot, U32

LEMMA StallType ==
  ASSUME TypeOK, Stall
  PROVE  /\ progress' \in ProgressSnapshot
         /\ progress'.no_progress_iteration_count
              = Increment(progress.no_progress_iteration_count)
  BY IncrementType DEF Stall, TypeOK, ProgressSnapshot

LEMMA FailType ==
  ASSUME TypeOK, NEW reason \in Failures, Fail(reason)
  PROVE  recovery' \in RecoverySnapshot /\ self_correction' = self_correction
  BY SessionAssumption DEF Fail, RecoverySnapshot

LEMMA RecoverType ==
  ASSUME TypeOK, Recover
  PROVE  recovery' \in RecoverySnapshot /\ self_correction' \in SelfCorrectionState
  <1>1. 0 \in U32
    BY U32MaxAssumption DEF U32
  <1>2. recovery' \in RecoverySnapshot
    BY DEF Recover, TypeOK, RecoverySnapshot
  <1>3. PICK open \in {FALSE, self_correction.active} :
          \E attempts \in {0, self_correction.correction_attempt_count} :
            self_correction' = [active |-> open, correction_attempt_count |-> attempts]
    BY DEF Recover
  <1>4. open \in BOOLEAN /\ self_correction.correction_attempt_count \in U32
    BY <1>3 DEF TypeOK, SelfCorrectionState
  <1> QED
    BY <1>1, <1>2, <1>3, <1>4 DEF SelfCorrectionState

LEMMA InitType == Init => TypeOK
  <1>1. 0 \in U32
    BY U32MaxAssumption DEF U32
  <1>2. NoRecovery \in RecoverySnapshot /\ NoCorrection \in SelfCorrectionState
    BY <1>1 DEF NoRecovery, NoCorrection, RecoverySnapshot, SelfCorrectionState
  <1>3. ASSUME Init PROVE progress \in ProgressSnapshot /\ pressure \in ContextPressure
    BY <1>1, <1>3 DEF Init, ProgressSnapshot, ContextPressure
  <1> QED
    BY <1>1, <1>2, <1>3 DEF Init, TypeOK, Phases

LEMMA NextType == TypeOK /\ [Next]_vars => TypeOK'
  <1> SUFFICES ASSUME TypeOK, [Next]_vars PROVE TypeOK'
    OBVIOUS
  <1>1. ASSUME NEW steps \in StepsPerTurn, UsefulTurn(steps) PROVE TypeOK'
    BY <1>1, EndTurnType, AdvanceType, RecoverType
       DEF UsefulTurn, EndTurn, TypeOK, Phases
  <1>2. CASE IdleTurn
    BY <1>2, EndTurnType, StallType DEF IdleTurn, EndTurn, TypeOK, Phases
  <1>3. ASSUME NEW reason \in Failures, FailedTurn(reason) PROVE TypeOK'
    BY <1>3, EndTurnType, StallType, FailType
       DEF FailedTurn, EndTurn, TypeOK, Phases
  <1>4. ASSUME NEW reason \in Failures, NEW steps \in StepsPerTurn,
               PartialTurn(reason, steps)
        PROVE  TypeOK'
    BY <1>4, EndTurnType, AdvanceType, FailType
       DEF PartialTurn, EndTurn, TypeOK, Phases
  <1>5. CASE LateCompaction
    <2>1. changed \in BOOLEAN
      BY DEF TypeOK
    <2>2. pressure' \in ContextPressure /\ barren' \in U32
      BY <1>5, <2>1, CompactType DEF LateCompaction
    <2>3. CurrentRequest' = CurrentRequest
      BY <1>5 DEF LateCompaction, CurrentRequest
    <2> QED
      BY <1>5, <2>2, <2>3 DEF LateCompaction, TypeOK, Phases
  <1>6. CASE ExportBootstrap
    <2>1. CurrentRequest' = CodexBootstrapRequest
      BY <1>6 DEF ExportBootstrap, Export, CurrentRequest, HarnessRequest
    <2> QED
      BY <1>6, <2>1, BootstrapRequestType DEF ExportBootstrap, Export, TypeOK, Phases
  <1>7. CASE ExportTurn
    <2>1. PICK body \in Snapshots : Export(Route, body)
      BY <1>7 DEF ExportTurn
    <2>2. body \in BodyType
      BY <2>1, SnapshotsType
    <2>3. snapshot' \in [kind : {Route}, body : BodyType]
      BY <2>1, <2>2 DEF Export
    <2>4. CurrentRequest' = HarnessRequest(Route, body)
      BY <2>1 DEF Export, CurrentRequest, HarnessRequest
    <2>5. CurrentRequest' \in ReasoningHarnessRequest
      BY <2>2, <2>4, RequestType
    <2> QED
      BY <2>1, <2>3, <2>5 DEF Export, TypeOK, Phases, BodyType
  <1>8. CASE Decide
    <2>1. decision' \in ReasoningHarnessDecision
      BY <1>8, DecisionType DEF Decide, TypeOK
    <2> QED
      BY <1>8, <2>1 DEF Decide, TypeOK, Phases
  <1>9. CASE Continue
    <2>1. Increment(self_correction.correction_attempt_count) \in U32
      BY IncrementType DEF TypeOK, SelfCorrectionState
    <2>2. self_correction' \in SelfCorrectionState
      BY <1>9, <2>1 DEF Continue, TypeOK, SelfCorrectionState
    <2>3. lastCheckpoint' \in U32
      BY <1>9 DEF Continue, Checkpoint, TypeOK, ProgressSnapshot
    <2> QED
      BY <1>9, <2>2, <2>3 DEF Continue, TypeOK, Phases
  <1>10. CASE HandOff
    <2>1. lastCheckpoint' \in U32
      BY <1>10 DEF HandOff, Checkpoint, TypeOK, ProgressSnapshot
    <2> QED
      BY <1>10, <2>1 DEF HandOff, TypeOK, Phases
  <1>11. CASE Approve
    BY <1>11 DEF Approve, TypeOK, CurrentRequest
  <1>12. CASE UNCHANGED vars
    BY <1>12 DEF vars, TypeOK, CurrentRequest
  <1> QED
    BY <1>1, <1>2, <1>3, <1>4, <1>5, <1>6, <1>7, <1>8, <1>9, <1>10, <1>11, <1>12
       DEF Next, Turn, Governor

\* Whatever the route and the policy, every variable keeps to the types of
\* protocol.rs: no counter leaves its width, and every answer is a decision.
THEOREM TypeCorrect == Spec => []TypeOK
  BY InitType, NextType, PTL DEF Spec

-----------------------------------------------------------------------------
(* The decision function and the snapshots, as the session relies on them. *)

\* The harness goes on exactly when nothing blocks.
LEMMA DecisionMode ==
  ASSUME NEW request
  PROVE  LET answer == DecideReasoningHarness(request)
         IN  /\ answer.mode = "Handoff" <=> Blocked(request)
             /\ answer.should_enter_self_correction =>
                    ~Blocked(request) /\ ShouldEnterSelfCorrection(request)
  <1>1. CASE Blocked(request)
    BY <1>1 DEF DecideReasoningHarness
  <1>2. CASE ~Blocked(request)
    BY <1>2 DEF DecideReasoningHarness
  <1> QED
    BY <1>1, <1>2

\* A signal, a file and the workspace flags carry the stalls the host
\* counted; the first two carry the correction and the failure as well.
LEMMA SnapshotReflectsHost ==
  ASSUME TypeOK, Route \in StallRoutes, NEW body \in Snapshots
  PROVE  LET request == HarnessRequest(Route, body)
         IN  /\ request.escalation_policy = Policy
             /\ request.progress.no_progress_iteration_count
                   = progress.no_progress_iteration_count
             /\ Route \in CorrectionRoutes =>
                   /\ request.self_correction = self_correction
                   /\ request.recovery = recovery
  <1>1. CASE Route = "file"
    BY <1>1 DEF Snapshots, RequestOfHost, HarnessRequest, Policy
  <1>2. CASE Route = "signal"
    <2>1. body = SignalOfHost
      BY <1>2 DEF Snapshots
    <2>2. HarnessRequest(Route, body) = CodexSnapshotToHarnessRequest(SignalOfHost)
      BY <1>2, <2>1 DEF HarnessRequest
    <2>3. /\ self_correction =
               [active |-> self_correction.active,
                correction_attempt_count |-> self_correction.correction_attempt_count]
          /\ recovery =
               [last_recovery_reason |-> recovery.last_recovery_reason,
                last_recovery_had_progress |-> recovery.last_recovery_had_progress]
      BY DEF TypeOK, SelfCorrectionState, RecoverySnapshot
    <2> QED
      BY <1>2, <2>2, <2>3 DEF CodexSnapshotToHarnessRequest, SignalSelfCorrection,
         SignalOfHost, Policy
  <1>3. CASE Route = "workspace"
    <2>1. body = FlagsOfHost
      BY <1>3 DEF Snapshots
    <2>2. HarnessRequest(Route, body) = BuildWorkspaceRequest(body)
      BY <1>3 DEF HarnessRequest
    <2>3. body \in WorkspaceFlags
      BY <1>3, SnapshotsType DEF BodyType
    <2> QED
      BY <1>3, <2>1, <2>2, <2>3, WorkspaceRequestType
         DEF FlagsOfHost, Policy, CorrectionRoutes
  <1> QED
    BY <1>1, <1>2, <1>3 DEF StallRoutes

-----------------------------------------------------------------------------
(* The inductive invariant. *)

LEMMA LimitType ==
  /\ Policy.no_progress_limit \in U32
  /\ AtLeastOne(Policy.no_progress_limit) \in 1..U32Max
  <1>1. Policy.no_progress_limit \in U32
    BY PolicyType DEF EscalationPolicy
  <1> QED
    BY <1>1, U32MaxAssumption DEF AtLeastOne, U32

LEMMA InitSession == Init => SessionInv
  <1> SUFFICES ASSUME Init PROVE SessionInv
    OBVIOUS
  <1>1. TypeOK
    BY InitType
  <1>2. progress.no_progress_iteration_count < AtLeastOne(Policy.no_progress_limit)
    BY LimitType DEF Init
  <1>3. RequestIsCurrent /\ DecisionIsAnswer
    BY DEF Init, RequestIsCurrent, DecisionIsAnswer
  <1>4. StartIsFresh
    BY DEF Init, StartIsFresh, CodexBootstrapRequest
  <1>5. progress.no_progress_iteration_count \in Int
    BY DEF Init
  <1> QED
    BY <1>1, <1>2, <1>3, <1>4, <1>5, LimitType
       DEF SessionInv, StallsLeft, NoSpin

\* The turn that ends leaves at most one stall more than it found.
LEMMA TurnSession ==
  ASSUME SessionInv, Turn
  PROVE  SessionInv'
  <1> USE DEF SessionInv
  <1>1. TypeOK'
    BY NextType DEF Next
  <1>2. phase = "turn" /\ phase' = "ended"
    BY DEF Turn, UsefulTurn, IdleTurn, FailedTurn, PartialTurn, EndTurn
  <1>3. \/ progress'.no_progress_iteration_count = 0
        \/ progress'.no_progress_iteration_count
             = Increment(progress.no_progress_iteration_count)
    BY AdvanceType, StallType
       DEF Turn, UsefulTurn, IdleTurn, FailedTurn, PartialTurn
  <1>4. progress.no_progress_iteration_count < AtLeastOne(Policy.no_progress_limit)
    BY <1>2 DEF StallsLeft
  <1>5. progress.no_progress_iteration_count \in U32
    BY DEF TypeOK, ProgressSnapshot
  <1>6. NoSpin'
    BY <1>3, <1>4, <1>5, LimitType, IncrementType, U32MaxAssumption DEF NoSpin, U32
  <1> QED
    BY <1>1, <1>2, <1>6
       DEF RequestIsCurrent, DecisionIsAnswer, StartIsFresh, StallsLeft

\* What a session that is told to go on can rely on.
LEMMA GoOnLeavesStalls ==
  ASSUME SessionInv, phase = "decided", decision.mode # "Handoff"
  PROVE  progress.no_progress_iteration_count < AtLeastOne(Policy.no_progress_limit)
  <1> USE DEF SessionInv
  <1>1. ~Blocked(CurrentRequest)
    BY DecisionMode DEF DecisionIsAnswer
  <1>2. CASE progress = CodexBootstrapRequest.progress
    BY <1>2, LimitType DEF CodexBootstrapRequest
  <1>3. CASE /\ CurrentRequest.escalation_policy = Policy
             /\ CurrentRequest.progress.no_progress_iteration_count
                  = progress.no_progress_iteration_count
    <2>1. ~(progress.no_progress_iteration_count >= Policy.no_progress_limit)
      BY <1>1, <1>3 DEF Blocked, NoProgressViolation
    <2>2. progress.no_progress_iteration_count \in U32
      BY DEF TypeOK, ProgressSnapshot
    <2> QED
      BY <2>1, <2>2, LimitType DEF AtLeastOne, U32
  <1> QED
    BY <1>2, <1>3 DEF RequestIsCurrent

LEMMA NextSession ==
  ASSUME SessionInv, [Next]_vars, Route \in StallRoutes
  PROVE  SessionInv'
  <1> USE DEF SessionInv
  <1>1. TypeOK'
    BY NextType
  <1>2. CASE Turn
    BY <1>2, TurnSession
  <1>3. CASE LateCompaction
    <2>1. UNCHANGED <<phase, hostVars, snapshot, decision>> /\ phase = "exported"
      BY <1>3 DEF LateCompaction
    <2> QED
      BY <1>1, <2>1 DEF RequestIsCurrent, CurrentRequest, DecisionIsAnswer,
         StartIsFresh, StallsLeft, NoSpin
  <1>4. CASE ExportBootstrap
    <2>1. /\ phase = "start" /\ phase' = "exported"
          /\ snapshot' = [kind |-> "bootstrap", body |-> Nil]
          /\ UNCHANGED hostVars
      BY <1>4 DEF ExportBootstrap, Export
    <2> QED
      BY <1>1, <2>1 DEF RequestIsCurrent, DecisionIsAnswer, StartIsFresh,
         StallsLeft, NoSpin
  <1>5. CASE ExportTurn
    <2>1. PICK body \in Snapshots : phase = "ended" /\ Export(Route, body)
      BY <1>5 DEF ExportTurn
    <2>2. /\ phase' = "exported"
          /\ snapshot' = [kind |-> Route, body |-> body]
          /\ UNCHANGED hostVars
      BY <2>1 DEF Export
    <2>3. CurrentRequest' = HarnessRequest(Route, body)
      BY <2>2 DEF CurrentRequest, HarnessRequest
    <2>4. RequestIsCurrent'
      BY <2>2, <2>3, SnapshotReflectsHost DEF RequestIsCurrent, Policy
    <2> QED
      BY <1>1, <2>2, <2>4 DEF DecisionIsAnswer, StartIsFresh, StallsLeft, NoSpin
  <1>6. CASE Decide
    <2>1. /\ phase = "exported" /\ phase' = "decided"
          /\ decision' = DecideReasoningHarness(CurrentRequest)
          /\ UNCHANGED <<hostVars, snapshot>>
      BY <1>6 DEF Decide, CurrentRequest
    <2>2. CurrentRequest' = CurrentRequest
      BY <2>1 DEF CurrentRequest
    <2> QED
      BY <1>1, <2>1, <2>2 DEF RequestIsCurrent, DecisionIsAnswer, StartIsFresh,
         StallsLeft, NoSpin
  <1>7. CASE Continue
    <2>1. phase = "decided" /\ phase' = "turn" /\ UNCHANGED progress
      BY <1>7 DEF Continue
    <2>2. decision.mode # "Handoff"
      BY <1>7 DEF Continue
    <2>3. StallsLeft'
      BY <2>1, <2>2, GoOnLeavesStalls DEF StallsLeft
    <2> QED
      BY <1>1, <2>1, <2>3 DEF RequestIsCurrent, DecisionIsAnswer, StartIsFresh, NoSpin
  <1>8. CASE HandOff
    <2>1. phase' = "handoff" /\ UNCHANGED progress
      BY <1>8 DEF HandOff
    <2> QED
      BY <1>1, <2>1 DEF RequestIsCurrent, DecisionIsAnswer, StartIsFresh,
         StallsLeft, NoSpin
  <1>9. CASE Approve \/ UNCHANGED vars
    BY <1>1, <1>9 DEF Approve, vars, RequestIsCurrent, CurrentRequest,
       DecisionIsAnswer, StartIsFresh, StallsLeft, NoSpin
  <1> QED
    BY <1>2, <1>3, <1>4, <1>5, <1>6, <1>7, <1>8, <1>9 DEF Next, Governor

\* The invariant holds in every session governed over a route that carries
\* the stalls.
THEOREM SessionCorrect ==
  ASSUME Route \in StallRoutes
  PROVE  Spec => []SessionInv
  BY InitSession, NextSession, PTL DEF Spec

\* No governed session spins: however the host's turns fail, compact and are
\* corrected, no more of them in a row change nothing than the policy allows.
THEOREM SpinBounded ==
  ASSUME Route \in StallRoutes
  PROVE  Spec => []NoSpin
  <1>1. SessionInv => NoSpin
    BY DEF SessionInv
  <1> QED
    BY <1>1, SessionCorrect, PTL

-----------------------------------------------------------------------------
(* Self-correction. *)

\* The answers that start a correction, and what the host then does.
LEMMA ContinueCorrection ==
  ASSUME SessionInv, Route \in CorrectionRoutes, Continue
  PROVE  \/ UNCHANGED self_correction
         \/ /\ self_correction.correction_attempt_count < Policy.self_correction_limit
            /\ self_correction'.correction_attempt_count
                 = self_correction.correction_attempt_count + 1
  <1> USE DEF SessionInv
  <1>1. phase = "decided"
    BY DEF Continue
  <1>2. CASE ~decision.should_enter_self_correction
    <2>1. decision.should_enter_self_correction \in BOOLEAN
      BY <1>1 DEF TypeOK, ReasoningHarnessDecision
    <2> QED
      BY <1>2, <2>1 DEF Continue
  <1>3. CASE decision.should_enter_self_correction
    <2>1. ShouldEnterSelfCorrection(CurrentRequest)
      BY <1>1, <1>3, DecisionMode DEF DecisionIsAnswer
    <2>2. snapshot # [kind |-> "bootstrap", body |-> Nil]
      BY <2>1 DEF CurrentRequest, HarnessRequest, CodexBootstrapRequest,
         NoRecovery, ShouldEnterSelfCorrection
    <2>3. /\ CurrentRequest.escalation_policy = Policy
          /\ CurrentRequest.self_correction = self_correction
      BY <1>1, <2>2 DEF RequestIsCurrent
    <2>4. self_correction.correction_attempt_count < Policy.self_correction_limit
      BY <2>1, <2>3 DEF ShouldEnterSelfCorrection
    <2>5. /\ self_correction.correction_attempt_count \in U32
          /\ Policy.self_correction_limit \in U32
      BY PolicyType DEF TypeOK, SelfCorrectionState, EscalationPolicy
    <2>6. Increment(self_correction.correction_attempt_count)
            = self_correction.correction_attempt_count + 1
      BY <2>4, <2>5, U32MaxAssumption DEF Increment, U32
    <2> QED
      BY <1>3, <2>4, <2>6 DEF Continue
  <1> QED
    BY <1>2, <1>3

\* A turn starts no correction; it may settle one.
LEMMA TurnCorrection ==
  ASSUME Turn
  PROVE  self_correction'.correction_attempt_count
           \in {0, self_correction.correction_attempt_count}
  <1>1. CASE UNCHANGED self_correction
    BY <1>1
  <1>2. CASE Recover
    <2>1. PICK open \in {FALSE, self_correction.active} :
            \E attempts \in {0, self_correction.correction_attempt_count} :
              self_correction' = [active |-> open, correction_attempt_count |-> attempts]
      BY <1>2 DEF Recover
    <2> QED
      BY <2>1
  <1> QED
    BY <1>1, <1>2 DEF Turn, UsefulTurn, IdleTurn, FailedTurn, PartialTurn, Fail

LEMMA NextCorrection ==
  ASSUME SessionInv, SelfCorrectionBounded, [Next]_vars, Route \in CorrectionRoutes
  PROVE  SelfCorrectionBounded'
  <1> USE DEF SelfCorrectionBounded
  <1>1. /\ self_correction.correction_attempt_count \in U32
        /\ Policy.self_correction_limit \in U32
    BY PolicyType DEF SessionInv, TypeOK, SelfCorrectionState, EscalationPolicy
  <1>2. CASE Turn
    BY <1>1, <1>2, TurnCorrection DEF U32, Policy
  <1>3. CASE Continue
    BY <1>1, <1>3, ContinueCorrection DEF U32, Policy
  <1>4. CASE LateCompaction \/ Approve \/ ExportBootstrap \/ ExportTurn \/ Decide
             \/ HandOff
    BY <1>4 DEF LateCompaction, Approve, ExportBootstrap, ExportTurn, Export, Decide,
       HandOff, Policy
  <1>5. CASE UNCHANGED vars
    BY <1>5 DEF vars, Policy
  <1> QED
    BY <1>2, <1>3, <1>4, <1>5 DEF Next, Governor

LEMMA InitCorrection == Init => SelfCorrectionBounded
  <1>1. Policy.self_correction_limit \in U32
    BY PolicyType DEF EscalationPolicy
  <1> QED
    BY <1>1 DEF Init, NoCorrection, SelfCorrectionBounded, U32

LEMMA CorrectionRoutesCarryStalls == CorrectionRoutes \subseteq StallRoutes
  BY DEF CorrectionRoutes, StallRoutes

\* Over a route that carries the correction attempts, the host is never told
\* to start more corrections than the policy allows.
THEOREM CorrectionsBounded ==
  ASSUME Route \in CorrectionRoutes
  PROVE  Spec => []SelfCorrectionBounded
  <1>1. Route \in StallRoutes
    BY CorrectionRoutesCarryStalls
  <1>2. Spec => []SessionInv
    BY <1>1, SessionCorrect
  <1> QED
    BY <1>2, InitCorrection, NextCorrection, PTL DEF Spec

-----------------------------------------------------------------------------
(* The session implements AntiSpin. *)

LEMMA InitRefines == Init => AntiSpinPromise!Init
  BY DEF Init, AntiSpinPromise!Init, NoCorrection

LEMMA TurnRefines ==
  ASSUME SessionInv, Turn
  PROVE  AntiSpinPromise!Work \/ AntiSpinPromise!Stall
  <1> USE DEF SessionInv
  <1>1. phase = "turn" /\ phase' = "ended"
    BY DEF Turn, UsefulTurn, IdleTurn, FailedTurn, PartialTurn, EndTurn
  <1>2. CASE progress'.no_progress_iteration_count = 0
    BY <1>1, <1>2, TurnCorrection DEF AntiSpinPromise!Work
  <1>3. CASE Stall /\ UNCHANGED self_correction
    <2>1. /\ progress.no_progress_iteration_count
               < AtLeastOne(Policy.no_progress_limit)
          /\ progress.no_progress_iteration_count \in U32
      BY <1>1 DEF StallsLeft, TypeOK, ProgressSnapshot
    <2>2. Increment(progress.no_progress_iteration_count)
            = progress.no_progress_iteration_count + 1
      BY <2>1, LimitType, U32MaxAssumption DEF Increment, U32
    <2> QED
      BY <1>1, <1>3, <2>1, <2>2, StallType DEF AntiSpinPromise!Stall
  <1> QED
    BY <1>2, <1>3, AdvanceType
       DEF Turn, UsefulTurn, IdleTurn, FailedTurn, PartialTurn, Fail

LEMMA NextRefines ==
  ASSUME SessionInv, [Next]_vars, Route \in CorrectionRoutes
  PROVE  [AntiSpinPromise!Next]_AntiSpinPromise!vars
  <1> USE DEF AntiSpinPromise!Next, AntiSpinPromise!vars
  <1>1. CASE Turn
    BY <1>1, TurnRefines
  <1>2. CASE LateCompaction \/ Approve \/ ExportBootstrap \/ ExportTurn \/ Decide
    BY <1>2 DEF LateCompaction, Approve, ExportBootstrap, ExportTurn, Export, Decide
  <1>3. CASE Continue
    <2>1. phase = "decided" /\ phase' = "turn" /\ UNCHANGED progress
      BY <1>3 DEF Continue
    <2> QED
      BY <1>3, <2>1, ContinueCorrection DEF AntiSpinPromise!Correct
  <1>4. CASE HandOff
    BY <1>4 DEF HandOff, AntiSpinPromise!Stop
  <1>5. CASE UNCHANGED vars
    BY <1>5 DEF vars
  <1> QED
    BY <1>1, <1>2, <1>3, <1>4, <1>5 DEF Next, Governor

\* A session governed over such a route implements the abstract promise: its
\* turns are work or counted stalls, its corrections are counted, and a
\* session handed off stays so.
THEOREM SessionKeepsAntiSpinPromise ==
  ASSUME Route \in CorrectionRoutes
  PROVE  Spec => KeepsAntiSpinPromise
  <1>1. Route \in StallRoutes
    BY CorrectionRoutesCarryStalls
  <1>2. Spec => []SessionInv
    BY <1>1, SessionCorrect
  <1> QED
    BY <1>2, InitRefines, NextRefines, PTL
       DEF Spec, KeepsAntiSpinPromise, AntiSpinPromise!Spec

-----------------------------------------------------------------------------
(* Sessions that run for ever, and stalls that reach the limit. *)

\* A turn that changes something.
Useful == Turn /\ progress'.no_progress_iteration_count = 0

\* A turn is useful or one more that is not; nothing else lowers the count.
LEMMA StallsMount ==
  ASSUME SessionInv, [Next]_vars, NEW k \in Nat,
         progress.no_progress_iteration_count >= k
  PROVE  \/ <<Useful>>_vars
         \/ /\ progress'.no_progress_iteration_count >= k
            /\ Turn => /\ k < AtLeastOne(Policy.no_progress_limit)
                       /\ progress'.no_progress_iteration_count >= k + 1
  <1>1. CASE Turn
    <2>1. AntiSpinPromise!Work \/ AntiSpinPromise!Stall
      BY <1>1, TurnRefines
    <2>2. vars' # vars
      BY <1>1 DEF Turn, UsefulTurn, IdleTurn, FailedTurn, PartialTurn, EndTurn, vars
    <2>3. /\ progress.no_progress_iteration_count \in Nat
          /\ AtLeastOne(Policy.no_progress_limit) \in Nat
      BY LimitType DEF SessionInv, TypeOK, ProgressSnapshot, U32
    <2>4. CASE AntiSpinPromise!Work
      BY <1>1, <2>2, <2>4 DEF AntiSpinPromise!Work, Useful
    <2>5. CASE AntiSpinPromise!Stall
      BY <2>3, <2>5 DEF AntiSpinPromise!Stall
    <2> QED
      BY <2>1, <2>4, <2>5
  <1>2. CASE ~Turn
    <2>1. UNCHANGED progress
      BY <1>2 DEF Next, LateCompaction, Approve, Governor, ExportBootstrap, ExportTurn,
         Export, Decide, Continue, HandOff, vars
    <2> QED
      BY <1>2, <2>1
  <1> QED
    BY <1>1, <1>2

\* A session that runs turns for ever changes something again and again, under
\* the policy the adapters hard-code and under any that allows three stalls at
\* the most: there are as many counts to climb, so that no induction is needed.
\* No fairness is.
THEOREM SpinsEnd ==
  ASSUME Route \in StallRoutes, Policy.no_progress_limit <= 3
  PROVE  Spec => SpinEnds
  <1> DEFINE Stalls(k) == progress.no_progress_iteration_count >= k
  <1>1. Spec => []SessionInv
    BY SessionCorrect
  <1>2. SessionInv => Stalls(0)
    BY DEF SessionInv, TypeOK, ProgressSnapshot, U32
  <1>3. AtLeastOne(Policy.no_progress_limit) <= 3
    BY LimitType DEF AtLeastOne, U32
  <1> USE StallsMount
  <1>4. SessionInv /\ [Next]_vars /\ Turn /\ Stalls(0) => <<Useful>>_vars \/ Stalls(1)'
    OBVIOUS
  <1>5. SessionInv /\ [Next]_vars /\ Turn /\ Stalls(1) => <<Useful>>_vars \/ Stalls(2)'
    OBVIOUS
  <1>6. SessionInv /\ [Next]_vars /\ Turn /\ Stalls(2) => <<Useful>>_vars \/ Stalls(3)'
    OBVIOUS
  <1>7. SessionInv /\ [Next]_vars /\ Turn /\ Stalls(3) => <<Useful>>_vars
    BY <1>3, LimitType
  <1>8. SessionInv /\ [Next]_vars /\ Stalls(1) => <<Useful>>_vars \/ Stalls(1)'
    OBVIOUS
  <1>9. SessionInv /\ [Next]_vars /\ Stalls(2) => <<Useful>>_vars \/ Stalls(2)'
    OBVIOUS
  <1>10. SessionInv /\ [Next]_vars /\ Stalls(3) => <<Useful>>_vars \/ Stalls(3)'
    OBVIOUS
  <1> HIDE DEF Stalls
  <1>11. Spec => ([]<><<Turn>>_vars => []<><<Useful>>_vars)
    BY <1>1, <1>2, <1>4, <1>5, <1>6, <1>7, <1>8, <1>9, <1>10, PTL DEF Spec
  <1> QED
    BY <1>11, PTL DEF Useful, SpinEnds

\* A session whose stalls reached the limit waits to be handed off.
EscalationDue ==
    /\ progress.no_progress_iteration_count >= Policy.no_progress_limit
    /\ \/ phase = "ended"
       \/ phase \in {"exported", "decided"} /\ snapshot.kind = Route

\* Nothing but a handoff ends that wait.
LEMMA OnlyHandoffEscalates ==
  ASSUME SessionInv, EscalationDue, [Next]_vars, Route \in StallRoutes
  PROVE  EscalationDue' \/ phase' = "handoff"
  <1> USE DEF SessionInv
  <1>1. CASE ExportTurn
    <2>1. PICK body \in Snapshots : Export(Route, body)
      BY <1>1 DEF ExportTurn
    <2> QED
      BY <2>1 DEF Export, EscalationDue, Policy
  <1>2. CASE LateCompaction \/ Approve \/ Decide \/ UNCHANGED vars
    BY <1>2 DEF LateCompaction, Approve, Decide, vars, EscalationDue, Policy
  <1>3. ASSUME Continue PROVE FALSE
    <2>1. phase = "decided" /\ decision.mode # "Handoff" /\ snapshot.kind = Route
      BY <1>3 DEF Continue, EscalationDue
    <2>2. ~Blocked(CurrentRequest)
      BY <2>1, DecisionMode DEF DecisionIsAnswer
    <2>3. snapshot # [kind |-> "bootstrap", body |-> Nil]
      BY <2>1 DEF StallRoutes
    <2>4. /\ CurrentRequest.escalation_policy = Policy
          /\ CurrentRequest.progress.no_progress_iteration_count
                = progress.no_progress_iteration_count
      BY <2>1, <2>3 DEF RequestIsCurrent
    <2> QED
      BY <2>2, <2>4 DEF Blocked, NoProgressViolation, EscalationDue
  <1>4. ~Turn /\ ~ExportBootstrap
    BY DEF EscalationDue, ExportBootstrap, Turn, UsefulTurn, IdleTurn, FailedTurn,
       PartialTurn, EndTurn
  <1>5. CASE HandOff
    BY <1>5 DEF HandOff
  <1> QED
    BY <1>1, <1>2, <1>3, <1>4, <1>5 DEF Next, Governor

\* The host completes its round trips: this is all that StallIsEscalated takes
\* from the fairness of Governor.
RoundTripsEnd == phase = "ended" ~> phase \in {"turn", "handoff"}

\* On every route that carries the stalls and under every policy, a session
\* whose stalls reached the limit is handed off if the host completes its round
\* trips: no answer lets it go on first.
THEOREM StallsEscalated ==
  ASSUME Route \in StallRoutes
  PROVE  Spec /\ RoundTripsEnd => StallIsEscalated
  <1> DEFINE Asking == phase \in {"turn", "handoff"}
             Limit == progress.no_progress_iteration_count >= Policy.no_progress_limit
  <1>1. Spec => []SessionInv
    BY SessionCorrect
  <1>2. phase = "ended" /\ Limit => EscalationDue
    BY DEF EscalationDue
  <1>3. SessionInv /\ [Next]_vars /\ EscalationDue => EscalationDue' \/ (phase = "handoff")'
    BY OnlyHandoffEscalates
  <1>4. EscalationDue => ~Asking
    BY DEF EscalationDue
  <1> HIDE DEF Asking, Limit
  <1>5. Spec /\ (phase = "ended" ~> Asking) => (phase = "ended" /\ Limit ~> phase = "handoff")
    BY <1>1, <1>2, <1>3, <1>4, PTL DEF Spec
  <1> QED
    BY <1>5, PTL DEF RoundTripsEnd, StallIsEscalated, Asking, Limit
=============================================================================
