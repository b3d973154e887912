----------------------- MODULE HarnessCompactionProofs -----------------------
(***************************************************************************)
(* Compactions that bring nothing, and when a session is handed off.  The  *)
(* argument is the one of HarnessSessionProofs with one more difficulty:   *)
(* the window may be compacted after the request was exported, so the      *)
(* request bounds what the host did only up to that one compaction.        *)
(***************************************************************************)
EXTENDS HarnessSessionProofs

USE DEF hostVars, compactionVars

LEMMA MostBarrenType ==
  ASSUME NEW window \in ContextPressure
  PROVE  MostBarren(window) \in U32
  BY U32MaxAssumption DEF MostBarren, ContextPressure, U32

LEMMA InitCompaction == Init => CompactionInv
  BY DEF Init, CompactionInv, MostBarren

\* What one compaction does to the counters.
LEMMA CompactCounts ==
  ASSUME TypeOK, CompactionInv, NEW productive \in BOOLEAN, Compact(productive)
  PROVE  /\ barren' <= MostBarren(pressure')
         /\ pressure'.last_compaction_had_state_change <=> barren' = 0
         /\ barren' <= barren + 1
         /\ productive => barren' = 0
  <1>1. /\ barren \in U32
        /\ pressure.recent_compaction_count \in U32
        /\ barren <= pressure.recent_compaction_count
    BY DEF TypeOK, ContextPressure, CompactionInv, MostBarren, U32
  <1>2. CASE productive
    <2>1. barren' = 0 /\ pressure'.last_compaction_had_state_change
      BY <1>2 DEF Compact
    <2> QED
      BY <1>1, <2>1 DEF MostBarren, U32
  <1>3. CASE ~productive
    <2>1. /\ barren' = Increment(barren)
          /\ pressure'.recent_compaction_count
               = Increment(pressure.recent_compaction_count)
          /\ ~pressure'.last_compaction_had_state_change
      BY <1>3 DEF Compact
    <2> QED
      BY <1>1, <1>3, <2>1, U32MaxAssumption DEF Increment, MostBarren, U32
  <1> QED
    BY <1>2, <1>3

LEMMA TurnCompaction ==
  ASSUME TypeOK, CompactionInv, NEW useful \in BOOLEAN, EndTurn(useful)
  PROVE  CompactionInv'
  <1>1. phase = "turn" /\ phase' = "ended" /\ UNCHANGED overtaken
    BY DEF EndTurn
  <1>2. CASE UNCHANGED <<pressure, barren>>
    BY <1>1, <1>2 DEF CompactionInv
  <1>3. CASE Compact(changed)
    <2>1. changed \in BOOLEAN
      BY DEF TypeOK
    <2> QED
      BY <1>1, <1>3, <2>1, CompactCounts DEF CompactionInv
  <1>4. CASE Compact(TRUE)
    BY <1>1, <1>4, CompactCounts DEF CompactionInv
  <1> QED
    BY <1>2, <1>3, <1>4 DEF EndTurn, CompactDuringTurn

\* The request a file or a signal becomes carries the host's pressure.
LEMMA SnapshotReflectsPressure ==
  ASSUME TypeOK, Route \in CorrectionRoutes, NEW body \in Snapshots
  PROVE  HarnessRequest(Route, body).context_pressure = pressure
  <1>1. CASE Route = "file"
    BY <1>1 DEF Snapshots, RequestOfHost, HarnessRequest
  <1>2. CASE Route = "signal"
    <2>1. HarnessRequest(Route, body) = CodexSnapshotToHarnessRequest(SignalOfHost)
      BY <1>2 DEF Snapshots, HarnessRequest
    <2>2. pressure =
            [recent_compaction_count |-> pressure.recent_compaction_count,
             last_compaction_had_state_change |->
                 pressure.last_compaction_had_state_change]
      BY DEF TypeOK, ContextPressure
    <2> QED
      BY <2>1, <2>2 DEF CodexSnapshotToHarnessRequest, SignalContextPressure,
         SignalOfHost
  <1> QED
    BY <1>1, <1>2 DEF CorrectionRoutes

LEMMA NextCompaction ==
  ASSUME SessionInv, CompactionInv, [Next]_vars, Route \in CorrectionRoutes
  PROVE  CompactionInv'
  <1> USE DEF SessionInv
  <1>0. /\ barren \in U32 /\ pressure \in ContextPressure
        /\ overtaken \in BOOLEAN /\ changed \in BOOLEAN
    BY DEF TypeOK
  <1>1. CASE Turn
    BY <1>1, TurnCompaction DEF Turn, UsefulTurn, IdleTurn, FailedTurn, PartialTurn
  <1>2. CASE LateCompaction
    <2>1. /\ phase = "exported" /\ ~overtaken /\ overtaken' = TRUE
          /\ UNCHANGED <<phase, snapshot>> /\ Compact(changed)
      BY <1>2 DEF LateCompaction
    <2>2. CurrentRequest' = CurrentRequest
      BY <2>1 DEF CurrentRequest
    <2>3. /\ barren' <= barren + 1
          /\ barren' <= MostBarren(pressure')
          /\ pressure'.last_compaction_had_state_change <=> barren' = 0
      BY <1>0, <2>1, CompactCounts
    <2>4. barren' \in U32
      BY <1>0, <2>1, CompactType
    <2>5. Late = 0 /\ Late' = 1
      BY <2>1 DEF Late
    <2>6. CASE snapshot = [kind |-> "bootstrap", body |-> Nil] /\ barren <= Late
      <3>1. barren' <= Late'
        BY <1>0, <2>3, <2>4, <2>5, <2>6 DEF U32
      <3> QED
        BY <2>1, <2>3, <2>6, <3>1 DEF CompactionInv
    <2>7. CASE ~(snapshot = [kind |-> "bootstrap", body |-> Nil] /\ barren <= Late)
      <3>1. /\ snapshot.kind = Route
            /\ CurrentRequest.context_pressure \in ContextPressure
            /\ barren <= Late + MostBarren(CurrentRequest.context_pressure)
        BY <2>1, <2>7 DEF CompactionInv
      <3>2. MostBarren(CurrentRequest.context_pressure) \in U32
        BY <3>1, MostBarrenType
      <3>3. barren' <= Late' + MostBarren(CurrentRequest.context_pressure)
        BY <1>0, <2>3, <2>4, <2>5, <3>1, <3>2 DEF U32
      <3> QED
        BY <2>1, <2>2, <2>3, <3>1, <3>3 DEF CompactionInv
    <2> QED
      BY <2>6, <2>7
  <1>3. CASE ExportBootstrap
    BY <1>0, <1>3 DEF ExportBootstrap, Export, CompactionInv, Late, U32
  <1>4. CASE ExportTurn
    <2>1. PICK body \in Snapshots : phase = "ended" /\ Export(Route, body)
      BY <1>4 DEF ExportTurn
    <2>2. /\ phase' = "exported" /\ snapshot' = [kind |-> Route, body |-> body]
          /\ UNCHANGED <<pressure, barren, overtaken>>
      BY <2>1 DEF Export
    <2>3. CurrentRequest' = HarnessRequest(Route, body)
      BY <2>2 DEF CurrentRequest, HarnessRequest
    <2>4. CurrentRequest'.context_pressure = pressure
      BY <2>3, SnapshotReflectsPressure
    <2>5. ~overtaken /\ Late' = 0
      BY <2>1, <2>2 DEF CompactionInv, Late
    <2>6. barren <= Late' + MostBarren(pressure)
      <3>1. MostBarren(pressure) \in U32
        BY <1>0, MostBarrenType
      <3> QED
        BY <2>5, <3>1 DEF CompactionInv, U32
    <2>7. snapshot'.kind = Route
      BY <2>2
    <2> QED
      BY <1>0, <2>2, <2>4, <2>5, <2>6, <2>7 DEF CompactionInv
  <1>5. CASE Decide
    <2>1. /\ phase = "exported" /\ phase' = "decided"
          /\ UNCHANGED <<pressure, barren, overtaken, snapshot>>
      BY <1>5 DEF Decide
    <2>2. CurrentRequest' = CurrentRequest /\ Late' = Late
      BY <2>1 DEF CurrentRequest, Late
    <2> QED
      BY <2>1, <2>2 DEF CompactionInv
  <1>6. CASE Continue
    BY <1>6 DEF Continue, CompactionInv
  <1>7. CASE HandOff
    BY <1>7 DEF HandOff, CompactionInv
  <1>8. CASE Approve \/ UNCHANGED vars
    BY <1>8 DEF Approve, vars, CompactionInv, CurrentRequest, Late
  <1> QED
    BY <1>1, <1>2, <1>3, <1>4, <1>5, <1>6, <1>7, <1>8 DEF Next, Governor

\* The count of recent compactions a request carries bounds the barren ones
\* behind the window, up to the one that may have overtaken it.
THEOREM CompactionCorrect ==
  ASSUME Route \in CorrectionRoutes
  PROVE  Spec => []CompactionInv
  <1>1. Spec => []SessionInv
    BY CorrectionRoutesCarryStalls, SessionCorrect
  <1> QED
    BY <1>1, InitCompaction, NextCompaction, PTL DEF Spec

-----------------------------------------------------------------------------
(* What the invariant is for. *)

LEMMA GoOnLeavesCompactions ==
  ASSUME SessionInv, CompactionInv, phase = "decided", decision.mode # "Handoff"
  PROVE  barren <= AtLeastOne(Policy.repeated_compaction_limit)
  <1> USE DEF SessionInv
  <1>1. ~CompactionViolation(CurrentRequest)
    BY DecisionMode DEF DecisionIsAnswer, Blocked
  <1>2. /\ Policy.repeated_compaction_limit \in U32
        /\ barren \in U32 /\ Late \in {0, 1}
    BY PolicyType DEF EscalationPolicy, TypeOK, Late
  <1>3. CASE barren <= Late
    BY <1>2, <1>3 DEF AtLeastOne, U32
  <1>4. CASE ~(barren <= Late)
    <2>1. snapshot # [kind |-> "bootstrap", body |-> Nil] \/ ~(barren <= Late)
      BY <1>4
    <2>2. /\ snapshot.kind = Route
          /\ CurrentRequest.context_pressure \in ContextPressure
          /\ barren <= Late + MostBarren(CurrentRequest.context_pressure)
      BY <1>4 DEF CompactionInv
    <2>3. ~CurrentRequest.context_pressure.last_compaction_had_state_change
      BY <1>2, <1>4, <2>2 DEF MostBarren, U32
    <2>4. CASE CurrentRequest.escalation_policy = Policy
      <3>1. ~(CurrentRequest.context_pressure.recent_compaction_count
                >= Policy.repeated_compaction_limit)
        BY <1>1, <2>3, <2>4 DEF CompactionViolation
      <3> QED
        BY <1>2, <2>2, <2>3, <3>1 DEF MostBarren, ContextPressure, AtLeastOne, U32
    <2>5. CASE snapshot = [kind |-> "bootstrap", body |-> Nil]
      <3>1. CurrentRequest.context_pressure.last_compaction_had_state_change
        BY <2>5 DEF CurrentRequest, HarnessRequest, CodexBootstrapRequest
      <3> QED
        BY <2>3, <3>1
    <2> QED
      BY <2>4, <2>5 DEF RequestIsCurrent
  <1> QED
    BY <1>3, <1>4

LEMMA NextLoopBounded ==
  ASSUME SessionInv, CompactionInv, CompactionLoopBounded, [Next]_vars
  PROVE  CompactionLoopBounded'
  <1> USE DEF CompactionLoopBounded
  <1>1. CASE Continue
    <2>1. phase = "decided" /\ decision.mode # "Handoff" /\ UNCHANGED barren
      BY <1>1 DEF Continue
    <2> QED
      BY <2>1, GoOnLeavesCompactions DEF Policy
  <1>2. CASE Turn
    BY <1>2 DEF Turn, UsefulTurn, IdleTurn, FailedTurn, PartialTurn, EndTurn
  <1>3. CASE LateCompaction \/ ExportBootstrap \/ ExportTurn \/ Decide \/ HandOff
    BY <1>3 DEF LateCompaction, ExportBootstrap, ExportTurn, Export, Decide, HandOff
  <1>4. CASE Approve \/ UNCHANGED vars
    BY <1>4 DEF Approve, vars, Policy
  <1> QED
    BY <1>1, <1>2, <1>3, <1>4 DEF Next, Governor

\* A governed session does not compact in a loop: no turn starts after more
\* compactions in a row that had nothing new than the policy allows, even if
\* one of them overtakes the request.
THEOREM CompactionLoopsBounded ==
  ASSUME Route \in CorrectionRoutes
  PROVE  Spec => []CompactionLoopBounded
  <1>1. Spec => []SessionInv
    BY CorrectionRoutesCarryStalls, SessionCorrect
  <1>2. Init => CompactionLoopBounded
    BY PolicyType DEF Init, CompactionLoopBounded, AtLeastOne, EscalationPolicy, U32
  <1> QED
    BY <1>1, <1>2, CompactionCorrect, NextLoopBounded, PTL DEF Spec

\* The window that HandoffIsEarned looks at: the host's, or the one it exported
\* if it has compacted since.
WindowAsked == IF overtaken THEN CurrentRequest.context_pressure ELSE pressure

LEMMA BlockedIsEarned ==
  ASSUME SessionInv, CompactionInv, Route \in CorrectionRoutes,
         Policy.repeated_compaction_limit # 0,
         phase = "decided", decision.mode = "Handoff"
  PROVE  \/ progress.no_progress_iteration_count >= Policy.no_progress_limit
         \/ self_correction.correction_attempt_count >= Policy.self_correction_limit
         \/ /\ WindowAsked.recent_compaction_count >= Policy.repeated_compaction_limit
            /\ ~WindowAsked.last_compaction_had_state_change
            /\ overtaken \/ barren >= 1
  <1> USE DEF SessionInv
  <1>1. Blocked(CurrentRequest)
    BY DecisionMode DEF DecisionIsAnswer
  <1>2. snapshot # [kind |-> "bootstrap", body |-> Nil]
    <2>1. SUFFICES ASSUME snapshot = [kind |-> "bootstrap", body |-> Nil]
                   PROVE  ~Blocked(CurrentRequest)
      BY <1>1
    <2>2. CurrentRequest = CodexBootstrapRequest
      BY <2>1 DEF CurrentRequest, HarnessRequest
    <2> QED
      BY <2>2 DEF CodexBootstrapRequest, Blocked, NoProgressViolation,
         SelfCorrectionViolation, CompactionViolation, UpstreamPolicy, NoCorrection
  <1>3. /\ CurrentRequest.escalation_policy = Policy
        /\ CurrentRequest.progress.no_progress_iteration_count
             = progress.no_progress_iteration_count
        /\ CurrentRequest.self_correction = self_correction
    BY <1>2 DEF RequestIsCurrent
  <1>4. CurrentRequest.context_pressure = WindowAsked
    BY <1>2 DEF CompactionInv, WindowAsked
  <1>5. CASE NoProgressViolation(CurrentRequest) \/ SelfCorrectionViolation(CurrentRequest)
    BY <1>3, <1>5 DEF NoProgressViolation, SelfCorrectionViolation
  <1>6. CASE CompactionViolation(CurrentRequest)
    <2>1. /\ WindowAsked.recent_compaction_count >= Policy.repeated_compaction_limit
          /\ ~WindowAsked.last_compaction_had_state_change
      BY <1>3, <1>4, <1>6 DEF CompactionViolation
    <2>2. CASE ~overtaken
      <3>1. pressure.recent_compaction_count # 0
        BY <2>1, <2>2, PolicyType DEF WindowAsked, EscalationPolicy, U32
      <3>2. barren # 0 /\ barren \in U32
        BY <2>1, <2>2, <3>1 DEF WindowAsked, CompactionInv, TypeOK
      <3> QED
        BY <2>1, <3>2 DEF U32
    <2> QED
      BY <2>1, <2>2
  <1> QED
    BY <1>1, <1>5, <1>6 DEF Blocked

\* Under a policy that allows at least one compaction, no session is handed
\* off without cause.
THEOREM HandoffsEarned ==
  ASSUME Route \in CorrectionRoutes, Policy.repeated_compaction_limit # 0
  PROVE  Spec => []HandoffIsEarned
  <1>1. Spec => []SessionInv
    BY CorrectionRoutesCarryStalls, SessionCorrect
  <1>2. Init => HandoffIsEarned
    BY DEF Init, HandoffIsEarned
  <1>3. SessionInv /\ CompactionInv /\ HandoffIsEarned /\ [Next]_vars => HandoffIsEarned'
    <2> SUFFICES ASSUME SessionInv, CompactionInv, HandoffIsEarned, [Next]_vars
                 PROVE  HandoffIsEarned'
      OBVIOUS
    <2>1. CASE HandOff
      <3>1. /\ phase = "decided" /\ decision.mode = "Handoff"
            /\ UNCHANGED <<progress, self_correction, pressure, barren, overtaken,
                           snapshot>>
        BY <2>1 DEF HandOff
      <3>2. UNCHANGED CurrentRequest
        BY <3>1 DEF CurrentRequest
      <3> QED
        BY <3>1, <3>2, BlockedIsEarned DEF HandoffIsEarned, WindowAsked, Policy
    <2>2. CASE Turn \/ LateCompaction \/ Approve \/ ExportBootstrap \/ ExportTurn
               \/ Decide \/ Continue
      BY <2>2 DEF Turn, UsefulTurn, IdleTurn, FailedTurn, PartialTurn, EndTurn,
         LateCompaction, Approve, ExportBootstrap, ExportTurn, Export, Decide, Continue,
         HandoffIsEarned
    <2>3. CASE UNCHANGED vars
      BY <2>3 DEF vars, HandoffIsEarned, Policy, CurrentRequest
    <2> QED
      BY <2>1, <2>2, <2>3 DEF Next, Governor
  <1> QED
    BY <1>1, <1>2, <1>3, CompactionCorrect, PTL DEF Spec
=============================================================================
