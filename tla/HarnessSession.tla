--------------------------- MODULE HarnessSession ---------------------------
(***************************************************************************)
(* A session governed by decide_reasoning_harness.  The host (the Codex    *)
(* runtime, outside this repository) runs a turn, counts what it did,      *)
(* exports a snapshot over one Route and obeys the answer; Muldex converts *)
(* the snapshot and decides.  Muldex keeps nothing between two calls, so   *)
(* what it promises is a property of this loop.                            *)
(*                                                                         *)
(* The host is an over-approximation: where the source does not say when a *)
(* counter is cleared, the model may clear it or not.                      *)
(***************************************************************************)
EXTENDS ReasoningHarness, UpstreamAdapter

CONSTANTS
    Route,          \* how the host asks between turns, one of Routes
    FilePolicy,     \* the escalation policy of a "file" request
    Failures,       \* the reasons a turn can fail with
    StepsPerTurn,   \* how many steps a turn that changes something completes
    MaxSteps,       \* bound: how many steps a session completes
    Nil             \* no snapshot, no decision

\* decide-file, decide-codex-snapshot with a signal or a live snapshot, and
\* decide-workspace.
Routes == {"file", "signal", "live", "workspace"}

ASSUME SessionAssumption ==
    /\ Route \in Routes
    /\ FilePolicy \in EscalationPolicy
    /\ Failures \subseteq RecoveryReason
    /\ StepsPerTurn \subseteq Nat
    /\ MaxSteps \in U32

Policy == IF Route = "file" THEN FilePolicy ELSE UpstreamPolicy

VARIABLES
    \* the host
    phase,           \* where the session is, one of Phases
    progress,        \* ProgressSnapshot
    recovery,        \* RecoverySnapshot
    self_correction, \* SelfCorrectionState
    pressure,        \* ContextPressure
    changed,         \* something changed since the last compaction
    approval,        \* the next step needs an explicit approval
    lastCheckpoint,  \* completed steps covered by the last checkpoint
    \* between the host and Muldex
    snapshot,        \* what was exported and not yet answered, tagged by kind
    decision,        \* the answer to it
    \* history, read by the properties only
    barren,          \* compactions in a row with nothing changed before them
    overtaken        \* the host compacted after it exported the snapshot

hostVars == <<progress, recovery, self_correction, approval>>
compactionVars == <<pressure, changed, barren>>
vars == <<phase, hostVars, compactionVars, lastCheckpoint, snapshot, decision,
          overtaken>>

Phases == {"start", "turn", "ended", "exported", "decided", "handoff"}

-----------------------------------------------------------------------------
(* The host's counters. *)

\* The window is compacted; productive says whether anything changed since
\* the compaction before.  A productive compaction may restart the count of
\* recent ones.
Compact(productive) ==
    /\ \E restart \in BOOLEAN :
        /\ restart => productive
        /\ pressure' =
            [recent_compaction_count |->
                 IF restart THEN 1
                 ELSE Increment(pressure.recent_compaction_count),
             last_compaction_had_state_change |-> productive]
    /\ barren' = IF productive THEN 0 ELSE Increment(barren)

\* At most one compaction in a turn, before or after what the turn changes.
CompactDuringTurn(useful) ==
    \/ /\ changed' = (changed \/ useful)
       /\ UNCHANGED <<pressure, barren>>
    \/ /\ Compact(changed)
       /\ changed' = useful
    \/ /\ useful
       /\ Compact(TRUE)
       /\ changed' = FALSE

\* The turn ends.  Whether the next step needs an approval is news.
EndTurn(useful) ==
    /\ phase = "turn"
    /\ phase' = "ended"
    /\ CompactDuringTurn(useful)
    /\ approval' \in BOOLEAN
    /\ UNCHANGED <<lastCheckpoint, snapshot, decision, overtaken>>

Advance(steps) ==
    /\ progress.completed_steps + steps <= MaxSteps
    /\ progress' = [completed_steps |-> progress.completed_steps + steps,
                    no_progress_iteration_count |-> 0]

\* The turn fails with a reason.
Fail(reason) ==
    /\ recovery' = [last_recovery_reason |-> reason,
                    last_recovery_had_progress |-> FALSE]
    /\ UNCHANGED self_correction

\* Nothing is left to recover from; the host may or may not close the
\* correction and clear its attempts.
Recover ==
    /\ recovery' = [recovery EXCEPT !.last_recovery_had_progress = TRUE]
    /\ \E open \in {FALSE, self_correction.active},
          attempts \in {0, self_correction.correction_attempt_count} :
        self_correction' = [active |-> open, correction_attempt_count |-> attempts]

Stall ==
    progress' = [progress EXCEPT !.no_progress_iteration_count = Increment(@)]

-----------------------------------------------------------------------------
(* The host's turns. *)

UsefulTurn(steps) == EndTurn(TRUE) /\ Advance(steps) /\ Recover

\* The turn changes nothing: repeated checks, summaries, empty follow-ups.
IdleTurn == EndTurn(FALSE) /\ Stall /\ UNCHANGED <<recovery, self_correction>>

FailedTurn(reason) == EndTurn(FALSE) /\ Stall /\ Fail(reason)

\* Part of the turn's work is kept.
PartialTurn(reason, steps) == EndTurn(TRUE) /\ Advance(steps) /\ Fail(reason)

-----------------------------------------------------------------------------
(* The decision round trip. *)

SignalOfHost ==
    [completed_steps |-> progress.completed_steps,
     no_progress_iteration_count |-> progress.no_progress_iteration_count,
     last_recovery_reason |-> recovery.last_recovery_reason,
     last_recovery_had_progress |-> recovery.last_recovery_had_progress,
     self_correction_active |-> self_correction.active,
     self_correction_attempt_count |-> self_correction.correction_attempt_count,
     recent_compaction_count |-> pressure.recent_compaction_count,
     last_compaction_had_state_change |->
         pressure.last_compaction_had_state_change]

RequestOfHost ==
    [prohibited_behaviors |-> {"NoFakeProgress", "NoRepeatedNoProgressContinuation"},
     progress |-> progress,
     recovery |-> recovery,
     self_correction |-> self_correction,
     safety |-> [requires_explicit_approval_for_next_step |-> approval],
     context_pressure |-> pressure,
     escalation_policy |-> FilePolicy]

\* The operator of decide-workspace passes the stalls counted and whether a
\* failure is still open.
FlagsOfHost ==
    [no_progress_iterations |-> progress.no_progress_iteration_count,
     recoverable_failure |->
         /\ recovery.last_recovery_reason # None
         /\ ~recovery.last_recovery_had_progress]

\* Window numbers below, at and beyond the width they are converted to.
LiveOfHost ==
    [pending_input_present : BOOLEAN,
     auto_compact_window_number : {0, U32Max, U32Max + 1}]

\* What the host may send between turns.
Snapshots ==
    CASE Route = "file"      -> {RequestOfHost}
      [] Route = "signal"    -> {SignalOfHost}
      [] Route = "workspace" -> {FlagsOfHost}
      [] Route = "live"      -> LiveOfHost

\* The command that receives a snapshot of this kind turns it into a request.
HarnessRequest(kind, body) ==
    CASE kind = "file"      -> body
      [] kind = "signal"    -> CodexSnapshotToHarnessRequest(body)
      [] kind = "workspace" -> BuildWorkspaceRequest(body)
      [] kind = "live"      -> CodexLiveSnapshotToHarnessRequest(body)
      [] kind = "bootstrap" -> CodexBootstrapRequest

CurrentRequest == HarnessRequest(snapshot.kind, snapshot.body)

Export(kind, body) ==
    /\ snapshot' = [kind |-> kind, body |-> body]
    /\ phase' = "exported"
    /\ UNCHANGED <<hostVars, compactionVars, lastCheckpoint, decision, overtaken>>

\* Before the first turn the host may send a bootstrap snapshot.
ExportBootstrap == phase = "start" /\ Export("bootstrap", Nil)

ExportTurn ==
    /\ phase = "ended"
    /\ \E body \in Snapshots : Export(Route, body)

\* The operator compacts while the answer is awaited.
LateCompaction ==
    /\ phase = "exported"
    /\ ~overtaken
    /\ Compact(changed)
    /\ changed' = FALSE
    /\ overtaken' = TRUE
    /\ UNCHANGED <<phase, hostVars, lastCheckpoint, snapshot, decision>>

\* The operator approves the next step, also while the answer is awaited.
Approve ==
    /\ phase \in {"ended", "exported", "decided"}
    /\ approval
    /\ approval' = FALSE
    /\ UNCHANGED <<phase, progress, recovery, self_correction, compactionVars,
                   lastCheckpoint, snapshot, decision, overtaken>>

Decide ==
    /\ phase = "exported"
    /\ decision' = DecideReasoningHarness(CurrentRequest)
    /\ phase' = "decided"
    /\ UNCHANGED <<hostVars, compactionVars, lastCheckpoint, snapshot, overtaken>>

Checkpoint ==
    lastCheckpoint' = IF decision.should_checkpoint
                      THEN progress.completed_steps ELSE lastCheckpoint

\* The next turn starts, as a correction when the answer says so.
Continue ==
    /\ phase = "decided"
    /\ decision.mode \in {"SameTurn", "NextTurn"}
    /\ Checkpoint
    /\ self_correction' =
        IF decision.should_enter_self_correction
        THEN [active |-> TRUE,
              correction_attempt_count |->
                  Increment(self_correction.correction_attempt_count)]
        ELSE self_correction
    /\ phase' = "turn"
    /\ snapshot' = Nil
    /\ decision' = Nil
    /\ overtaken' = FALSE
    /\ UNCHANGED <<progress, recovery, approval, compactionVars>>

HandOff ==
    /\ phase = "decided"
    /\ decision.mode = "Handoff"
    /\ Checkpoint
    /\ phase' = "handoff"
    /\ UNCHANGED <<hostVars, compactionVars, snapshot, decision, overtaken>>

-----------------------------------------------------------------------------
Init ==
    /\ phase \in {"start", "turn"}
    /\ progress = [completed_steps |-> 0, no_progress_iteration_count |-> 0]
    /\ recovery = NoRecovery
    /\ self_correction = NoCorrection
    /\ pressure = [recent_compaction_count |-> 0,
                   last_compaction_had_state_change |-> FALSE]
    /\ changed = FALSE
    /\ approval = FALSE
    /\ lastCheckpoint = 0
    /\ snapshot = Nil
    /\ decision = Nil
    /\ barren = 0
    /\ overtaken = FALSE

Turn ==
    \/ \E steps \in StepsPerTurn : UsefulTurn(steps)
    \/ IdleTurn
    \/ \E reason \in Failures : FailedTurn(reason)
    \/ \E reason \in Failures, steps \in StepsPerTurn : PartialTurn(reason, steps)

Governor == ExportBootstrap \/ ExportTurn \/ Decide \/ Continue \/ HandOff

Next == Turn \/ LateCompaction \/ Approve \/ Governor

Spec == Init /\ [][Next]_vars

\* The round trip to Muldex is synchronous and loop-free: once a turn has
\* ended the answer comes and is obeyed.  Nothing is assumed of turns.
FairSpec == Spec /\ WF_vars(Governor)

-----------------------------------------------------------------------------
(* Properties. *)

BodyType ==
    CASE Route = "file"      -> ReasoningHarnessRequest
      [] Route = "signal"    -> CodexSignalSnapshot
      [] Route = "workspace" -> WorkspaceFlags
      [] Route = "live"      -> CodexLiveContinuationSnapshot

\* The type invariant: every variable keeps to the types of protocol.rs and
\* every counter to its width, the counters of the request that a snapshot
\* becomes included.
TypeOK ==
    /\ phase \in Phases
    /\ progress \in ProgressSnapshot
    /\ recovery \in RecoverySnapshot
    /\ self_correction \in SelfCorrectionState
    /\ pressure \in ContextPressure
    /\ changed \in BOOLEAN
    /\ approval \in BOOLEAN
    /\ lastCheckpoint \in U32
    /\ barren \in U32
    /\ overtaken \in BOOLEAN
    /\ phase = "exported" =>
        \/ snapshot = [kind |-> "bootstrap", body |-> Nil]
        \/ snapshot \in [kind : {Route}, body : BodyType]
    /\ phase = "exported" => CurrentRequest \in ReasoningHarnessRequest
    /\ phase = "decided" => decision \in ReasoningHarnessDecision

\* The limit, and one turn at the least: the first decision comes after it.
AtLeastOne(n) == IF n = 0 THEN 1 ELSE n

\* A governed session never runs more turns in a row that change nothing than
\* the policy's no_progress_limit, whatever fails, compacts or is corrected
\* in between.
NoSpin ==
    progress.no_progress_iteration_count <= AtLeastOne(Policy.no_progress_limit)

\* Self-correction is bounded: the host is never told to start more
\* corrections than self_correction_limit on a count that was not cleared.
SelfCorrectionBounded ==
    self_correction.correction_attempt_count <= Policy.self_correction_limit

\* No turn starts with more than repeated_compaction_limit compactions in a
\* row behind it that had nothing new to compact.  One of them may have come
\* after the snapshot was exported; without it the bound would be strict.
CompactionLoopBounded ==
    phase = "turn" => barren <= AtLeastOne(Policy.repeated_compaction_limit)

\* A session is handed off for a reason that really occurred: the stalls or
\* the corrections reached their limit, or the compactions did and the last of
\* them came with nothing new.  The host may have compacted once more since, and
\* then it is the window it exported that counts.
HandoffIsEarned ==
    phase = "handoff" =>
        \/ progress.no_progress_iteration_count >= Policy.no_progress_limit
        \/ self_correction.correction_attempt_count >= Policy.self_correction_limit
        \/ LET window == IF overtaken THEN CurrentRequest.context_pressure ELSE pressure
           IN  /\ window.recent_compaction_count >= Policy.repeated_compaction_limit
               /\ ~window.last_compaction_had_state_change
               /\ overtaken \/ barren >= 1

\* A session handed off under a policy that asks for a checkpoint leaves
\* nothing it completed out of it.
HandoffCheckpointed ==
    (phase = "handoff" /\ Policy.request_checkpoint_before_handoff) =>
        lastCheckpoint = progress.completed_steps

\* When every turn completes at most one step, a session that goes on is
\* never five completed steps or more past its last checkpoint.
CheckpointCadence ==
    phase = "turn" => progress.completed_steps - lastCheckpoint < 5

\* The answer reports fake progress exactly when a correction is open that has
\* achieved nothing since the last failure: not for a correction the host left
\* open although it helped, and not for a failure without a correction.
FakeProgressIsReported ==
    (phase = "decided" /\ snapshot.kind = Route) =>
        ("NoFakeProgress" \in decision.violated_rules
             <=> self_correction.active /\ ~recovery.last_recovery_had_progress)

\* A session that exports signal snapshots is answered in full as it would be had
\* it written the request itself, with the policy of the adapter and no approval
\* pending: nothing else is lost or changed on the way.  What the operator
\* compacts after the export is not known to the answer.
RoutesAgree ==
    (phase = "decided" /\ snapshot.kind = "signal" /\ ~overtaken) =>
        decision = DecideReasoningHarness(
                       [RequestOfHost EXCEPT !.safety = NoApprovalNeeded,
                                             !.escalation_policy = UpstreamPolicy])

\* A correction never starts while the next step waits for an approval.  One
\* granted after the export makes the request stale, in this direction only.
CorrectionWaitsForApproval ==
    [][self_correction'.correction_attempt_count
           > self_correction.correction_attempt_count => ~approval]_vars

\* A session whose stalls reached the limit is handed to an operator.
StallIsEscalated ==
    (phase = "ended" /\ progress.no_progress_iteration_count
                            >= Policy.no_progress_limit)
        ~> phase = "handoff"

\* A session that runs turns for ever changes something again and again: it
\* cannot spin.
SpinEnds ==
    []<><<Turn>>_vars => []<><<Turn /\ progress'.no_progress_iteration_count = 0>>_vars

-----------------------------------------------------------------------------
(* Why the safety properties hold: what is true between any two steps.     *)

\* The routes over which a snapshot carries the host's stalls, and those
\* over which it carries the corrections as well.
StallRoutes == {"file", "signal", "workspace"}
CorrectionRoutes == {"file", "signal"}

\* What a request under way says of the host is still so when the answer is
\* obeyed.
RequestIsCurrent ==
    phase \in {"exported", "decided"} =>
        \/ /\ snapshot = [kind |-> "bootstrap", body |-> Nil]
           /\ progress = CodexBootstrapRequest.progress
           /\ self_correction = NoCorrection
           /\ recovery = NoRecovery
        \/ /\ snapshot.kind = Route
           /\ CurrentRequest.escalation_policy = Policy
           /\ CurrentRequest.progress.no_progress_iteration_count
                 = progress.no_progress_iteration_count
           /\ Route \in CorrectionRoutes =>
                 /\ CurrentRequest.self_correction = self_correction
                 /\ CurrentRequest.recovery = recovery

\* An answer is the one Muldex gives to the request under way.
DecisionIsAnswer ==
    phase = "decided" => decision = DecideReasoningHarness(CurrentRequest)

\* A session that has not run a turn is as the bootstrap snapshot says.
StartIsFresh ==
    phase = "start" =>
        /\ progress = CodexBootstrapRequest.progress
        /\ self_correction = NoCorrection
        /\ recovery = NoRecovery

\* A turn starts only with stalls left before the limit.
StallsLeft ==
    phase \in {"start", "turn"} =>
        progress.no_progress_iteration_count < AtLeastOne(Policy.no_progress_limit)

\* The inductive invariant of a session.
SessionInv ==
    /\ TypeOK
    /\ RequestIsCurrent
    /\ DecisionIsAnswer
    /\ StartIsFresh
    /\ StallsLeft
    /\ NoSpin

\* The late compaction the request under way does not know of.
Late == IF overtaken THEN 1 ELSE 0

\* The most barren compactions in a row a window can have behind it.
MostBarren(window) ==
    IF window.last_compaction_had_state_change
    THEN 0 ELSE window.recent_compaction_count

\* The count of recent compactions bounds the barren ones, in the host and in
\* a request under way, and a host that has compacted knows of a barren one.
CompactionInv ==
    /\ phase \in {"start", "turn", "ended"} => ~overtaken
    /\ barren <= MostBarren(pressure)
    /\ barren = 0 =>
          \/ pressure.last_compaction_had_state_change
          \/ pressure.recent_compaction_count = 0
    /\ phase = "start" => barren = 0
    /\ phase \in {"exported", "decided"} =>
          \/ snapshot = [kind |-> "bootstrap", body |-> Nil] /\ barren <= Late
          \/ /\ snapshot.kind = Route
             /\ ~overtaken => CurrentRequest.context_pressure = pressure
             /\ CurrentRequest.context_pressure \in ContextPressure
             /\ barren <= Late + MostBarren(CurrentRequest.context_pressure)

\* The session keeps the abstract anti-spin promise.
AntiSpinPromise == INSTANCE AntiSpin WITH
    StallLimit <- AtLeastOne(Policy.no_progress_limit),
    CorrectionLimit <- Policy.self_correction_limit,
    running <- phase # "handoff",
    stalls <- progress.no_progress_iteration_count,
    corrections <- self_correction.correction_attempt_count

KeepsAntiSpinPromise == AntiSpinPromise!Spec
=============================================================================
