# Muldex: specifications, model checking and proofs

Muldex governs a coding agent (the Codex runtime) from outside: between turns the
agent's host asks whether and how to go on, and Muldex answers from counters the
host reports. Its purpose is to stop low-value spinning. These TLA+ modules model
the decision code and the loops it is used in, check them with TLC, and prove the
limits the harness keeps for every policy with TLAPS.

Paths below are relative to `crates/` of the repository; `core` is
`muldex-core/src`, `cli` is `muldex-cli/src`.

## Inventory

| Component | Code | State it keeps | Operations |
|---|---|---|---|
| Protocol types | `core/protocol.rs` | none | the records and enums everything else exchanges |
| Reasoning harness | `core/reasoning_harness.rs` | none | `decide_reasoning_harness` |
| Upstream adapter | `core/upstream_adapter.rs` | none | signal, bootstrap and live snapshot to harness request |
| CLI | `cli/main.rs` | none (one process per call) | `decide-sample`, `decide-file`, `decide-codex-snapshot`, `decide-workspace` |
| Deterministic orchestrator | `core/policy.rs`, `core/orchestrator.rs` | none | `decide_continue`, `plan_next_action` |
| Agently sidecar client | `core/agently.rs` | a transport | the same two, over a transport that may fail |
| Model router | `core/policy.rs` | none | `list_capabilities`, `select_model` |
| Policy traits | `core/policy.rs` | none | three traits without an implementation |
| Media and capability descriptors | `core/protocol.rs` | none | types without behaviour |

Every component is a pure function of its input. The state that matters is in the
host: how many turns changed nothing, what failed, how often a correction was
tried, what was compacted, what was checkpointed, what waits in the mailbox; and,
while a call runs, in the files it reads and the transport it waits for. The
host exports it, Muldex answers, the host obeys:

    host turn -> snapshot / request -> adapter -> decision -> host continues,
                                                             corrects or hands off

A correctness property of Muldex is therefore a property of that loop over many
calls. A unit test sees one call; the properties here are about the sequence.

What is hard about it:

- *Long sequences.* A limit is kept only if every call in a row passes on what
  the limit counts: stalls, failures, corrections and compactions interleave.
- *Stale reports.* A report describes the host at export. The operator may
  compact, a wakeup may arrive before the answer is obeyed.
- *Lossy conversions.* An adapter that drops a counter or fixes it to a constant
  makes the governor blind to it; a window number is wider than its counter.
- *Boundaries.* `>=` against `<` at a limit, limits of zero, `% 5` cadences, `all`
  over no changes.
- *Abandoned calls.* A sidecar is awaited without a timeout and its responses name no
  request: an answer may arrive after its call was dropped, half-way, or never.
- *A changing world.* A snapshot is rewritten, a workspace removed or a process killed
  while a command is at work, and a file may be readable as several snapshot kinds.
- *Termination.* A session that spins must be stopped, not merely reported.

What makes each component correct: the harness stops a session when, and only
when, one of three limits is reached, and leaves it checkpointed; an adapter passes
on what the limits count and its results are well typed; the orchestrator stops
the three loops its rules name, never on the first idle turn, and disarms what
could wake a session it stopped; the sidecar client never turns a failure into a
decision and swallows no response, and an answer to another call can be told from
its own; the CLI takes a snapshot for what it is, answers from one version of it, and
prints nothing that looks like an answer when it fails.

## Modules

| Module | Models | Uses |
|---|---|---|
| `MuldexProtocol` | the fields decisions read, u32 width `U32Max` | |
| `ReasoningHarness` | `decide_reasoning_harness`, one operator per condition | `MuldexProtocol` |
| `UpstreamAdapter` | the three conversions, `build_workspace_request` | `MuldexProtocol` |
| `HarnessSession` | host, snapshot, harness, answer, in a loop | the two above |
| `AntiSpin` | what a session under the harness promises, without snapshots or rules | |
| `HarnessSessionProofs` | types, stall and correction limits, refinement, liveness | `HarnessSession` |
| `HarnessCompactionProofs` | compaction loops and reasons for a handoff | `HarnessSessionProofs` |
| `HarnessAnswerProofs` | checkpoints, fake progress, approvals, the routes compared, monotonicity | `HarnessSessionProofs` |
| `DeterministicPolicy` | `decide_continue`, one operator per rule | `MuldexProtocol` |
| `OrchestratorSession` | host with mailbox, input and follow-ups, orchestrator | `DeterministicPolicy` |
| `Wakeups` | a ledger of the mailbox items that may start a turn | |
| `OrchestratorSessionProofs` | the invariant, every safety bound, refinement of `Wakeups`, liveness | `OrchestratorSession` |
| `AgentlySidecar` | messages with a sidecar, what `AgentlyOrchestrator` makes of a response | `DeterministicPolicy` |
| `AgentlySession` | `OrchestratorSession` with a sidecar and its transport as the orchestrator | the two above |
| `AgentlySessionProofs` | the invariant, staleness, refinement of `OrchestratorSession` and `Wakeups`, liveness | both |
| `MuldexCli` | a command as a process, its files, the workspace, output and exit | `ReasoningHarness`, `UpstreamAdapter` |
| `DecisionService` | what a caller may expect of a command | |
| `MuldexCliProofs` | the invariant, output, counters, refinement of `DecisionService`, liveness | `MuldexCli` |
| `HarnessTypes` | type lemmas about conversions and decisions for the proofs | |
| `MCHarnessSession`, `MCOrchestratorSession`, `MCAgentlySession`, `MCMuldexCli` | small constants for TLC | |

Operators marked *Mutant* are plausible mistakes (`>` for `>=`, a dropped guard, a
counter lost in a conversion). They are not part of the model: each shows that a
property notices the mistake when the operator replaces the definition after it.

### HarnessSession

`phase` is where the session is: a turn runs, has ended, a snapshot is exported,
an answer is there, the session is handed off. `progress`, `recovery`,
`self_correction` and `pressure` are the host's side of `ProgressSnapshot`,
`RecoverySnapshot`, `SelfCorrectionState` and `ContextPressure`. `approval` is
`requires_explicit_approval_for_next_step`.

| Action | Code |
|---|---|
| `UsefulTurn`, `IdleTurn`, `FailedTurn`, `PartialTurn` | the host; each may compact once, before or after its work |
| `ExportBootstrap`, `ExportTurn` | the host writes a snapshot or request and calls the CLI |
| `LateCompaction` | the operator compacts while the answer is awaited |
| `Approve` | the operator grants the approval the next step waits for, before the export or after |
| `Decide` | `main.rs` 332-390: conversion by kind, then `decide_reasoning_harness` |
| `Continue`, `HandOff` | the host obeys `mode`, `should_checkpoint`, `should_enter_self_correction` |

`Route` is the command a session uses throughout: `file`, `signal`, `live` or
`workspace`. The host over-approximates Codex: where the source does not say when a
counter is cleared (attempts after a success, the count of recent compactions) or a
correction closed (`active` once something helped), the model may do it or not. `barren`
and `overtaken` are history and read by properties only.

### OrchestratorSession

A reason for a turn (`ContinueReason`) is a candidate: a follow-up of the turn that
ended, input, a mailbox item that may wake the session, a pending compaction, the
operator. `Propose` builds the `ContinueRequest`; `Decide` answers; `StartTurn`,
`QueueOnly` and `HandOff` obey `allow_continue`, `mode`, `downgrade_trigger_turn`
and `request_checkpoint`. Input and mail arrive in every phase before the handoff,
also between `Propose` and the decision: `decide_continue` is async.

The host counts as the field names say: `repeated_follow_up_count` counts follow-ups
(`ModelFollowUp`, `ToolResult`) in a row that changed nothing,
`no_progress_iteration_count` every turn in a row that changed nothing. A turn of
another kind that changes nothing may end the row of follow-ups or not.

`Wakeups` says what such a session promises of its mailbox: it keeps a ledger of the
items that may start a turn; each starts at most one turn or is parked, none
vanishes, and a handoff parks the rest. A session that continues only on follow-ups of
its own runs at most four idle turns in a row (`FollowUpsBounded`); any other session
is not bounded by the rules (`stall_without_failure`).

### AgentlySession

The same host, whose orchestrator is now `AgentlyOrchestrator` (`core/agently.rs`).
`call` is the operation under call, `inFlight` the exchanges the transport has not
delivered, `failed` an error the call for the candidate returned, `advice` the last plan.

| Action | Code |
|---|---|
| `AskSidecar`, `PlanWithSidecar` | `invoke(..).await` of `decide_continue` (50-57) and `plan_next_action` (74-81); the transport may refuse |
| `CallReturns` | the response: `error` first, then the missing field, then the result (59-67, 83-91) |
| `CallFails` | the transport's error (`?`), or the host drops the call's future; nothing in the client makes either happen |
| `SidecarStops` | the worker ends; what it has not answered is lost and the call goes on waiting |
| `SettleLocally` | the host decides with `DeterministicOrchestrator` or gives the candidate up |

The transport, the sidecar and the host's fallback are not in the repository. The
documents name two transports, a service and a worker on a pipe, and they differ in
one thing: whether the response to a dropped call can be read by the next. A sidecar
that decides as `DeterministicOrchestrator` does keeps the question to what the
transport and the client may spoil. It may also answer with an error beside a
decision it had drafted, or with an empty response. One host call runs at a time.

`ServiceKeepsSession` says that over a service nothing is spoiled: every step is one
of `OrchestratorSession` or none, so everything proved of that module holds. Over a
pipe a stale decision is possible, and the host may be told to queue a wakeup that is
not there (`QueueNothing`). `StaleDecisionLeavesTrace` says what a transport could
check to exclude it: there is then always a response left unread.

The client sets no timeout (50-57). A sidecar that stops without an error leaves its
call waiting, and the candidate undecided, for as long as the host cares to wait: this
is what the code does, and no property denies it. `UndecidedOnlyIfLost` says that it is
the only way: a candidate undecided for ever has a call whose response is lost for
good.

### MuldexCli

One command line, called again and again. `pc` is the next step of `main`, `status` how
the last process ended, `raw`, `request` and `decision` its locals, `output` what it
printed. `file`, `writing` and `disk` are the world's: a file is replaced at once or
torn while the host writes it, the workspace and the objective file come and go.

| Action | Code (`cli/main.rs`) |
|---|---|
| `ReadFile` | `fs::read_to_string(path)?`, 333 and 341 |
| `DecodeRequest` | 334 |
| `DecodeSignal`, `DecodeLive`, `DecodeBootstrap` | the nested matches of 342-355, with the summaries printed there |
| `BuildSample` | `sample_request(scenario)`, 326 and 174-204 |
| `CheckExists`, `CheckIsDir`, `TakeObjective`, `BuildWorkspaceStep` | `build_workspace_request`, 275-318, and `--print-request`, 382-385 |
| `Decide`, `PrintDecision`, `PrintJson`, `Exit` | the end of each arm |
| `Kill` | a signal, or the panic of `println!` on a closed pipe |

What a file holds is the groups of fields in it. serde ignores fields it does not
know (no type here denies them), so one file may decode as several kinds; the order of
the attempts decides. `DecisionService` says what a caller may rely on: one answer
per call, and one the input deserved at some moment of the call.

## Runs

| Run | Shows | Bounds |
|---|---|---|
| `signal` | the limits 3/2/2 stop a session that spins, loops in compactions or corrections, and nothing else stops one (`HandoffIsEarned`: a limit reached by the host's own counts, or by the window it exported); implements `AntiSpin`; the answer is that of a request the host wrote itself (`RoutesAgree`); liveness | `U32Max` 5, one step |
| `file` | the inductive invariant of the proofs; checkpoints; approvals; a policy 2/3/1 | `U32Max` 6, six steps |
| `workspace` | the flags of `decide-workspace` are enough to stop a stall | `U32Max` 5, one step |
| `live` | wide window numbers become well-typed requests | windows 0, `U32Max`, `U32Max` + 1 |
| `sidecar` | over a service a session is one of `OrchestratorSession`; over a pipe a stale decision leaves a trace; a candidate stays undecided only if its response is lost | two exchanges, one wakeup, one other reason, no steps |
| `cli` | a command answers from one version of its file, fails without an answer, never answers a file that decodes as a stalled signal snapshot as another kind, and answers a host that calls again | seven files, 15 command lines |
| `live_spins` | *violation*: a session on live snapshots is never stopped | |
| `orchestrator` | the inductive invariant; the three rules bound what they name, handoffs are earned (a third idle turn in a row, or a second after a compaction) and checkpointed; implements `Wakeups` | one input, one wakeup, one step |
| `follow_ups` | follow-ups alone end after the first turn and three more | `U32Max` 6 |
| `stall_without_failure` | *violation*: idle turns for input and wakeups go on without end | `U32Max` 8 |
| `workspace_corrections` | *violation*: over `decide-workspace` a failure is corrected beyond the limit | `U32Max` 5, three steps |
| `endless_correction` | *violation*: corrections of one failure go on without end | `U32Max` 8 |

Why the bounds are enough. Every limit compared with a counter is at most 3, and
`U32Max` is at least 5, so each counter passes its limit by two before it
saturates; saturated counters keep every comparison's outcome. A property that
does not look at completed steps needs one step, to clear the stalls; the
checkpoint cadence needs six, to pass the first multiple of five (`file`). One
waiting input and one wakeup suffice to have one arrive during a decision. Two
failure reasons in `HarnessSession` (decisions only ask whether there is one).
Two exchanges in flight suffice for an abandoned call and the one after it to be
answered from each other's response, and a reason beside the wakeup (here
`CompactionRecovery`, which a session of idle turns keeps proposing) to have a
`queue_only` meant for a wakeup reach a session in which nothing is armed (`sidecar`).
The files of `cli` are a healthy and a stalled signal
snapshot, one that lacks a field, one that is a live snapshot too, a live snapshot,
a bootstrap snapshot and a request; the commands are all scenarios and all ways to
name an objective.
The proofs lift the safety results to every width, policy and bound.
`StepsPerTurn` is {0, 1}: `CheckpointCadence` holds only then, because a turn that
completes several steps can jump over a multiple of five. For such turns the code bounds no gap
and neither does any property here.

Deadlock is not checked: a session handed off stops; it is in `cli`, where the
host can always call again.

**Fairness.** `HarnessSession!FairSpec` assumes weak fairness of the round trip
(`Governor`) and `OrchestratorSession!FairSpec` of deciding and obeying. Both are
short, synchronous for the host, and loop-free in the code: `decide_reasoning_harness`
is straight-line code in a process the host waits for, and
`DeterministicOrchestrator` never awaits anything. Nothing is assumed of
turns, arrivals, candidates or operators. So the liveness properties say: *if* turns
keep coming, something changes again and again (`SpinEnds`, `FollowUpsEnd`), and a
stall that reached its limit is handed off (`StallIsEscalated`).

`AgentlySession!SidecarFairSpec` assumes weak fairness of `Settle`: the host asks for what
it proposed, a transport delivers what the sidecar has answered or will answer, and the
host settles an error it was returned. Nothing is assumed of `CallFails` and
`SidecarStops`: `agently.rs` sets no timeout (`docs/todo.md` line 126 lists timeout
expectations as still to be defined), so no call is assumed to be given up. A sidecar
that runs and never answers is, to the client, one that stopped. Under this fairness
the session may hang, and does in the runs' state space; `UndecidedOnlyIfLost` says in
which case only.

`MuldexCli!FairSpec` assumes that a process runs (`main` has no loop and waits for
nothing but the disk) and that the host calls again; `HostIsAnswered` adds as premises
that from some moment on the files are in order and no process is killed.

## Where documents and code disagree

1. `live_spins`. A live snapshot has no stall count, and its conversion fixes every
   counter below the limits it hard-codes (`upstream_adapter.rs` 345-382). No answer
   on this route is a handoff, against `docs/architecture-boundary.md` line 166, "do
   not continue after repeated no-progress iterations without escalation".
2. `stall_without_failure`. The orchestrator's stall rule needs
   `last_recovery_had_progress` to be false (`policy.rs` 66-67). A session that never
   failed is not stopped by it, however many of its turns change nothing.
3. `endless_correction`. `enter_self_correction` (`policy.rs` 116) reads no attempt
   count; `docs/todo.md` line 236 says "self-correction is explicit and bounded".
4. `workspace_corrections`. `decide-workspace --recoverable-failure` always reports
   attempt 1 (`main.rs` 312), below the limit of 2 in the request it starts from, against
   the same line. Turns that complete steps while the failure stays open are followed by
   one correction after another. The documents call this flag a simulated
   failure (`docs/real-env-testing.md` line 50, `docs/acceptance-criteria.md` line 87): the
   line is a promise of the contract, and a session cannot be governed to it by this
   command.

Not a run, because a criterion leaves it open: `examples/no-progress.json` and
`examples/recoverable-failure.json` lack `post_compaction`, `runtime_mode` and `safety`
(`reasoning_harness.rs` 36-55 requires them), so `decide-file` rejects both. The
scenarios are still available as flags (`docs/acceptance-criteria.md` line 87, "through
stable CLI flags or files").

## Proofs

All constants are arbitrary: any `U32Max` of at least 5, any policy with u32 limits
(zero included), any failures, any steps per turn. The assumptions are
`U32MaxAssumption`, `SessionAssumption`, `OrchestratorAssumption`, `SidecarAssumption` and
`CliAssumption`, which TLC also evaluates.

| Theorem | Statement | Condition |
|---|---|---|
| `TypeCorrect` | `Spec => []TypeOK` | any route |
| `SessionCorrect` | `Spec => []SessionInv` | file, signal, workspace |
| `SpinBounded` | `Spec => []NoSpin` | file, signal, workspace |
| `CorrectionsBounded` | `Spec => []SelfCorrectionBounded` | file, signal |
| `SessionKeepsAntiSpinPromise` | `Spec => KeepsAntiSpinPromise` | file, signal |
| `CompactionCorrect` | `Spec => []CompactionInv` | file, signal |
| `CompactionLoopsBounded` | `Spec => []CompactionLoopBounded` | file, signal |
| `HandoffsEarned` | `Spec => []HandoffIsEarned` | file, signal; `repeated_compaction_limit` not 0 |
| `HandoffsCheckpointed` | `Spec => []HandoffCheckpointed` | file, signal, workspace |
| `FakeProgressReported` | `Spec => []FakeProgressIsReported` | file, signal |
| `CorrectionsWaitForApproval` | `Spec => CorrectionWaitsForApproval` | file |
| `CheckpointsKeepCadence` | `Spec => []CheckpointCadence` | file, signal; at most one step in a turn |
| `SignalRouteAgrees` | `Spec => []RoutesAgree` | any route (says something of signal) |
| `LiveNeverEscalates` | `Spec => [](phase # "handoff")` | live |
| `WorkspaceEscalatesStalls` | a session handed off has stalled to its limit | workspace |
| `SpinsEnd` | `Spec => SpinEnds` | file, signal, workspace; `no_progress_limit` at most 3 |
| `StallsEscalated` | `Spec /\ RoundTripsEnd => StallIsEscalated` | file, signal, workspace |
| `HarnessStopsWorse` | a request no better than one handed off is handed off | any two requests |

and of `OrchestratorSession`, for any reasons, failures, steps and pending items:

| Theorem | Statement | Condition |
|---|---|---|
| `OrchestratorCorrect` | `Spec => []OrchestratorInv` | |
| `FailureStallsBounded` | `Spec => []FailureStallBounded` | |
| `PostCompactionStallsBounded` | `Spec => []PostCompactionStallBounded` | |
| `HandoffsNeedStall` | `Spec => []HandoffNeedsStall` | |
| `OrchestratorHandoffsCheckpointed` | `Spec => []HandoffCheckpointed` | |
| `FollowUpLoopsBounded` | `Spec => []FollowUpsBounded` | reasons are follow-ups only |
| `FollowUpTurnsEnd` | `Spec => FollowUpsEnd` | reasons are follow-ups only |
| `SessionKeepsWakeups` | `Spec => KeepsWakeups` | |
| `OrchestratorStopsWorse` | a candidate no better than one handed off is handed off | any two candidates |

of `AgentlySession`, for any transports and number of exchanges in flight:

| Theorem | Statement | Condition |
|---|---|---|
| `SidecarCorrect` | `SidecarSpec => []SidecarInv` | |
| `StaleDecisionsLeaveTrace` | `SidecarSpec => StaleDecisionLeavesTrace` | |
| `ServicesKeepSession` | `SidecarSpec => ServiceKeepsSession` | |
| `ServiceImplementsSession` | `SidecarSpec => Spec` | the transport is a service |
| `ServiceKeepsBounds` | `SidecarSpec` keeps the bounds on stalls, handoffs and checkpoints | the transport is a service |
| `ServiceEndsFollowUps` | `SidecarSpec => []FollowUpsBounded /\ FollowUpsEnd` | a service; reasons are follow-ups only |
| `SidecarKeepsWakeups` | `SidecarSpec => KeepsWakeups` | |
| `UndecidedOnlyOnLoss` | `SidecarSpec /\ CallsGoOn => UndecidedOnlyIfLost` | |

and of `MuldexCli`, for any command lines and files:

| Theorem | Statement | Condition |
|---|---|---|
| `CliCorrect` | `Spec => []CliInv` | |
| `OutputsHonest` | `Spec => []OutputIsHonest` | |
| `CountersUsed` | `Spec => []CountersAreUsed` | |
| `CommandsImplementService` | `Spec => AnswersOneVersion` | |
| `CallsAnswered` | `Spec /\ HostCallsAgain => HostIsAnswered` | |

*The argument.* `NoSpin` is not inductive: it does not say why an exported request
still describes the host. `SessionInv` adds this. While a request is under way it
carries the host's stalls (and corrections, on the routes that have them) and the
policy (`RequestIsCurrent`); an answer is Muldex's answer to that request
(`DecisionIsAnswer`); so a host told to go on has stalls left before its limit, and
a turn adds at most one (`StallsLeft`). The bootstrap request describes a fresh
session (`StartIsFresh`). `CompactionInv` is the same argument for compactions, where the
request may lag behind by the one compaction that overtook it (`Late`): the count of
recent compactions bounds the barren ones behind the window. The condition of each
theorem is what the route must carry; `live_spins` shows it cannot be dropped.

`HandoffsEarned` excludes a compaction limit of zero because the code then hands off
a session that has never compacted.

`OrchestratorInv` plays the same part for the orchestrator: a request under decision
describes the task as it is, and what it was proposed for still waits although
more may have arrived (`RequestIsCurrent`); follow-ups that changed nothing are turns
that changed nothing (`FollowUpsAreStalls`), which is why the count of follow-ups is
enough to make a handoff earned. `FollowUpLoopsBounded` needs the converse as well:
with no other reason for a turn the follow-ups count all idle turns but the first
(`FollowUpsInv`).

`CheckpointCadence` needs to know that the last periodic checkpoint lies on a multiple of
five: with that, `CadenceInv` leaves a running session at most four steps past it, and
a turn of one step cannot jump over the next multiple.

`OrchestratorInv` does not survive a sidecar: over a pipe a decision may be stale, so
`DecisionIsAnswer` fails. What the host owes to nobody but itself (`HostInv`) is
therefore separate and does survive. `SidecarInv` adds that the last exchange in flight
is the one under call (`CallIsLast`): the client calls once at a time and the transport
keeps order. So a response read with nothing left behind it answers the call that
reads it, which is `StaleDecisionLeavesTrace`; and over a service, where a dropped call
leaves nothing, every response does (`ServiceAnswers`), which makes `CallReturns` the
orchestrator's `Decide`.

`CliInv` says of each step what the steps before it have established: what was ruled
out (`StepIsEarned`), that the request is the one the text read deserves
(`RequestIsDeserved`), what is printed so far (`OutputIsOfStep`). `ReadFile` is then the
moment the service replies, and no later step depends on `file`; for the commands without a
file that moment is `Decide`, on arguments that do not change.

*What a sidecar cannot spoil.* `Wakeups` is implemented over any transport, stale
decisions included (`SidecarKeepsWakeups`; run only without a sidecar). That needs one
fact `HostInv` does not have: every decision that hands off also downgrades
(`HandoffDowngrades`), whichever candidate it was given to. A `queue_only` for a wakeup
that is not there parks nothing. The bounds on stalls do depend on the decision being
the candidate's own, and are therefore theorems of a service only
(`ServiceKeepsBounds`).

*The two decision functions are monotone.* `HarnessStopsWorse` and
`OrchestratorStopsWorse` compare two inputs: one that reports as many stalls, attempts
or follow-ups at least, no more change and no looser limits, is stopped if the other
is. So reporting more never buys a session a turn, and what a host over-counts errs
towards a handoff. It holds of the early returns in any order, but not of each alone.

*Routes.* `SignalRouteAgrees` rests on the snapshot holding every counter the three limits
read (`SignalIsCurrent`); after a late compaction the answer is the one the host would
have had at the export. `LiveNeverEscalates` turns the run `live_spins` into a fact about
every instance: no live or bootstrap request reaches a limit. `WorkspaceEscalatesStalls`
says that over `decide-workspace` the stalls are the only limit in force, which is what
`workspace_corrections` shows by example.

*Liveness.* `SpinsEnd` and `FollowUpTurnsEnd` assume no fairness. A turn that changes
nothing raises the count by one and nothing but a useful turn clears it, so turns for ever
without a useful one would pass every count up to the bound, one implication per count,
and the bound is an invariant. As the counts are written out, `SpinsEnd` is for limits up
to 3, those the adapter hard-codes; for a larger limit the same argument is an induction
on the limit, which these provers do not do for a temporal formula.

The other three need steps to be taken. Each is proved from one stated consequence of
the fairness, and says that nothing else is needed:

| Theorem | Hypothesis | Why it holds under the fairness |
|---|---|---|
| `StallsEscalated` | `RoundTripsEnd`: a turn that ended is followed by another or a handoff | export, decision and obeying are each `Governor`, and each is enabled until taken |
| `UndecidedOnlyOnLoss` | `CallsGoOn`: a candidate undecided for ever, whose call does not hang, is worked at again and again | one step of `Settle` is enabled while a candidate is undecided and its call does not hang |
| `CallsAnswered` | `HostCallsAgain`: calls are started again and again | a process has no loop, so the host gets to call |

The stages are the content: that no answer lets a stalled session go on first; that asking, a
response and an error each bring a candidate nearer to being settled (three
steps at most), that no arrival, plan or abandoned call takes it back, and that a call
which hangs goes on hanging until it fails; that once files are in order no
step of a new call can fail.

*Only model-checked:* that these three hypotheses follow from `FairSpec`. This needs ENABLED,
which TLAPS does not reach; TLC checks the three properties under the fair specifications
themselves (`signal`, `workspace`, `sidecar`, `cli`). Every other property of a passing
run is proved.

## Not modelled

- Text, identifiers, timestamps, token gauges, media and capability descriptors: no
  decision reads them. The text of rationales, summaries and plans, for the same reason.
- The model router: `list_capabilities` and `select_model` return constants and nothing
  calls them. `select_model` names `multimodal-default`, which is not listed.
- The policy traits: no implementation.
- `--post-compaction` and the scenario of that name: they set fields no rule of the
  harness reads, so a session described as stalled after a compaction is answered like
  any other with the same stalls. Only `decide_continue` reads `pending_post_compaction`.
- The prohibited behaviors of a request: carried, never consulted.
- The approval gate on the signal route: the snapshot has no field for it.
- A read that spans a rewrite. `ReadFile` is one step and reads one version; a read that
  mixes two stands as one that found the file torn, which a mixture of two valid texts
  need not be.
- The single `println!` calls of `print_decision` (220-234), which are one step. What a
  process that was killed has printed carries no claim.
- Argument errors `clap` reports before `main` acts, and files that are not UTF-8 (`Missing`
  stands for any failed read).

## What is left

The repository holds no more code with state or order to it. Worth adding when the code
grows: a transport (there is only a test double) as a refinement of the two kinds
here; the router once something selects by it; and a host that overlaps calls, which the
`&self` of `decide_continue` allows and this project excludes.
