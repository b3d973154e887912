--------------------------- MODULE AgentlySession ---------------------------
(***************************************************************************)
(* A session whose orchestrator is an Agently sidecar.  The host asks over *)
(* AgentlyOrchestrator, which invokes the transport once per call, waits   *)
(* without a limit and passes errors on.  The transport and the sidecar    *)
(* are outside this repository: a response may be late, lost, an error, an *)
(* error beside a draft, or empty, the worker may stop, and the host may   *)
(* drop the call.  After an error the host decides with the local          *)
(* orchestrator or gives the candidate up.                                 *)
(*                                                                         *)
(* The two transports the documents name differ in what becomes of the     *)
(* response to a call that was dropped: a "service" answers each call on a *)
(* connection of its own, a "pipe" to a worker keeps the response for      *)
(* whoever reads next.                                                     *)
(***************************************************************************)
EXTENDS OrchestratorSession, AgentlySidecar, Sequences

CONSTANTS
    Transports,     \* the transports the session may have
    MaxInFlight     \* how many exchanges a transport holds

ASSUME SidecarAssumption ==
    /\ Transports \subseteq {"service", "pipe"}
    /\ MaxInFlight \in Nat
    /\ Nil \notin ContinueRequest \cup ContinueDecision \cup PlannerResponse
    /\ Err \notin ContinueDecision \cup PlannerResponse
    /\ Nil \notin Operation

VARIABLES
    transport,      \* the transport of the session
    call,           \* the operation under call, or Nil
    inFlight,       \* the exchanges the transport has not delivered, in order
    failed,         \* the call for the candidate has returned an error
    advice          \* the last plan that was returned, or Nil

callVars == <<transport, call, inFlight, failed, advice>>
sessionVars == <<vars, callVars>>

-----------------------------------------------------------------------------
\* An answer that is not for this candidate may queue a wakeup that is not there.
QueueNothing ==
    /\ phase = "decided"
    /\ decision.mode = "QueueOnly"
    /\ armed = 0
    /\ Checkpoint
    /\ phase' = "idle"
    /\ UNCHANGED <<reason, taskVars, mailVars, request, decision, corrections>>

\* What the host does while no call keeps it waiting.
HostAlone ==
    \/ Turn
    \/ GoIdle
    \/ \E why \in Reasons : Propose(why)
    \/ StartTurn \/ HandOff \/ QueueNothing
    \/ QueueOnly /\ armed > 0

HostStep == (Arrive \/ (call = Nil /\ HostAlone)) /\ UNCHANGED callVars

\* Mutant: an error is swallowed and the caller none the wiser.
CallErrsUnseen(operation) == UNCHANGED <<vars, failed, advice>>

\* The caller gets an error.  Only a candidate has to be settled otherwise.
CallErrs(operation) ==
    /\ failed' = (operation = "decide_continue")
    /\ UNCHANGED <<vars, advice>>

\* The transport takes the exchange, or refuses it when it holds too many.
Invoke(exchange) ==
    /\ call = Nil
    /\ \/ /\ Len(inFlight) < MaxInFlight
          /\ call' = exchange.operation
          /\ inFlight' = Append(inFlight, exchange)
          /\ UNCHANGED <<vars, failed, advice>>
       \/ /\ Len(inFlight) >= MaxInFlight
          /\ CallErrs(exchange.operation)
          /\ UNCHANGED <<call, inFlight>>
    /\ UNCHANGED transport

AskSidecar == phase = "asked" /\ ~failed /\ Invoke(DecideRequest(request))

\* Before it proposes anything the host may ask for a plan.
PlanWithSidecar == phase \in {"ended", "idle"} /\ Invoke(PlanRequest)

\* decide_continue returns.
ReturnDecision(result) ==
    IF result = Err THEN CallErrs("decide_continue")
    ELSE /\ decision' = result
         /\ phase' = "decided"
         /\ UNCHANGED <<reason, taskVars, mailVars, request, lastCheckpoint,
                        corrections, failed, advice>>

\* plan_next_action returns.
ReturnPlan(result) ==
    IF result = Err THEN CallErrs("plan_next_action")
    ELSE advice' = result /\ UNCHANGED <<vars, failed>>

\* What a sidecar may answer.
Responses(exchange) == {PolicySidecar(exchange), HalfWay, NoResponse}

\* The oldest response is read by the call that waits.
CallReturns ==
    /\ call # Nil
    /\ inFlight # <<>>
    /\ \E response \in Responses(Head(inFlight)) :
        IF call = "decide_continue"
        THEN ReturnDecision(ContinueResult(response))
        ELSE ReturnPlan(PlannerResult(response))
    /\ call' = Nil
    /\ inFlight' = Tail(inFlight)
    /\ UNCHANGED transport

\* The transport reports an error of its own or the host drops the call: the
\* orchestrator sets no limit, so nothing makes this happen.
CallFails ==
    /\ call # Nil
    /\ CallErrs(call)
    /\ call' = Nil
    /\ inFlight' = IF transport = "service" THEN <<>> ELSE inFlight
    /\ UNCHANGED transport

\* The sidecar stops and what it has not answered is lost; a call that waits
\* goes on waiting.
SidecarStops ==
    /\ inFlight # <<>>
    /\ inFlight' = <<>>
    /\ UNCHANGED <<vars, transport, call, failed, advice>>

\* After an error the local orchestrator decides or the candidate is given up.
SettleLocally ==
    /\ failed
    /\ Decide \/ Withdraw
    /\ failed' = FALSE
    /\ UNCHANGED <<transport, call, inFlight, advice>>

-----------------------------------------------------------------------------
SidecarInit ==
    /\ Init
    /\ transport \in Transports
    /\ call = Nil
    /\ inFlight = <<>>
    /\ failed = FALSE
    /\ advice = Nil

CallStep ==
    AskSidecar \/ PlanWithSidecar \/ CallReturns \/ CallFails \/ SidecarStops

SidecarNext == HostStep \/ CallStep \/ SettleLocally

SidecarSpec == SidecarInit /\ [][SidecarNext]_sessionVars

\* What brings a candidate on: the host asks for what it proposed and settles an
\* error, the transport delivers a response it holds.
Settle == AskSidecar \/ CallReturns \/ SettleLocally

\* No call is assumed to fail in time: one without a response may wait for ever.
SidecarFairSpec == SidecarSpec /\ WF_sessionVars(Settle)

-----------------------------------------------------------------------------
(* Properties. *)

SidecarTypeOK ==
    /\ transport \in Transports
    /\ call \in Operation \cup {Nil}
    /\ inFlight \in Seq(AgentlySidecarRequest)
    /\ Len(inFlight) <= MaxInFlight
    /\ failed \in BOOLEAN
    /\ advice \in PlannerResponse \cup {Nil}

\* A plan is one a planner stood by: what a sidecar had drafted when it failed
\* is never taken for one.
AdviceIsGenuine == advice \in {Nil, PlanNextAction}

\* Over a service the session is one of OrchestratorSession, whatever responses
\* are lost, late, in error or empty; over a pipe nothing is claimed here.
ServiceKeepsSession ==
    Init /\ [][transport = "service" => [Next]_vars]_sessionVars

\* A decision is stale, given to an earlier candidate, only if a response is
\* left unread behind it: the transport could tell.
StaleDecisionLeavesTrace ==
    [][(phase = "asked" /\ phase' = "decided" /\ decision' # DecideContinue(request))
           => inFlight' # <<>>]_sessionVars

\* The call for the candidate waits for a response that was lost.
CallHangs == call = "decide_continue" /\ inFlight = <<>>

\* A candidate stays undecided for ever in one way only: its call waits, for
\* good, for a response that a stopped sidecar took with it.  A response that is
\* late, empty, in error or given to an earlier candidate never has this effect.
UndecidedOnlyIfLost == <>[](phase = "asked") => <>[]CallHangs

-----------------------------------------------------------------------------
(* Why the safety properties hold. *)

\* The last exchange in flight is the one under call, and over a service there
\* is no other.
CallIsLast ==
    /\ (call = "decide_continue" /\ inFlight # <<>>) =>
          inFlight[Len(inFlight)] = DecideRequest(request)
    /\ (call = "plan_next_action" /\ inFlight # <<>>) =>
          inFlight[Len(inFlight)] = PlanRequest
    /\ transport = "service" =>
          Len(inFlight) <= IF call = Nil THEN 0 ELSE 1

\* A call for a candidate is made, and can fail, only while it is undecided.
CallIsForCandidate ==
    /\ call = "decide_continue" => phase = "asked" /\ ~failed
    /\ failed => phase = "asked" /\ call = Nil

\* What asks for a decision says for what.
ExchangesAreWhole ==
    \A i \in 1..Len(inFlight) :
        inFlight[i].operation = "decide_continue" => inFlight[i].continue_request # Nil

\* Over a service an answer is the one to the request under way.
ServiceAnswers == transport = "service" => DecisionIsAnswer

SidecarInv ==
    /\ HostInv
    /\ SidecarTypeOK
    /\ CallIsLast
    /\ CallIsForCandidate
    /\ ExchangesAreWhole
    /\ ServiceAnswers
    /\ AdviceIsGenuine
=============================================================================
