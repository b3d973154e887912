------------------------ MODULE AgentlySessionProofs ------------------------
(***************************************************************************)
(* What a session keeps when its orchestrator is a sidecar, for every set  *)
(* of transports, every bound on exchanges in flight and every bound of    *)
(* OrchestratorSession, proved with TLAPS.                                 *)
(***************************************************************************)
EXTENDS AgentlySession, OrchestratorSessionProofs

USE DEF taskVars, mailVars

-----------------------------------------------------------------------------
(* Responses. *)

\* An exchange that says what it asks for.
Whole(exchange) ==
    /\ exchange \in AgentlySidecarRequest
    /\ exchange.operation = "decide_continue" => exchange.continue_request # Nil

\* decide_continue returns an error, or the answer to the exchange responded to
\* if that asked for a decision.
LEMMA ContinueResults ==
  ASSUME NEW exchange, Whole(exchange), NEW response \in Responses(exchange),
         ContinueResult(response) # Err
  PROVE  /\ exchange.operation = "decide_continue"
         /\ ContinueResult(response) = DecideContinue(exchange.continue_request)
         /\ ContinueResult(response) \in ContinueDecision
  <1>1. response = PolicySidecar(exchange)
    BY DEF Responses, ContinueResult, HalfWay, NoResponse
  <1>2. exchange.operation = "decide_continue"
    BY <1>1 DEF PolicySidecar, NoResponse, ContinueResult
  <1>3. exchange.continue_request \in ContinueRequest
    BY <1>2 DEF Whole, AgentlySidecarRequest
  <1>4. response.continue_decision = DecideContinue(exchange.continue_request)
    BY <1>1, <1>2 DEF PolicySidecar, NoResponse
  <1>5. ContinueResult(response) = response.continue_decision
    BY DEF ContinueResult
  <1> QED
    BY <1>2, <1>3, <1>4, <1>5, AnswerType

\* plan_next_action returns an error or the plan of the planner.
LEMMA PlannerResults ==
  ASSUME NEW exchange, NEW response \in Responses(exchange)
  PROVE  PlannerResult(response) \in {Err, PlanNextAction}
  BY DEF Responses, PlannerResult, PolicySidecar, HalfWay, NoResponse

LEMMA PlanType == PlanNextAction \in PlannerResponse
  BY DEF PlanNextAction, PlannerResponse, ContinueMode

\* What the conjuncts of the invariant say of the exchange at either end.
LEMMA EndsOfFlight ==
  ASSUME SidecarInv, inFlight # <<>>
  PROVE  /\ inFlight \in Seq(AgentlySidecarRequest)
         /\ Len(inFlight) \in Nat /\ Len(inFlight) >= 1
         /\ Head(inFlight) = inFlight[1]
         /\ Whole(inFlight[1])
         /\ Tail(inFlight) \in Seq(AgentlySidecarRequest)
         /\ Len(Tail(inFlight)) = Len(inFlight) - 1
         /\ \A i \in 1..Len(Tail(inFlight)) : Tail(inFlight)[i] = inFlight[i + 1]
  <1>1. inFlight \in Seq(AgentlySidecarRequest) /\ Len(inFlight) \in Nat
        /\ Len(inFlight) >= 1
    BY DEF SidecarInv, SidecarTypeOK
  <1>2. 1 \in 1..Len(inFlight) /\ inFlight[1] \in AgentlySidecarRequest
    BY <1>1
  <1>3. Whole(inFlight[1])
    BY <1>2 DEF Whole, SidecarInv, ExchangesAreWhole
  <1> QED
    BY <1>1, <1>3

-----------------------------------------------------------------------------
(* The invariant. *)

LEMMA InitSidecar == SidecarInit => SidecarInv
  <1> SUFFICES ASSUME SidecarInit PROVE SidecarInv
    OBVIOUS
  <1>1. OrchestratorInv
    BY InitOrchestrator DEF SidecarInit
  <1>2. Len(inFlight) = 0 /\ inFlight \in Seq(AgentlySidecarRequest)
    BY DEF SidecarInit
  <1>3. SidecarTypeOK
    <2>1. Len(inFlight) <= MaxInFlight
      BY <1>2, SidecarAssumption
    <2> QED
      BY <1>2, <2>1 DEF SidecarInit, SidecarTypeOK
  <1>4. CallIsLast /\ CallIsForCandidate
    BY <1>2 DEF SidecarInit, CallIsLast, CallIsForCandidate, Init
  <1>5. ExchangesAreWhole
    BY <1>2 DEF ExchangesAreWhole
  <1> QED
    BY <1>1, <1>3, <1>4, <1>5
       DEF SidecarInv, OrchestratorInv, ServiceAnswers, SidecarInit, AdviceIsGenuine

\* The host goes on while no call keeps it waiting.
LEMMA HostSidecar ==
  ASSUME SidecarInv, HostStep
  PROVE  SidecarInv'
  <1>1. /\ HostInv /\ UNCHANGED callVars
        /\ Arrive \/ (call = Nil /\ HostAlone)
    BY DEF HostStep, SidecarInv
  <1>2. HostInv'
    <2>1. CASE QueueNothing
      <3>1. /\ phase = "decided" /\ phase' = "idle" /\ Checkpoint
            /\ UNCHANGED <<reason, taskVars, mailVars, request, decision, corrections>>
        BY <2>1 DEF QueueNothing
      <3>2. lastCheckpoint' \in U32
        BY <1>1, <3>1, CheckpointType DEF HostInv
      <3>3. TypeOK'
        BY <1>1, <3>1, <3>2 DEF HostInv, TypeOK, Phases
      <3> QED
        BY <1>1, <3>1, <3>3
           DEF HostInv, RequestIsCurrent, FollowUpsAreStalls, MailboxBounded
    <2>2. CASE StartTurn \/ HandOff \/ (QueueOnly /\ armed > 0)
      <3>1. Obey /\ (QueueOnly => armed > 0)
        BY <2>2 DEF Obey, StartTurn, HandOff, QueueOnly
      <3> QED
        BY <1>1, <3>1, ObeyHost
    <2> QED
      BY <1>1, <2>1, <2>2, TurnHost, ArriveHost, ProposeHost, RestHost DEF HostAlone
  <1>3. /\ phase = "asked" => Arrive
        /\ Arrive => UNCHANGED <<phase, request, decision>>
        /\ phase' = "decided" => phase = "decided" /\ UNCHANGED <<request, decision>>
    BY <1>1 DEF HostAlone, Turn, UsefulTurn, IdleTurn, FailedTurn, PartialTurn, EndTurn,
       Arrive, ArriveInput, ArriveWakeup, GoIdle, Propose, StartTurn, QueueOnly,
       QueueNothing, HandOff
  <1>4. SidecarTypeOK' /\ ExchangesAreWhole' /\ AdviceIsGenuine'
    BY <1>1 DEF callVars, SidecarInv, SidecarTypeOK, ExchangesAreWhole, AdviceIsGenuine
  <1>5. call # Nil => UNCHANGED <<phase, request>>
    BY <1>1, <1>3
  <1>6. CallIsLast' /\ CallIsForCandidate'
    BY <1>1, <1>3, <1>5, SidecarAssumption
       DEF callVars, SidecarInv, CallIsLast, CallIsForCandidate, Operation, DecideRequest
  <1>7. ServiceAnswers'
    BY <1>1, <1>3 DEF callVars, SidecarInv, ServiceAnswers, DecisionIsAnswer
  <1> QED
    BY <1>2, <1>4, <1>6, <1>7 DEF SidecarInv

\* An exchange joins those in flight at their end.
LEMMA InvokeSidecar ==
  ASSUME SidecarInv, AskSidecar \/ PlanWithSidecar
  PROVE  SidecarInv'
  <1> USE DEF SidecarInv
  <1>1. PICK exchange :
          /\ Invoke(exchange)
          /\ \/ exchange = DecideRequest(request) /\ phase = "asked" /\ ~failed
             \/ exchange = PlanRequest /\ ~failed
    BY DEF AskSidecar, PlanWithSidecar, CallIsForCandidate
  <1>2. Whole(exchange) /\ exchange.operation \in Operation
    <2>1. request \in ContinueRequest /\ request # Nil
      BY SidecarAssumption DEF HostInv, TypeOK
    <2> QED
      BY <1>1, <2>1 DEF Whole, AgentlySidecarRequest, DecideRequest, PlanRequest, Operation
  <1>3. UNCHANGED <<vars, transport, advice>> /\ call = Nil
    BY <1>1 DEF Invoke, CallErrs
  <1>4. HostInv' /\ ServiceAnswers' /\ AdviceIsGenuine'
    BY <1>3, RestHost DEF ServiceAnswers, DecisionIsAnswer, AdviceIsGenuine, vars
  <1>5. CASE /\ Len(inFlight) < MaxInFlight
             /\ call' = exchange.operation
             /\ inFlight' = Append(inFlight, exchange)
             /\ UNCHANGED failed
    <2>1. /\ inFlight \in Seq(AgentlySidecarRequest) /\ Len(inFlight) \in Nat
          /\ exchange \in AgentlySidecarRequest
      BY <1>2 DEF SidecarTypeOK, Whole
    <2>2. /\ inFlight' \in Seq(AgentlySidecarRequest)
          /\ Len(inFlight') = Len(inFlight) + 1
          /\ inFlight'[Len(inFlight')] = exchange
          /\ \A i \in 1..Len(inFlight) : inFlight'[i] = inFlight[i]
      BY <1>5, <2>1
    <2>3. SidecarTypeOK'
      BY <1>2, <1>3, <1>5, <2>1, <2>2, SidecarAssumption DEF SidecarTypeOK
    <2>4. CallIsLast'
      <3>1. transport' = "service" => Len(inFlight') <= 1
        BY <1>3, <2>1, <2>2 DEF CallIsLast
      <3>2. call' # Nil
        BY <1>2, <1>5, SidecarAssumption
      <3>3. request' = request
        BY <1>3 DEF vars
      <3> QED
        BY <1>1, <1>5, <2>2, <3>1, <3>2, <3>3
           DEF CallIsLast, DecideRequest, PlanRequest
    <2>5. CallIsForCandidate'
      BY <1>1, <1>3, <1>5 DEF CallIsForCandidate, DecideRequest, PlanRequest, vars
    <2>6. ExchangesAreWhole'
      BY <1>2, <2>1, <2>2 DEF ExchangesAreWhole, Whole
    <2> QED
      BY <1>4, <2>3, <2>4, <2>5, <2>6
  <1>6. CASE CallErrs(exchange.operation) /\ UNCHANGED <<call, inFlight>>
    <2>1. failed' \in BOOLEAN /\ (failed' => exchange.operation = "decide_continue")
      BY <1>6 DEF CallErrs
    <2>2. SidecarTypeOK'
      BY <1>3, <1>6, <2>1 DEF SidecarTypeOK
    <2>3. CallIsLast' /\ ExchangesAreWhole'
      BY <1>3, <1>6, SidecarAssumption
         DEF CallIsLast, ExchangesAreWhole, Operation, vars, DecideRequest
    <2>4. CallIsForCandidate'
      <3>1. phase' = phase /\ call' = Nil
        BY <1>3, <1>6 DEF vars
      <3>2. failed' => phase = "asked"
        BY <1>1, <2>1 DEF DecideRequest, PlanRequest
      <3> QED
        BY <3>1, <3>2, SidecarAssumption DEF CallIsForCandidate, Operation
    <2> QED
      BY <1>4, <2>2, <2>3, <2>4
  <1> QED
    BY <1>1, <1>5, <1>6 DEF Invoke

\* The waiting call reads the oldest response.
LEMMA ReturnSidecar ==
  ASSUME SidecarInv, CallReturns
  PROVE  /\ SidecarInv'
         /\ transport = "service" => Decide \/ UNCHANGED vars
         /\ (phase = "asked" /\ phase' = "decided" /\ decision' # DecideContinue(request))
                => inFlight' # <<>>
  <1> USE DEF SidecarInv
  <1> DEFINE exchange == Head(inFlight)
  <1>1. /\ call # Nil /\ call' = Nil /\ inFlight # <<>>
        /\ inFlight' = Tail(inFlight) /\ transport' = transport
    BY DEF CallReturns
  <1>2. /\ inFlight \in Seq(AgentlySidecarRequest) /\ Len(inFlight) \in Nat
        /\ exchange = inFlight[1] /\ Whole(exchange)
        /\ inFlight' \in Seq(AgentlySidecarRequest)
        /\ Len(inFlight') = Len(inFlight) - 1
        /\ \A i \in 1..Len(inFlight') : inFlight'[i] = inFlight[i + 1]
    BY <1>1, EndsOfFlight
  <1>3. PICK response \in Responses(exchange) :
          IF call = "decide_continue"
          THEN ReturnDecision(ContinueResult(response))
          ELSE ReturnPlan(PlannerResult(response))
    BY DEF CallReturns
  <1>4. call \in Operation
    BY <1>1 DEF SidecarTypeOK
  <1>5. /\ Len(inFlight') <= MaxInFlight
        /\ ExchangesAreWhole'
    <2>1. Len(inFlight) <= MaxInFlight /\ MaxInFlight \in Nat
      BY SidecarAssumption DEF SidecarTypeOK
    <2> QED
      BY <1>2, <2>1 DEF ExchangesAreWhole
  <1>6. CallIsLast'
    BY <1>1, <1>2, SidecarAssumption DEF CallIsLast, Operation
  <1>7. CASE CallErrs(call)
    <2>1. /\ UNCHANGED <<vars, advice>>
          /\ failed' = (call = "decide_continue")
      BY <1>7 DEF CallErrs
    <2>2. phase' = phase
      BY <2>1 DEF vars
    <2>3. SidecarTypeOK'
      BY <1>1, <1>2, <1>5, <2>1 DEF SidecarTypeOK
    <2>4. CallIsForCandidate'
      BY <1>1, <1>4, <2>1, <2>2, SidecarAssumption DEF CallIsForCandidate, Operation
    <2>5. HostInv' /\ ServiceAnswers' /\ AdviceIsGenuine'
      BY <1>1, <2>1, RestHost DEF ServiceAnswers, DecisionIsAnswer, AdviceIsGenuine, vars
    <2> QED
      BY <1>5, <1>6, <2>1, <2>2, <2>3, <2>4, <2>5
  <1>8. CASE call = "decide_continue" /\ ContinueResult(response) # Err
    <2>1. /\ decision' = ContinueResult(response)
          /\ phase' = "decided"
          /\ UNCHANGED <<reason, taskVars, mailVars, request, lastCheckpoint,
                         corrections, failed, advice>>
      BY <1>3, <1>8 DEF ReturnDecision
    <2>2. /\ exchange.operation = "decide_continue"
          /\ decision' = DecideContinue(exchange.continue_request)
          /\ decision' \in ContinueDecision
      BY <1>2, <1>8, <2>1, ContinueResults
    <2>3. phase = "asked" /\ ~failed
      BY <1>8 DEF CallIsForCandidate
    <2>4. HostInv'
      <3>1. TypeOK'
        BY <2>1, <2>2 DEF HostInv, TypeOK, Phases
      <3> QED
        BY <2>1, <2>3, <3>1
           DEF HostInv, RequestIsCurrent, FollowUpsAreStalls, MailboxBounded
    <2>5. inFlight' = <<>> => decision' = DecideContinue(request)
      <3>1. inFlight' = <<>> => Len(inFlight) = 1
        BY <1>2
      <3>2. inFlight' = <<>> => exchange = DecideRequest(request)
        BY <1>1, <1>2, <1>8, <3>1 DEF CallIsLast
      <3> QED
        BY <2>2, <3>2 DEF DecideRequest
    <2>6. transport = "service" => inFlight' = <<>>
      <3>1. transport = "service" => Len(inFlight) <= 1
        BY <1>1 DEF CallIsLast
      <3> QED
        BY <1>1, <1>2, <3>1
    <2>7. ServiceAnswers'
      BY <1>1, <2>1, <2>5, <2>6 DEF ServiceAnswers, DecisionIsAnswer
    <2>8. SidecarTypeOK' /\ CallIsForCandidate' /\ AdviceIsGenuine'
      BY <1>1, <1>2, <1>5, <2>1, <2>3, SidecarAssumption
         DEF SidecarTypeOK, CallIsForCandidate, AdviceIsGenuine, Operation
    <2>9. transport = "service" => Decide
      BY <2>1, <2>3, <2>5, <2>6 DEF Decide
    <2> QED
      BY <1>5, <1>6, <2>4, <2>5, <2>7, <2>8, <2>9
  <1>9. CASE call # "decide_continue" /\ PlannerResult(response) # Err
    <2>1. advice' = PlanNextAction /\ UNCHANGED <<vars, failed>>
      BY <1>3, <1>9, PlannerResults DEF ReturnPlan
    <2>2. HostInv' /\ ServiceAnswers' /\ AdviceIsGenuine'
      BY <1>1, <2>1, RestHost DEF ServiceAnswers, DecisionIsAnswer, AdviceIsGenuine, vars
    <2>3. SidecarTypeOK'
      BY <1>1, <1>2, <1>5, <2>1, PlanType DEF SidecarTypeOK
    <2>4. phase' = phase
      BY <2>1 DEF vars
    <2>5. CallIsForCandidate'
      BY <1>1, <2>1, <2>4, SidecarAssumption DEF CallIsForCandidate, Operation
    <2> QED
      BY <1>5, <1>6, <2>1, <2>2, <2>3, <2>4, <2>5
  <1> QED
    BY <1>3, <1>4, <1>7, <1>8, <1>9 DEF ReturnDecision, ReturnPlan, Operation

\* A call fails, or the sidecar loses what it has not answered.
LEMMA FailureSidecar ==
  ASSUME SidecarInv, CallFails \/ SidecarStops
  PROVE  SidecarInv' /\ UNCHANGED vars
  <1> USE DEF SidecarInv
  <1>1. UNCHANGED <<vars, transport, advice>>
    BY DEF CallFails, SidecarStops, CallErrs
  <1>2. HostInv' /\ ServiceAnswers' /\ AdviceIsGenuine'
    BY <1>1, RestHost DEF ServiceAnswers, DecisionIsAnswer, AdviceIsGenuine, vars
  <1>3. phase' = phase /\ request' = request
    BY <1>1 DEF vars
  <1>4. /\ inFlight' \in {<<>>, inFlight}
        /\ transport = "service" => inFlight' = <<>>
        /\ call' # Nil => inFlight' = <<>>
    BY DEF CallFails, SidecarStops
  <1>5. /\ inFlight \in Seq(AgentlySidecarRequest) /\ Len(inFlight) \in Nat
        /\ Len(inFlight) <= MaxInFlight /\ MaxInFlight \in Nat
    BY SidecarAssumption DEF SidecarTypeOK
  <1>6. /\ failed' \in BOOLEAN
        /\ \/ (failed' => call = "decide_continue") /\ call' = Nil
           \/ failed' = failed /\ call' = call
    BY DEF CallFails, SidecarStops, CallErrs, SidecarTypeOK
  <1>7. SidecarTypeOK'
    <2>1. inFlight' \in Seq(AgentlySidecarRequest) /\ Len(inFlight') <= MaxInFlight
      <3>1. CASE inFlight' = <<>>
        <4>1. inFlight' \in Seq(AgentlySidecarRequest) /\ Len(inFlight') = 0
          BY <3>1
        <4> QED
          BY <1>5, <4>1
      <3>2. CASE inFlight' = inFlight
        BY <1>5, <3>2
      <3> QED
        BY <1>4, <3>1, <3>2
    <2>2. call' \in Operation \cup {Nil}
      BY <1>6 DEF SidecarTypeOK
    <2> QED
      BY <1>1, <1>6, <2>1, <2>2 DEF SidecarTypeOK
  <1>8. CallIsLast'
    BY <1>1, <1>4, <1>5, SidecarAssumption DEF CallIsLast, Operation
  <1>9. ExchangesAreWhole'
    BY <1>4, <1>5 DEF ExchangesAreWhole
  <1>10. CallIsForCandidate'
    BY <1>3, <1>6, SidecarAssumption DEF CallIsForCandidate, Operation
  <1> QED
    BY <1>1, <1>2, <1>7, <1>8, <1>9, <1>10

\* After an error the local orchestrator answers, or nobody.
LEMMA SettleSidecar ==
  ASSUME SidecarInv, SettleLocally
  PROVE  SidecarInv'
  <1> USE DEF SidecarInv
  <1>1. /\ Decide \/ Withdraw
        /\ failed /\ failed' = FALSE /\ call = Nil
        /\ UNCHANGED <<transport, call, inFlight, advice>>
    BY DEF SettleLocally, CallIsForCandidate
  <1>2. HostInv'
    BY <1>1, DecideHost, RestHost
  <1>3. SidecarTypeOK' /\ ExchangesAreWhole' /\ AdviceIsGenuine'
    BY <1>1 DEF SidecarTypeOK, ExchangesAreWhole, AdviceIsGenuine
  <1>4. CallIsLast' /\ CallIsForCandidate'
    BY <1>1, SidecarAssumption DEF CallIsLast, CallIsForCandidate, Operation
  <1>5. ServiceAnswers'
    BY <1>1 DEF ServiceAnswers, DecisionIsAnswer, Decide, Withdraw
  <1> QED
    BY <1>2, <1>3, <1>4, <1>5

LEMMA NextSidecar ==
  ASSUME SidecarInv, [SidecarNext]_sessionVars
  PROVE  SidecarInv'
  <1>1. CASE UNCHANGED sessionVars
    <2>1. UNCHANGED vars /\ UNCHANGED callVars
      BY <1>1 DEF sessionVars
    <2>2. HostInv' /\ ServiceAnswers'
      BY <2>1, RestHost DEF SidecarInv, ServiceAnswers, DecisionIsAnswer, vars, callVars
    <2> QED
      BY <2>1, <2>2 DEF SidecarInv, callVars, vars, SidecarTypeOK, CallIsLast,
         CallIsForCandidate, ExchangesAreWhole, AdviceIsGenuine, DecideRequest
  <1> QED
    BY <1>1, HostSidecar, InvokeSidecar, ReturnSidecar, FailureSidecar, SettleSidecar
       DEF SidecarNext, CallStep

\* Between any two steps the last exchange in flight is the one under call, only
\* an undecided candidate has a failed call, no draft of a sidecar that failed is
\* taken for a plan and the session itself is in order.
THEOREM SidecarCorrect == SidecarSpec => []SidecarInv
  BY InitSidecar, NextSidecar, PTL DEF SidecarSpec

-----------------------------------------------------------------------------
(* What the answers are worth. *)

\* An answer given to an earlier candidate leaves a response unread behind it.
THEOREM StaleDecisionsLeaveTrace == SidecarSpec => StaleDecisionLeavesTrace
  <1>1. SidecarInv /\ [SidecarNext]_sessionVars =>
          [(phase = "asked" /\ phase' = "decided" /\ decision' # DecideContinue(request))
               => inFlight' # <<>>]_sessionVars
    <2> SUFFICES ASSUME SidecarInv, SidecarNext, phase = "asked", phase' = "decided",
                        decision' # DecideContinue(request)
                 PROVE  inFlight' # <<>>
      OBVIOUS
    <2>1. ~HostStep
      BY DEF HostStep, HostAlone, Turn, UsefulTurn, IdleTurn, FailedTurn, PartialTurn,
         EndTurn, Arrive, ArriveInput, ArriveWakeup, GoIdle, Propose, StartTurn,
         QueueOnly, QueueNothing, HandOff
    <2>2. ~SettleLocally
      BY DEF SettleLocally, Decide, Withdraw
    <2>3. ~(AskSidecar \/ PlanWithSidecar \/ CallFails \/ SidecarStops)
      BY DEF AskSidecar, PlanWithSidecar, Invoke, CallFails, SidecarStops, CallErrs, vars
    <2> QED
      BY <2>1, <2>2, <2>3, ReturnSidecar DEF SidecarNext, CallStep
  <1> QED
    BY <1>1, SidecarCorrect, PTL DEF SidecarSpec, StaleDecisionLeavesTrace

\* Over a service the host never meets an answer that was not for it.
LEMMA ServiceStep ==
  ASSUME SidecarInv, [SidecarNext]_sessionVars, transport = "service"
  PROVE  [Next]_vars
  <1>1. CASE HostStep
    <2>1. ~QueueNothing
      BY AnswerMode DEF SidecarInv, ServiceAnswers, DecisionIsAnswer, QueueNothing,
         HostInv, RequestIsCurrent
    <2> QED
      BY <1>1, <2>1 DEF HostStep, HostAlone, Next, Obey
  <1>2. CASE AskSidecar \/ PlanWithSidecar
    BY <1>2 DEF AskSidecar, PlanWithSidecar, Invoke, CallErrs
  <1>3. CASE CallReturns
    BY <1>3, ReturnSidecar DEF Next
  <1>4. CASE CallFails \/ SidecarStops
    BY <1>4, FailureSidecar
  <1>5. CASE SettleLocally
    BY <1>5 DEF SettleLocally, Next
  <1>6. CASE UNCHANGED sessionVars
    BY <1>6 DEF sessionVars
  <1> QED
    BY <1>1, <1>2, <1>3, <1>4, <1>5, <1>6 DEF SidecarNext, CallStep

\* Over a service the session takes steps of OrchestratorSession only, whatever
\* responses are lost, late, in error or empty.
THEOREM ServicesKeepSession == SidecarSpec => ServiceKeepsSession
  <1>1. SidecarInv /\ [SidecarNext]_sessionVars =>
          [transport = "service" => [Next]_vars]_sessionVars
    BY ServiceStep
  <1>2. SidecarInit => Init
    BY DEF SidecarInit
  <1> QED
    BY <1>1, <1>2, SidecarCorrect, PTL DEF SidecarSpec, ServiceKeepsSession

\* The transport of a session stays what it is.
LEMMA TransportStays ==
  ASSUME [SidecarNext]_sessionVars
  PROVE  transport' = transport
  BY DEF SidecarNext, HostStep, callVars, CallStep, AskSidecar, PlanWithSidecar,
     Invoke, CallReturns, CallFails, SidecarStops, SettleLocally, sessionVars

\* A session that starts over a service implements OrchestratorSession to its
\* end, and what is proved of that holds of it.
THEOREM ServiceImplementsSession ==
  SidecarSpec /\ transport = "service" => Spec
  <1>1. SidecarInv /\ [SidecarNext]_sessionVars /\ transport = "service" => [Next]_vars
    BY ServiceStep
  <1>2. transport = "service" /\ [SidecarNext]_sessionVars => (transport = "service")'
    BY TransportStays
  <1>3. SidecarInit => Init
    BY DEF SidecarInit
  <1> QED
    BY <1>1, <1>2, <1>3, SidecarCorrect, PTL DEF SidecarSpec, Spec

\* Over a service a session is bounded as if the orchestrator were local: on a
\* failure that stays open and after a compaction, with nothing handed off too
\* early or without a checkpoint.
THEOREM ServiceKeepsBounds ==
  SidecarSpec /\ transport = "service" =>
      [](/\ FailureStallBounded
         /\ PostCompactionStallBounded
         /\ HandoffNeedsStall
         /\ HandoffCheckpointed)
  BY ServiceImplementsSession, FailureStallsBounded, PostCompactionStallsBounded,
     HandoffsNeedStall, OrchestratorHandoffsCheckpointed, PTL

\* Over a service a session that continues only on follow-ups of its own cannot
\* spin, although calls fail and plans are asked for in between.
THEOREM ServiceEndsFollowUps ==
  ASSUME Reasons \subseteq FollowUpReasons
  PROVE  SidecarSpec /\ transport = "service" => []FollowUpsBounded /\ FollowUpsEnd
  BY ServiceImplementsSession, FollowUpLoopsBounded, FollowUpTurnsEnd

-----------------------------------------------------------------------------
(* Wakeups, over any transport. *)

\* An answer hands off only with the wakeups that wait, even if it was given to
\* an earlier candidate.
HandoffDowngrades ==
    (phase = "decided" /\ decision.mode = "Handoff") => decision.downgrade_trigger_turn

LEMMA InitDowngrades == SidecarInit => HandoffDowngrades
  BY DEF SidecarInit, Init, HandoffDowngrades

LEMMA ReturnDowngrades ==
  ASSUME SidecarInv, HandoffDowngrades, CallReturns
  PROVE  HandoffDowngrades'
  <1>1. PICK response \in Responses(Head(inFlight)) :
          IF call = "decide_continue"
          THEN ReturnDecision(ContinueResult(response))
          ELSE ReturnPlan(PlannerResult(response))
    BY DEF CallReturns
  <1>2. CASE UNCHANGED vars
    BY <1>2 DEF vars, HandoffDowngrades
  <1>3. CASE call = "decide_continue" /\ ContinueResult(response) # Err
    <2>1. Whole(Head(inFlight))
      BY EndsOfFlight DEF CallReturns
    <2>2. decision' = DecideContinue(Head(inFlight).continue_request)
      BY <1>1, <1>3, <2>1, ContinueResults DEF ReturnDecision
    <2> QED
      BY <2>2, AnswerMode DEF HandoffDowngrades
  <1> QED
    BY <1>1, <1>2, <1>3 DEF ReturnDecision, ReturnPlan, CallErrs

LEMMA NextDowngrades ==
  ASSUME SidecarInv, HandoffDowngrades, [SidecarNext]_sessionVars
  PROVE  HandoffDowngrades'
  <1>1. CASE HostStep
    BY <1>1 DEF HandoffDowngrades, HostStep, HostAlone, Turn, UsefulTurn, IdleTurn,
       FailedTurn, PartialTurn, EndTurn, Arrive, ArriveInput, ArriveWakeup, GoIdle,
       Propose, StartTurn, QueueOnly, QueueNothing, HandOff
  <1>2. CASE AskSidecar \/ PlanWithSidecar
    BY <1>2 DEF HandoffDowngrades, AskSidecar, PlanWithSidecar, Invoke, CallErrs, vars
  <1>3. CASE CallReturns
    BY <1>3, ReturnDowngrades
  <1>4. CASE CallFails \/ SidecarStops
    BY <1>4, FailureSidecar DEF HandoffDowngrades, vars
  <1>5. CASE SettleLocally
    BY <1>5, AnswerMode DEF HandoffDowngrades, SettleLocally, Decide, Withdraw
  <1>6. CASE UNCHANGED sessionVars
    BY <1>6 DEF HandoffDowngrades, sessionVars, vars
  <1> QED
    BY <1>1, <1>2, <1>3, <1>4, <1>5, <1>6 DEF SidecarNext, CallStep

LEMMA SidecarWakeups ==
  ASSUME SidecarInv, HandoffDowngrades, [SidecarNext]_sessionVars
  PROVE  [WakeupLedger!Next]_WakeupLedger!vars
  <1>1. CASE HostStep /\ (StartTurn \/ HandOff \/ (QueueOnly /\ armed > 0))
    <2>1. Obey /\ (QueueOnly => armed > 0)
      BY <1>1 DEF Obey, StartTurn, HandOff, QueueOnly
    <2>2. HandOff => decision.downgrade_trigger_turn
      BY DEF HandOff, HandoffDowngrades
    <2> QED
      BY <2>1, <2>2, ObeyWakeups DEF SidecarInv
  <1>2. CASE QueueNothing
    BY <1>2 DEF QueueNothing, WakeupLedger!vars
  <1>3. CASE UNCHANGED vars
    BY <1>3, RestWakeups
  <1>4. CASE CallReturns
    <2>1. \/ UNCHANGED vars
          \/ phase = "asked" /\ phase' = "decided" /\ UNCHANGED <<armed, queued>>
      BY <1>4 DEF CallReturns, ReturnDecision, ReturnPlan, CallErrs,
         SidecarInv, CallIsForCandidate
    <2> QED
      BY <1>3, <2>1 DEF WakeupLedger!vars
  <1>5. CASE SettleLocally
    BY <1>5, RestWakeups DEF SettleLocally
  <1>6. CASE AskSidecar \/ PlanWithSidecar \/ CallFails \/ SidecarStops
             \/ UNCHANGED sessionVars
    <2>1. UNCHANGED vars
      BY <1>6 DEF AskSidecar, PlanWithSidecar, Invoke, CallErrs, CallFails,
         SidecarStops, sessionVars
    <2> QED
      BY <1>3, <2>1
  <1> QED
    BY <1>1, <1>2, <1>4, <1>5, <1>6, RestWakeups
       DEF SidecarNext, CallStep, HostStep, HostAlone

\* Whatever the transport, no wakeup is lost or used twice and none is left that
\* could start a turn after a handoff, even when decisions are stale.
THEOREM SidecarKeepsWakeups == SidecarSpec => KeepsWakeups
  <1>1. SidecarInit => WakeupLedger!Init
    BY InitWakeups DEF SidecarInit
  <1> QED
    BY <1>1, InitDowngrades, NextDowngrades, SidecarWakeups, SidecarCorrect, PTL
       DEF SidecarSpec, KeepsWakeups, WakeupLedger!Spec

-----------------------------------------------------------------------------
(* Candidates that are settled. *)

\* No plan is asked for while a candidate is undecided.
NoPlanForCandidate == phase = "asked" => call # "plan_next_action"

LEMMA NextNoPlan ==
  ASSUME SidecarInv, NoPlanForCandidate, [SidecarNext]_sessionVars
  PROVE  NoPlanForCandidate'
  <1>1. CASE HostStep
    <2>1. UNCHANGED call /\ (call # Nil => UNCHANGED phase)
      BY <1>1 DEF HostStep, callVars, Arrive, ArriveInput, ArriveWakeup
    <2> QED
      BY <2>1, SidecarAssumption DEF NoPlanForCandidate, Operation
  <1>2. CASE AskSidecar \/ PlanWithSidecar
    BY <1>2, SidecarAssumption DEF AskSidecar, PlanWithSidecar, Invoke, CallErrs,
       DecideRequest, PlanRequest, Operation, vars, NoPlanForCandidate
  <1>3. CASE CallReturns \/ CallFails
    BY <1>3, SidecarAssumption DEF CallReturns, CallFails, Operation, NoPlanForCandidate
  <1>4. CASE SidecarStops \/ UNCHANGED sessionVars
    BY <1>4 DEF SidecarStops, sessionVars, callVars, vars, NoPlanForCandidate
  <1>5. CASE SettleLocally
    BY <1>5 DEF SettleLocally, Decide, Withdraw, NoPlanForCandidate
  <1> QED
    BY <1>1, <1>2, <1>3, <1>4, <1>5 DEF SidecarNext, CallStep

\* A candidate whose call has been made, one whose call has failed, and one whose
\* call waits for what was lost.
Called == phase = "asked" /\ (call # Nil \/ failed)
Refused == phase = "asked" /\ failed
Hung == phase = "asked" /\ CallHangs

\* A candidate goes through the stages Called and Refused in this order, every
\* step that settles takes it one further, and only a failing call ends a hang.
LEMMA StagesOfCandidate ==
  ASSUME SidecarInv, NoPlanForCandidate, [SidecarNext]_sessionVars, phase = "asked"
  PROVE  \/ phase' # "asked"
         \/ /\ Settle => Called' /\ ~Refused /\ (Called => Refused')
            /\ Called => Called'
            /\ Refused => Refused'
            /\ Hung => Hung' \/ Refused'
  <1> SUFFICES ASSUME phase' = "asked"
               PROVE  /\ Settle => Called' /\ ~Refused /\ (Called => Refused')
                      /\ Called => Called'
                      /\ Refused => Refused'
                      /\ Hung => Hung' \/ Refused'
    OBVIOUS
  <1> USE SidecarAssumption DEF Called, Refused, Hung, CallHangs
  <1>1. call \in {Nil, "decide_continue"} /\ (failed => call = Nil)
    BY DEF SidecarInv, SidecarTypeOK, Operation, NoPlanForCandidate, CallIsForCandidate
  <1>2. CASE AskSidecar
    BY <1>2 DEF AskSidecar, Invoke, CallErrs, DecideRequest, Operation
  <1>3. CASE CallReturns
    <2>1. call = "decide_continue" /\ ~failed /\ inFlight # <<>>
      BY <1>1, <1>3 DEF CallReturns
    <2>2. failed'
      BY <1>3, <2>1 DEF CallReturns, ReturnDecision, CallErrs
    <2> QED
      BY <2>1, <2>2
  <1>4. CASE CallFails
    <2>1. call = "decide_continue" /\ ~failed /\ failed'
      BY <1>1, <1>4 DEF CallFails, CallErrs
    <2> QED
      BY <2>1
  <1>5. ~SettleLocally
    BY DEF SettleLocally, Decide, Withdraw
  <1>6. CASE HostStep \/ SidecarStops \/ UNCHANGED sessionVars
    <2>1. UNCHANGED <<call, failed>> /\ inFlight' \in {inFlight, <<>>}
      BY <1>6 DEF HostStep, SidecarStops, sessionVars, callVars
    <2>2. ~Settle
      <3>1. ~AskSidecar /\ ~CallReturns
        BY <1>1, <2>1 DEF AskSidecar, Invoke, CallErrs, CallReturns,
           DecideRequest, Operation
      <3> QED
        BY <1>5, <3>1 DEF Settle
    <2> QED
      BY <2>1, <2>2
  <1>7. ~PlanWithSidecar
    BY DEF PlanWithSidecar
  <1> QED
    BY <1>2, <1>3, <1>4, <1>5, <1>6, <1>7 DEF SidecarNext, CallStep, Settle

\* A candidate that stayed undecided without a hang would be worked at without
\* end: this is all that is taken from the fairness.  It says nothing of a call
\* whose response was lost, and of no call that it fails.
CallsGoOn == <>[](phase = "asked" /\ ~CallHangs) => []<><<Settle>>_sessionVars

\* A candidate that stays undecided for ever has a call that waits for a lost
\* response: whatever else the sidecar does, three steps settle the candidate.
THEOREM UndecidedOnlyOnLoss == SidecarSpec /\ CallsGoOn => UndecidedOnlyIfLost
  <1> DEFINE Asked == phase = "asked"
             Hangs == CallHangs
  <1>1. SidecarInit => NoPlanForCandidate
    BY SidecarAssumption DEF SidecarInit, NoPlanForCandidate, Operation
  <1>2. SidecarSpec => [](SidecarInv /\ NoPlanForCandidate)
    BY <1>1, NextNoPlan, SidecarCorrect, PTL DEF SidecarSpec
  <1>3. SidecarInv /\ NoPlanForCandidate /\ [SidecarNext]_sessionVars /\ Asked
          /\ <<Settle>>_sessionVars
          => ~Asked' \/ (Called' /\ ~Refused /\ (Called => Refused'))
    BY StagesOfCandidate
  <1>4. SidecarInv /\ NoPlanForCandidate /\ [SidecarNext]_sessionVars /\ Asked
          => ~Asked' \/ /\ (Called => Called') /\ (Refused => Refused')
                        /\ (Hangs => Hangs' \/ Refused')
    BY StagesOfCandidate DEF Hung
  <1>5. SidecarInv => ~(Refused /\ Hangs)
    BY SidecarAssumption
       DEF SidecarInv, CallIsForCandidate, Refused, CallHangs, Operation
  <1>6. CallsGoOn => (<>[](Asked /\ ~Hangs) => []<><<Settle>>_sessionVars)
    BY DEF CallsGoOn
  <1>7. (<>[]Asked => <>[]Hangs) => UndecidedOnlyIfLost
    BY DEF UndecidedOnlyIfLost
  <1> HIDE DEF Asked, Hangs
  <1>8. SidecarSpec /\ (<>[](Asked /\ ~Hangs) => []<><<Settle>>_sessionVars)
          => (<>[]Asked => <>[]Hangs)
    BY <1>2, <1>3, <1>4, <1>5, PTL DEF SidecarSpec
  <1> QED
    BY <1>6, <1>7, <1>8
=============================================================================
