--------------------------- MODULE AgentlySidecar ---------------------------
(***************************************************************************)
(* The messages between Muldex and an Agently sidecar, what                *)
(* AgentlyOrchestrator makes of a response (agently.rs) and what a sidecar *)
(* that decides like DeterministicOrchestrator (policy.rs) answers.  A     *)
(* response names neither the request nor the operation it answers, and    *)
(* the client does not look at what a decision says.  An operator marked   *)
(* "Mutant" is the next definition with a mistake in it.                   *)
(***************************************************************************)
EXTENDS DeterministicPolicy

CONSTANTS
    Nil,    \* an Option that is absent
    Err     \* an OrchestratorError

Operation == {"decide_continue", "plan_next_action"}

\* A planner request is data for the planner only and is left out.
AgentlySidecarRequest ==
    [operation : Operation, continue_request : ContinueRequest \cup {Nil}]

DecideRequest(request) ==
    [operation |-> "decide_continue", continue_request |-> request]

PlanRequest == [operation |-> "plan_next_action", continue_request |-> Nil]

AgentlySidecarResponse ==
    [continue_decision : ContinueDecision \cup {Nil},
     planner_response : PlannerResponse \cup {Nil},
     error : BOOLEAN]

\* Mutant: a decision is taken although an error stands beside it.
ContinueResultDespiteError(response) ==
    IF response.continue_decision = Nil THEN Err ELSE response.continue_decision

\* Mutant: a response without a decision is unwrapped all the same.
ContinueResultUnwrapped(response) ==
    IF response.error THEN Err ELSE response.continue_decision

\* What decide_continue makes of a response: the error goes first.
ContinueResult(response) ==
    IF response.error \/ response.continue_decision = Nil
    THEN Err ELSE response.continue_decision

\* Mutant: a plan is taken although an error stands beside it.
PlannerResultDespiteError(response) ==
    IF response.planner_response = Nil THEN Err ELSE response.planner_response

\* The same for plan_next_action.
PlannerResult(response) ==
    IF response.error \/ response.planner_response = Nil
    THEN Err ELSE response.planner_response

-----------------------------------------------------------------------------
\* DeterministicOrchestrator::plan_next_action: the first open question, in the
\* next turn, whatever the request says.
PlanNextAction == [recommended_mode |-> "NextTurn"]

NoResponse ==
    [continue_decision |-> Nil, planner_response |-> Nil, error |-> FALSE]

\* A sidecar that decides as the local orchestrator does.
PolicySidecar(exchange) ==
    IF exchange.operation = "decide_continue"
    THEN [NoResponse EXCEPT
             !.continue_decision = DecideContinue(exchange.continue_request)]
    ELSE [NoResponse EXCEPT !.planner_response = PlanNextAction]

\* A continuation an Agently workflow may have drafted before it failed.
DraftDecision ==
    [allow_continue |-> TRUE,
     mode |-> "NextTurn",
     suppress_duplicate_injection |-> FALSE,
     downgrade_trigger_turn |-> FALSE,
     request_compaction |-> FALSE,
     request_handoff_summary |-> FALSE,
     request_checkpoint |-> FALSE,
     enter_self_correction |-> FALSE]

\* A sidecar that fails half-way reports the error beside what it had drafted.
HalfWay ==
    [continue_decision |-> DraftDecision,
     planner_response |-> [recommended_mode |-> "Stop"],
     error |-> TRUE]
=============================================================================
