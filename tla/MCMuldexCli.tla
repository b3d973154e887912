----------------------------- MODULE MCMuldexCli -----------------------------
(* Small instances of MuldexCli for TLC. *)
EXTENDS MuldexCli

MCRequest(stalls) ==
    [HealthyRequest EXCEPT !.progress.no_progress_iteration_count = stalls]

MCSignal(stalls) ==
    [completed_steps |-> 1,
     no_progress_iteration_count |-> stalls,
     last_recovery_reason |-> None,
     last_recovery_had_progress |-> TRUE,
     self_correction_active |-> FALSE,
     self_correction_attempt_count |-> 0,
     recent_compaction_count |-> 0,
     last_compaction_had_state_change |-> TRUE]

MCContent(fields, stalls) ==
    [fields |-> fields,
     signal |-> MCSignal(stalls),
     live |-> [pending_input_present |-> stalls > 0, auto_compact_window_number |-> 0],
     request |-> MCRequest(stalls)]

\* A stalled and a healthy signal snapshot, one that lacks a field, one that is
\* a live snapshot as well, a live and a bootstrap snapshot, and a request.
MCContents ==
    {MCContent({"thread_id", "turn_id", "signal"}, 0),
     MCContent({"thread_id", "turn_id", "signal"}, 3),
     MCContent({"thread_id", "signal"}, 3),
     MCContent({"thread_id", "turn_id", "signal", "live"}, 3),
     MCContent({"thread_id", "live"}, 0),
     MCContent({"thread_id", "turn_id", "bootstrap"}, 0),
     MCContent({"request"}, 3)}

MCCommand(name) ==
    [name |-> name,
     scenario |-> "Healthy",
     objective |-> TRUE,
     objective_file |-> FALSE,
     flags |-> [no_progress_iterations |-> 3, recoverable_failure |-> FALSE],
     print_request |-> FALSE]

\* Every command and scenario, and every way to name an objective.
MCCommands ==
    {[MCCommand("decide-sample") EXCEPT !.scenario = scenario] : scenario \in Scenario}
    \cup {MCCommand("decide-file"), MCCommand("decide-codex-snapshot")}
    \cup {[MCCommand("decide-workspace") EXCEPT !.objective = given,
                                                !.objective_file = named,
                                                !.print_request = shown] :
             given \in BOOLEAN, named \in BOOLEAN, shown \in BOOLEAN}
=============================================================================
