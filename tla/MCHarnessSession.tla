-------------------------- MODULE MCHarnessSession --------------------------
(* Small instances of HarnessSession for TLC. *)
EXTENDS HarnessSession

\* Small limits, one below the other, so that each can be the one that ends a
\* session.
MCSmallPolicy ==
    [no_progress_limit |-> 2, repeated_compaction_limit |-> 3,
     self_correction_limit |-> 1, request_checkpoint_before_handoff |-> TRUE]

\* A policy that allows no stall, compaction or correction at all.
MCZeroPolicy ==
    [no_progress_limit |-> 0, repeated_compaction_limit |-> 0,
     self_correction_limit |-> 0, request_checkpoint_before_handoff |-> FALSE]

MCFailures == {"ToolFailure", "ContextPressure"}
=============================================================================
