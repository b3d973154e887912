------------------------ MODULE MCOrchestratorSession ------------------------
(* Small instances of OrchestratorSession for TLC. *)
EXTENDS OrchestratorSession

MCFailures == {"ToolFailure"}

\* Turns that are started from outside, not by a follow-up of the model.
MCOutsideReasons == {"PendingInput", "TriggerTurnWakeup"}
=============================================================================
