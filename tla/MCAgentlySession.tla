-------------------------- MODULE MCAgentlySession --------------------------
(* Small instances of AgentlySession for TLC. *)
EXTENDS AgentlySession
=============================================================================
