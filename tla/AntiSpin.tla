------------------------------ MODULE AntiSpin ------------------------------
(***************************************************************************)
(* What a host that obeys Muldex is promised, with no word of snapshots or *)
(* rules: between two pieces of work at most StallLimit turns go by that   *)
(* change nothing, at most CorrectionLimit corrections are tried for one   *)
(* failure, and a session that was stopped stays stopped.                  *)
(***************************************************************************)
EXTENDS Integers

CONSTANTS StallLimit, CorrectionLimit       \* natural numbers

VARIABLES
    running,        \* the session has not been handed off
    stalls,         \* turns since the last piece of work
    corrections     \* corrections tried since the count was last cleared

vars == <<running, stalls, corrections>>

Init == running = TRUE /\ stalls = 0 /\ corrections = 0

\* A turn changes something.  It may settle the failure being corrected.
Work ==
    /\ running
    /\ stalls' = 0
    /\ corrections' \in {0, corrections}
    /\ UNCHANGED running

\* A turn changes nothing.
Stall ==
    /\ running
    /\ stalls < StallLimit
    /\ stalls' = stalls + 1
    /\ UNCHANGED <<running, corrections>>

\* The host is told to correct a failure.
Correct ==
    /\ running
    /\ corrections < CorrectionLimit
    /\ corrections' = corrections + 1
    /\ UNCHANGED <<running, stalls>>

\* The session is handed to an operator.
Stop ==
    /\ running
    /\ running' = FALSE
    /\ UNCHANGED <<stalls, corrections>>

Next == Work \/ Stall \/ Correct \/ Stop

Spec == Init /\ [][Next]_vars
=============================================================================
