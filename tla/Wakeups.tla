------------------------------- MODULE Wakeups -------------------------------
(***************************************************************************)
(* What a session does with the mailbox items that may start a turn, with  *)
(* no word of candidates, decisions or sidecars: each starts at most one   *)
(* turn or loses the right to, none vanishes, and a session that was       *)
(* stopped keeps them all and is woken by none.                            *)
(***************************************************************************)
EXTENDS Integers

VARIABLES
    open,       \* the session has not been handed off
    armed,      \* items that may start a turn
    queued      \* items that may not any more

vars == <<open, armed, queued>>

Init == open = TRUE /\ armed = 0 /\ queued = 0

Arrive ==
    /\ open
    /\ armed' = armed + 1
    /\ UNCHANGED <<open, queued>>

\* An item starts a turn and is gone.
Wake ==
    /\ open
    /\ armed > 0
    /\ armed' = armed - 1
    /\ UNCHANGED <<open, queued>>

\* An item loses the right to start a turn.
Park ==
    /\ open
    /\ armed > 0
    /\ armed' = armed - 1
    /\ queued' = queued + 1
    /\ UNCHANGED open

\* All lose it when the session is stopped.
Stop ==
    /\ open
    /\ open' = FALSE
    /\ armed' = 0
    /\ queued' = queued + armed

Next == Arrive \/ Wake \/ Park \/ Stop

Spec == Init /\ [][Next]_vars
=============================================================================
