--------------------------- MODULE DecisionService ---------------------------
(***************************************************************************)
(* What a host may expect of a command that decides: one answer to a call, *)
(* and the one that its input deserved at some moment of the call.         *)
(* Nothing is said of processes, files, snapshot kinds or output.          *)
(***************************************************************************)
CONSTANTS
    Answers,    \* the answers there are
    Nil         \* no answer

VARIABLES
    offered,    \* the answer the input deserves as it is now, or Nil
    answer      \* the answer to the call, or Nil

vars == <<offered, answer>>

Init ==
    /\ offered \in Answers \cup {Nil}
    /\ answer = Nil

\* The input changes, also while a call runs.
Change ==
    /\ offered' \in Answers \cup {Nil}
    /\ UNCHANGED answer

Reply ==
    /\ offered # Nil
    /\ answer = Nil
    /\ answer' = offered
    /\ UNCHANGED offered

\* The call is over and the host makes the next one.
Forget ==
    /\ answer' = Nil
    /\ UNCHANGED offered

Next == Change \/ Reply \/ Forget

Spec == Init /\ [][Next]_vars
=============================================================================
