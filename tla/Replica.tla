------------------------------ MODULE Replica ------------------------------
(***************************************************************************)
(* What the fallback promises: it holds one state the source was in,       *)
(* whole, and never goes back to an older one.                             *)
(***************************************************************************)
EXTENDS Naturals, Sequences

CONSTANTS States, Initial

VARIABLES log,       \* the states of the source so far
          at,        \* which of them is shown
          shown

replicaVars == <<log, at, shown>>

Init == log = <<Initial>> /\ at = 1 /\ shown = Initial

Change ==
    /\ \E s \in States : log' = Append(log, s)
    /\ UNCHANGED <<at, shown>>

Refresh ==
    /\ at' \in at..Len(log)
    /\ shown' = log[at']
    /\ UNCHANGED log

Next == Change \/ Refresh

Spec == Init /\ [][Next]_replicaVars
=============================================================================
