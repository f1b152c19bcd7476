----------------------------- MODULE SeatBoard -----------------------------
(***************************************************************************)
(* What a recruitment post promises its participants, with no requests,    *)
(* sessions or applications in sight: a number of seats, each granted to   *)
(* one user at a time, never more than there are.                          *)
(***************************************************************************)
EXTENDS Naturals, FiniteSets

CONSTANTS Users, MaxCapacity

VARIABLES listed,    \* the post can be found
          members,   \* the users with a seat
          seats

seatVars == <<listed, members, seats>>

Init == ~listed /\ members = {} /\ seats = 1

Publish(n) == ~listed /\ listed' /\ seats' = n /\ UNCHANGED members

Admit(u) ==
    /\ listed /\ u \notin members
    /\ Cardinality(members) < seats
    /\ members' = members \cup {u}
    /\ UNCHANGED <<listed, seats>>

Leave(u) ==
    /\ members' = members \ {u}
    /\ UNCHANGED <<listed, seats>>

Resize(n) ==
    /\ listed /\ Cardinality(members) <= n
    /\ seats' = n
    /\ UNCHANGED <<listed, members>>

Remove == listed /\ ~listed' /\ members' = {} /\ seats' = 1

Next ==
    \/ \E n \in 1..MaxCapacity : Publish(n) \/ Resize(n)
    \/ \E u \in Users : Admit(u) \/ Leave(u)
    \/ Remove

Spec == Init /\ [][Next]_seatVars
=============================================================================
