---------------------------- MODULE OneTimeGrant ----------------------------
(***************************************************************************)
(* What the bootstrap of PAM mode promises: at most one user ever is the   *)
(* implicit admin, and is told so every time it asks.                      *)
(***************************************************************************)
CONSTANTS Users, Nobody

VARIABLES
  winner,  \* the implicit admin
  told     \* the users told that they are

gvars == <<winner, told>>

Init == winner = Nobody /\ told = {}

(* The winner is fixed before anybody is told.                             *)
Elect(u) ==
  /\ winner = Nobody
  /\ winner' = u
  /\ UNCHANGED told

Tell(u) ==
  /\ winner = u
  /\ told' = told \cup {u}
  /\ UNCHANGED winner

Next == \E u \in Users : Elect(u) \/ Tell(u)

Spec == Init /\ [][Next]_gvars
=============================================================================
