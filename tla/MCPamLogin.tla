----------------------------- MODULE MCPamLogin -----------------------------
(* PAM logins on a small instance: two users, and a list that is empty or  *)
(* names one of them.  Three logins in flight: one that claims, one by the *)
(* same user and one by the other.                                         *)
EXTENDS PamLogin, TLC

CONSTANTS alice, bob

MCUsers == {alice, bob}
MCLists == {{}, {alice}}

MCSymmetry == Permutations(Reqs)
=============================================================================
