---------------------------- MODULE OutageAlerts ----------------------------
(***************************************************************************)
(* What the alerting of vexboard promises to somebody who only sees the    *)
(* notifications: for every service they form outages, each opened by one  *)
(* "service.down", possibly repeated while it lasts, and closed by at most *)
(* one "service.up".  The state of an outage is kept in memory, so a       *)
(* restart forgets it and the next outage starts afresh.                   *)
(***************************************************************************)
EXTENDS Naturals

CONSTANT Services

VARIABLES
  phase,  \* phase[s]: is an outage of s announced and not yet closed?
  said    \* said[s]: the number of alerts raised for s, and the last one

avars == <<phase, said>>

Say(s, kind) == said' = [said EXCEPT ![s] = [n |-> @.n + 1, kind |-> kind]]

Init ==
  /\ phase = [s \in Services |-> "quiet"]
  /\ said  = [s \in Services |-> [n |-> 0, kind |-> "none"]]

Raise(s) ==
  /\ phase[s] = "quiet"
  /\ phase' = [phase EXCEPT ![s] = "alerting"]
  /\ Say(s, "service.down")

Repeat(s) ==
  /\ phase[s] = "alerting"
  /\ Say(s, "service.down")
  /\ UNCHANGED phase

Recover(s) ==
  /\ phase[s] = "alerting"
  /\ phase' = [phase EXCEPT ![s] = "quiet"]
  /\ Say(s, "service.up")

Reboot ==
  /\ phase' = [s \in Services |-> "quiet"]
  /\ said' = [s \in Services |-> [said[s] EXCEPT !.kind = "none"]]

Next ==
  \/ \E s \in Services : Raise(s) \/ Repeat(s) \/ Recover(s)
  \/ Reboot

Spec == Init /\ [][Next]_avars
=============================================================================
