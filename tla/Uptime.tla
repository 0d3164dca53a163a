------------------------------- MODULE Uptime -------------------------------
(***************************************************************************)
(* The incidents of a service, derived from its probe history              *)
(* (compute_uptime_summary and derive_incidents of probe/uptime.rs).       *)
(*                                                                         *)
(* points is that history, oldest first, of records with a status and an   *)
(* age.                                                                    *)
(***************************************************************************)
EXTENDS Naturals, SequencesExt

CONSTANT None

ASSUME UptimeAssumption == None \notin [since : Nat, until : {None}, count : Nat]

(* The scan: the incidents that have ended, and the one that has not.      *)
Began == [done |-> << >>, open |-> None]

(* Mutant: the incident that has ended stays open.                         *)
StaysOpen(open) == open

(* An incident that has ended is no longer open.                           *)
Closed(open) == None

Scan(seen, point) ==
  LET down == point.status # "up"
      open == seen.open
  IN  [done |-> IF open # None /\ ~down THEN Append(seen.done, [open EXCEPT !.until = point.age])
                ELSE seen.done,
       open |-> IF down /\ open = None THEN [since |-> point.age, until |-> None, count |-> 1]
                ELSE IF down THEN [open EXCEPT !.count = @ + 1]
                ELSE Closed(open)]

(* What the scan has seen after each point.                                *)
Scanned(points) ==
  LET scanned[k \in 0 .. Len(points)] ==
        IF k = 0 THEN Began ELSE Scan(scanned[k - 1], points[k])
  IN  scanned

(* derive_incidents: the latest first.                                     *)
Incidents(points) ==
  LET seen == Scanned(points)[Len(points)]
  IN  Reverse(IF seen.open = None THEN seen.done ELSE Append(seen.done, seen.open))

-----------------------------------------------------------------------------
(* The definition they are compared with: the longest stretches of points  *)
(* none of which is up, each until the point that follows it.              *)
Stretches(points) ==
  {ab \in (1..Len(points)) \X (1..Len(points)) :
     LET a == ab[1] b == ab[2] IN
     /\ a <= b
     /\ \A k \in a..b : points[k].status # "up"
     /\ a = 1 \/ points[a - 1].status = "up"
     /\ b = Len(points) \/ points[b + 1].status = "up"}

Outage(points, ab) ==
  [since |-> points[ab[1]].age,
   until |-> IF ab[2] = Len(points) THEN None ELSE points[ab[2] + 1].age,
   count |-> ab[2] - ab[1] + 1]

(* told is the outages of points, each once and the latest first.          *)
Outages(points, told) ==
  \E which \in [DOMAIN told -> Stretches(points)] :
    /\ Stretches(points) = {which[k] : k \in DOMAIN told}
    /\ \A j, k \in DOMAIN told : j < k => which[j][1] > which[k][1]
    /\ \A k \in DOMAIN told : told[k] = Outage(points, which[k])
=============================================================================
