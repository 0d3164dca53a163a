------------------------------ MODULE Probing ------------------------------
(***************************************************************************)
(* From the state of what a service stands for to the status a dashboard   *)
(* shows: the scheduler (probe/mod.rs), the probes (probe/uptime.rs), the  *)
(* control of units and containers (services.rs, control/), the stream of  *)
(* probe events and the page that listens to it (dashboard/mod.rs).        *)
(*                                                                         *)
(* Time passes in steps of one wake of the scheduler, TICK_SECS.  A row of *)
(* probe_results has an age in place of its checked_at, so rows of one     *)
(* step are rows of one checked_at; and last_probed has ages too.          *)
(***************************************************************************)
EXTENDS Naturals, FiniteSets, SequencesExt, Uptime

CONSTANTS
  Ids,         \* bound: the services ever created, 1..n
  Attributes,  \* what a service may be: unit, source, url, enabled, interval
  Containers,  \* the sources "docker" and "podman"
  Actions,     \* start, stop and restart
  Retention,   \* history_retention_days
  MaxProbes,   \* bound: probes on their way
  MaxAsks,     \* bound: requests of clients, with the one that created what is stored
  MaxFaults    \* bound: calls that fail, connections that break

ASSUME ProbingAssumption ==
  /\ 1 \in Ids /\ Ids \subseteq Nat /\ IsFiniteSet(Ids)
  /\ Retention \in Nat \ {0} /\ \A s \in Attributes : s.interval <= Retention + 2

VARIABLES
  services,   \* the table: id |-> attributes
  serial,     \* the last id given out
  rows,       \* probe_results: id |-> statuses and ages, in the order inserted
  last,       \* last_probed: id |-> age, in the scheduler
  probes,     \* the tasks that probe, in the order spawned
  state,      \* what systemd, the daemon or the server at the URL is in
  job,        \* the job systemd has queued for a unit
  control,    \* the request that starts, stops or restarts a service
  live,       \* live_status of a page that is open
  asked, faults

tables  == <<services, serial, rows>>
outside == <<state, job>>
bounds  == <<asked, faults>>
vars == <<tables, last, probes, outside, control, live, bounds>>

Ask   == asked < MaxAsks /\ asked' = asked + 1
Fault == faults < MaxFaults /\ faults' = faults + 1

(* Ages past Retention are all the same.                                   *)
Capped(n) == IF n > Retention THEN n ELSE n + 1

Put(f, i, v) == [j \in DOMAIN f \cup {i} |-> IF j = i THEN v ELSE f[j]]

Drop(f, i) == [j \in DOMAIN f \ {i} |-> f[j]]

-----------------------------------------------------------------------------
(* Probes                                                                  *)

(* Only a unit that no container engine named is looked up in systemd.     *)
Via(s) ==
  IF s.unit /\ s.source \notin Containers THEN "unit"
  ELSE IF s.url THEN "url" ELSE None

(* What one request to the target tells.  A unit that is activating is up. *)
Up(via, st) == st = "active" \/ (via = "unit" /\ st = "activating")

Word(up) == IF up THEN "up" ELSE "down"

(* A task that probes service i as it was read: s.  seen is a history of   *)
(* what there was to be seen since, the target being in state st at first. *)
Probe(i, s, st) ==
  [id |-> i, via |-> Via(s), pc |-> "ask", status |-> None, seen |-> {Word(Up(Via(s), st))}]

(* The task of a service just created; it has not read its row yet.        *)
Newcomer(i) == [id |-> i, via |-> None, pc |-> "read", status |-> None, seen |-> {}]

Room(n) == Len(probes) + n <= MaxProbes

(* A service that is neither kind is not probed.                           *)
Spawned(i, s, st) == IF Via(s) = None THEN << >> ELSE <<Probe(i, s, st)>>

(* What service i stands for is in state st from now on.                   *)
Noticed(i, st) ==
  [n \in DOMAIN probes |-> LET p == probes[n] IN
     IF p.id = i THEN [p EXCEPT !.seen = @ \cup {Word(Up(p.via, st))}] ELSE p]

Advance(n, p) == probes' = [probes EXCEPT ![n] = p]

(* The row may have been changed or deleted, and probes disabled.          *)
ReadRow(n) ==
  LET i == probes[n].id IN
  /\ probes[n].pc = "read"
  /\ \/ /\ i \in DOMAIN services /\ services[i].enabled /\ Via(services[i]) # None
        /\ Advance(n, Probe(i, services[i], state[i]))
        /\ UNCHANGED faults
     \/ /\ i \in DOMAIN services => ~services[i].enabled \/ Via(services[i]) = None
        /\ probes' = RemoveAt(probes, n)
        /\ UNCHANGED faults
     \/ Fault /\ probes' = RemoveAt(probes, n)
  /\ UNCHANGED <<tables, last, outside, control, live, asked>>

(* Mutant: a HEAD that fails is the answer.                                *)
NoFallback(up) == "insert"

(* A HEAD that does not come back up is followed by a GET.                 *)
AfterHead(up) == IF up THEN "insert" ELSE "get"

(* list_units, or HEAD, which many servers do not implement.               *)
AskTarget(n) ==
  LET p == probes[n] IN
  /\ p.pc = "ask"
  /\ \/ p.via = "unit" /\ Advance(n, [p EXCEPT !.pc = "insert", !.status = Word(Up("unit", state[p.id]))])
        /\ UNCHANGED faults
     \/ p.via = "unit" /\ Advance(n, [p EXCEPT !.pc = "insert", !.status = "down", !.seen = @ \cup {"down"}])
        /\ Fault
     \/ \E up \in {Up("url", state[p.id]), FALSE} :
          /\ p.via = "url"
          /\ Advance(n, [p EXCEPT !.pc = AfterHead(up), !.status = Word(up)])
          /\ UNCHANGED faults
  /\ UNCHANGED <<tables, last, outside, control, live, asked>>

GetTarget(n) ==
  LET p == probes[n] IN
  /\ p.pc = "get"
  /\ \/ Advance(n, [p EXCEPT !.pc = "insert", !.status = Word(Up("url", state[p.id]))])
        /\ UNCHANGED faults
     \/ Advance(n, [p EXCEPT !.pc = "insert", !.status = "down", !.seen = @ \cup {"down"}])
        /\ Fault
  /\ UNCHANGED <<tables, last, outside, control, live, asked>>

(* The row of a service that is gone is refused: REFERENCES services(id).  *)
InsertRow(n) ==
  LET p == probes[n] IN
  /\ p.pc = "insert"
  /\ Advance(n, [p EXCEPT !.pc = "prune"])
  /\ \/ /\ p.id \in DOMAIN services
        /\ rows' = [rows EXCEPT ![p.id] = Append(@, [status |-> p.status, age |-> 0])]
        /\ UNCHANGED faults
     \/ p.id \notin DOMAIN services /\ UNCHANGED <<rows, faults>>
     \/ p.id \in DOMAIN services /\ Fault /\ UNCHANGED rows
  /\ UNCHANGED <<services, serial, last, outside, control, live, asked>>

(* prune_old_results.  A row is inserted with the time of its INSERT, so   *)
(* the oldest rows are the first.                                          *)
Pruned(list) ==
  LET old == {k \in DOMAIN list : list[k].age > Retention}
  IN  SubSeq(list, Cardinality(old) + 1, Len(list))

(* When it has answered the event is sent.  A page that lags, or whose     *)
(* stream has just broken, never gets it.                                  *)
Finish(n) ==
  LET p == probes[n] IN
  /\ p.pc = "prune"
  /\ rows' = IF p.id \in DOMAIN rows THEN [rows EXCEPT ![p.id] = Pruned(@)] ELSE rows
  /\ \/ live' = Put(live, p.id, p.status) /\ UNCHANGED faults
     \/ Fault /\ UNCHANGED live
  /\ probes' = RemoveAt(probes, n)
  /\ UNCHANGED <<services, serial, last, outside, control, asked>>

ProbeStep(n) ==
  /\ n \in DOMAIN probes
  /\ ReadRow(n) \/ AskTarget(n) \/ GetTarget(n) \/ InsertRow(n) \/ Finish(n)

-----------------------------------------------------------------------------
(* The scheduler                                                           *)

(* Mutant: a service never probed is not due.                              *)
Elapsed(i) == i \in DOMAIN last /\ last[i] + 1 >= services[i].interval

Due(i) == i \notin DOMAIN last \/ last[i] + 1 >= services[i].interval

(* The rows the scheduler selects.                                         *)
Listed == {i \in DOMAIN services : services[i].enabled /\ (services[i].unit \/ services[i].url)}

(* The time since the last wake has passed.  History is kept for days, so  *)
(* no probe takes as long as that from its INSERT to its DELETE.           *)
Aged(list) == [k \in DOMAIN list |-> [list[k] EXCEPT !.age = Capped(@)]]

(* One turn of the loop, a sleep after the last: ids that are not listed   *)
(* are forgotten, those due are probed, in the order in which the SELECT   *)
(* lists them, which is any.  A turn whose query fails does nothing.       *)
Wake ==
  /\ \A n \in DOMAIN probes : probes[n].pc # "prune"
  /\ rows' = [i \in DOMAIN rows |-> Aged(rows[i])]
  /\ \/ LET due == {i \in Listed : Due(i)}
        IN  /\ last' = [i \in due \cup (Listed \cap DOMAIN last) |->
                         IF i \in due THEN 0 ELSE Capped(last[i])]
            /\ \E some \in SetToSeqs({i \in due : Via(services[i]) # None}) :
                 /\ Room(Len(some))
                 /\ probes' = probes \o [k \in DOMAIN some |->
                                           Probe(some[k], services[some[k]], state[some[k]])]
            /\ UNCHANGED faults
     \/ /\ Fault
        /\ last' = [i \in DOMAIN last |-> Capped(last[i])] /\ UNCHANGED probes
  /\ UNCHANGED <<services, serial, outside, control, live, asked>>

-----------------------------------------------------------------------------
(* Requests                                                                *)

(* create_service spawns a task that reads the row again, and probes the   *)
(* service if it is enabled.                                               *)
CreateService(s) ==
  LET i == serial + 1 IN
  /\ Ask /\ i \in Ids
  /\ services' = Put(services, i, s)
  /\ rows' = Put(rows, i, << >>)
  /\ serial' = i
  /\ Room(1)
  /\ probes' = Append(probes, Newcomer(i))
  /\ UNCHANGED <<last, outside, control, live, faults>>

(* update_service, as far as probes are concerned.                         *)
UpdateService(i, s) ==
  /\ Ask /\ i \in DOMAIN services
  /\ s # services[i] /\ s.unit = services[i].unit /\ s.source = services[i].source
  /\ services' = [services EXCEPT ![i] = s]
  /\ UNCHANGED <<serial, rows, last, probes, outside, control, live, faults>>

(* delete_service; ON DELETE CASCADE.                                      *)
DeleteService(i) ==
  /\ Ask /\ i \in DOMAIN services
  /\ services' = Drop(services, i) /\ rows' = Drop(rows, i)
  /\ UNCHANGED <<serial, last, probes, outside, control, live, faults>>

(* control_service reads the service: one with no unit is refused.         *)
ReadControl(i, action) ==
  /\ control = None /\ i \in DOMAIN services /\ services[i].unit
  /\ Ask
  /\ control' = [id |-> i, service |-> services[i], action |-> action]
  /\ UNCHANGED <<tables, last, probes, outside, live, faults>>

(* systemd queues a job, in place of one it has queued already; a daemon   *)
(* answers when it is done.  Then the service that was read is probed.     *)
DoControl ==
  /\ control # None
  /\ control' = None
  /\ LET c == control IN
     \/ /\ c.service.source \notin Containers
        /\ job' = [job EXCEPT ![c.id] = c.action]
        /\ Room(1) /\ probes' = probes \o Spawned(c.id, c.service, state[c.id])
        /\ UNCHANGED <<state, faults>>
     \/ /\ c.service.source \in Containers
        /\ LET st == IF c.action = "stop" THEN "failed" ELSE "active" IN
           /\ state' = [state EXCEPT ![c.id] = st]
           /\ Room(1) /\ probes' = Noticed(c.id, st) \o Spawned(c.id, c.service, st)
        /\ UNCHANGED <<job, faults>>
     \/ Fault /\ UNCHANGED <<probes, outside>>
  /\ UNCHANGED <<tables, last, live, asked>>

-----------------------------------------------------------------------------
(* What the services stand for (external)                                  *)

Becomes(i, st) == state' = [state EXCEPT ![i] = st] /\ probes' = Noticed(i, st)

(* systemd runs a job, in the steps of the unit; a start may fail.         *)
RunJob(i) ==
  /\ \/ job[i] = "stop"    /\ Becomes(i, "failed") /\ job' = [job EXCEPT ![i] = None]
     \/ job[i] = "restart" /\ Becomes(i, "failed") /\ job' = [job EXCEPT ![i] = "start"]
     \/ /\ job[i] = "start" /\ state[i] = "failed"
        /\ Becomes(i, "activating") /\ UNCHANGED job
     \/ /\ job[i] = "start" /\ state[i] = "activating"
        /\ \E st \in {"active", "failed"} : Becomes(i, st)
        /\ job' = [job EXCEPT ![i] = None]
     \/ /\ job[i] = "start" /\ state[i] = "active"
        /\ job' = [job EXCEPT ![i] = None] /\ UNCHANGED <<state, probes>>
  /\ UNCHANGED <<tables, last, control, live, bounds>>

(* What runs may stop, and come back, by itself.                           *)
Flip(i) ==
  /\ job[i] = None
  /\ Becomes(i, IF state[i] = "active" THEN "failed" ELSE "active")
  /\ UNCHANGED <<tables, last, job, control, live, bounds>>

-----------------------------------------------------------------------------
Init ==
  /\ \/ services = << >> /\ serial = 0 /\ rows = << >>
     \/ (\E s \in Attributes : services = Put(<< >>, 1, s)) /\ serial = 1 /\ rows = Put(<< >>, 1, << >>)
  /\ last = << >>
  /\ probes = << >> /\ control = None
  /\ state = [i \in Ids |-> "active"] /\ job = [i \in Ids |-> None]
  /\ live = << >>
  /\ asked = serial /\ faults = 0

Next ==
  \/ Wake
  \/ \E n \in 1..MaxProbes : ProbeStep(n)
  \/ \E s \in Attributes : CreateService(s) \/ \E i \in Ids : UpdateService(i, s)
  \/ \E i \in Ids :
       DeleteService(i) \/ \E action \in Actions : ReadControl(i, action)
  \/ DoControl
  \/ \E i \in Ids : RunJob(i) \/ Flip(i)

(* Tasks run, requests to targets end (timeout_secs), and time passes.     *)
Fairness ==
  /\ WF_vars(Wake)
  /\ \A n \in 1..MaxProbes : WF_vars(ProbeStep(n))

Spec == Init /\ [][Next]_vars /\ Fairness

-----------------------------------------------------------------------------
(* Properties                                                              *)

(* list_services: the status of the last row, or of any of the last when   *)
(* several have the same checked_at.                                       *)
Latest(i) ==
  {rows[i][k].status : k \in {k \in DOMAIN rows[i] :
     \A m \in DOMAIN rows[i] : rows[i][k].age <= rows[i][m].age}}

(* No probe records what was not so at some moment since it began: not     *)
(* down for a server that only lacks HEAD, not up for a unit that was      *)
(* stopped before it was asked (uptime.rs:61, 137).                        *)
NoFalseStatus ==
  \A n \in DOMAIN probes :
    probes[n].status # None /\ probes[n].pc # "get" => probes[n].status \in probes[n].seen

(* Once what a service stands for no longer changes, the list and every    *)
(* open page come to say so and go on saying so: whatever late probes,     *)
(* lost events, broken streams and failed queries there were before.       *)
Steady(i, st) ==
  /\ i \in DOMAIN services /\ services[i].enabled /\ Via(services[i]) # None
  /\ state[i] = st

Says(i, st) ==
  LET word == Word(Up(Via(services[i]), st)) IN
  /\ i \in DOMAIN services /\ i \in DOMAIN live
  /\ Latest(i) = {word} /\ live[i] = word

Settles ==
  \A i \in Ids, st \in {"active", "failed"} : <>[]Steady(i, st) => <>[]Says(i, st)

(* The incidents of a service are the stretches of its history in which it *)
(* was not up, though probes insert late and prune at any time             *)
(* (uptime.rs:254).                                                        *)
IncidentsExact == \A i \in DOMAIN rows : Outages(rows[i], Incidents(rows[i]))
=============================================================================
