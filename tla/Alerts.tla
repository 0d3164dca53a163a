------------------------------- MODULE Alerts -------------------------------
(***************************************************************************)
(* The notification loop of the server (notify.rs) and the delivery tasks  *)
(* it spawns.                                                              *)
(*                                                                         *)
(* Probe tasks publish their results on a bounded broadcast channel.  The  *)
(* loop takes them one at a time; the first result of a service is only    *)
(* recorded, every later one is judged against the alert rules, which are  *)
(* two rows of the settings table that the loop reads one after the other  *)
(* while an administrator may be writing them, also one after the other.   *)
(* A verdict to alert reads the enabled notification channels and spawns   *)
(* one delivery task per matching channel, which retries on its own.       *)
(*                                                                         *)
(* What the loop knows of a service lives in memory and dies with the      *)
(* process; the rules live in the database and do not.                     *)
(***************************************************************************)
EXTENDS Integers, Sequences, FiniteSets

CONSTANTS
  Services,      \* ids of services that are probed
  Channels,      \* rows of notification_channels
  Capacity,      \* of the broadcast channel (256 in main.rs)
  RetryCount,    \* notifications.retry_count
  Thresholds,    \* values an administrator gives notify_fail_threshold
  Intervals,     \* values an administrator gives notify_repeat_interval_mins
  MaxEvents,     \* bound: probe results published in a behaviour
  MaxTime,       \* bound: minutes that pass
  MaxBoots,      \* bound: restarts of the server
  MaxRuleEdits   \* bound: PATCH requests on the alert rules

DefaultThreshold == 1
DefaultInterval  == 0

ASSUME AlertsAssumption ==
  /\ Capacity \in Nat \ {0}
  /\ RetryCount \in Nat
  /\ Thresholds \subseteq Nat \ {0} /\ DefaultThreshold \in Thresholds
  /\ Intervals \subseteq Nat /\ DefaultInterval \in Intervals
  /\ MaxEvents \in Nat /\ MaxTime \in Nat /\ MaxBoots \in Nat /\ MaxRuleEdits \in Nat

VARIABLES
  clock,      \* minutes since the first boot
  queue,      \* results published and not yet received by the loop
  lagged,     \* the loop's next recv reports that results were overwritten
  loop,       \* where the loop is in the handling of one result
  observed,   \* services with an entry in the map `states`
  alert,      \* the ServiceAlertState of each service in `observed`
  rules,      \* the two rows of the settings table
  ruleWrite,  \* intervals that update_rules requests have still to write
  tasks,      \* delivery tasks, finished ones included
  seen,       \* history: the statuses the loop has judged or recorded since boot
  last,       \* history: the last alert raised for each service, and whom it is to reach
  count       \* how much of each bound has been used

vars == <<clock, queue, lagged, loop, observed, alert, rules, ruleWrite, tasks,
          seen, last, count>>

Status == {"up", "down"}
Kinds  == {"service.down", "service.up"}

Fresh(status) ==
  [lastStatus |-> status, down |-> 0, notified |-> FALSE, notifiedAt |-> 0]

Event == [svc : Services, status : Status]

Idle == [pc |-> "recv"]

Init ==
  /\ clock = 0
  /\ queue = <<>>
  /\ lagged = FALSE
  /\ loop = Idle
  /\ observed = {}
  /\ alert = [s \in Services |-> Fresh("up")]
  /\ rules = [threshold |-> DefaultThreshold, interval |-> DefaultInterval]
  /\ ruleWrite = {}
  /\ tasks = {}
  /\ seen = [s \in Services |-> <<>>]
  /\ last = [s \in Services |-> [n |-> 0, kind |-> "none", at |-> 0, prev |-> "up", to |-> {}]]
  /\ count = [events |-> 0, boots |-> 0, edits |-> 0]

-----------------------------------------------------------------------------
(* decide_fire: the verdict on one status, and the service's new state.    *)

RepeatDue(a, interval, now) == interval > 0 /\ now - a.notifiedAt >= interval

(* Mutant: the threshold has to be exceeded.                               *)
ShouldFireLate(a, threshold, interval, now) ==
  IF a.notified THEN RepeatDue(a, interval, now) ELSE a.down + 1 > threshold

ShouldFire(a, threshold, interval, now) ==
  IF a.notified THEN RepeatDue(a, interval, now) ELSE a.down + 1 >= threshold

(* Mutant: a repeat leaves the time of the previous alert in place.        *)
JudgeDownKeepsTime(a, threshold, interval, now) ==
  IF ShouldFire(a, threshold, interval, now)
  THEN [fire  |-> "service.down",
        state |-> [a EXCEPT !.down = @ + 1, !.notified = TRUE,
                            !.notifiedAt = IF a.notified THEN @ ELSE now]]
  ELSE [fire |-> "none", state |-> [a EXCEPT !.down = @ + 1]]

JudgeDown(a, threshold, interval, now) ==
  IF ShouldFire(a, threshold, interval, now)
  THEN [fire  |-> "service.down",
        state |-> [a EXCEPT !.down = @ + 1, !.notified = TRUE, !.notifiedAt = now]]
  ELSE [fire |-> "none", state |-> [a EXCEPT !.down = @ + 1]]

(* Mutants: a recovery that forgets to reset the count of failures; a       *)
(* recovery announced whether or not the outage was.                       *)
JudgeUpKeepsCount(a) ==
  [fire  |-> IF a.notified THEN "service.up" ELSE "none",
   state |-> [a EXCEPT !.notified = FALSE, !.notifiedAt = 0]]

JudgeUpAlways(a) ==
  [fire  |-> "service.up",
   state |-> [a EXCEPT !.down = 0, !.notified = FALSE, !.notifiedAt = 0]]

JudgeUp(a) ==
  [fire  |-> IF a.notified THEN "service.up" ELSE "none",
   state |-> [a EXCEPT !.down = 0, !.notified = FALSE, !.notifiedAt = 0]]

decide_fire(status, a, threshold, interval, now) ==
  IF status = "down" THEN JudgeDown(a, threshold, interval, now) ELSE JudgeUp(a)

-----------------------------------------------------------------------------
(* The broadcast channel: when it is full the oldest result is overwritten *)
(* and the receiver's next recv reports the loss before it goes on.        *)

(* Mutant: a channel that grows instead of overwriting.                    *)
PublishUnbounded(s, status) ==
  /\ count.events < MaxEvents
  /\ count' = [count EXCEPT !.events = @ + 1]
  /\ queue' = Append(queue, [svc |-> s, status |-> status])
  /\ UNCHANGED <<clock, lagged, loop, observed, alert, rules, ruleWrite, tasks, seen, last>>

Publish(s, status) ==
  /\ count.events < MaxEvents
  /\ count' = [count EXCEPT !.events = @ + 1]
  /\ LET ev   == [svc |-> s, status |-> status]
         full == Len(queue) = Capacity
     IN  /\ queue' = Append(IF full THEN Tail(queue) ELSE queue, ev)
         /\ lagged' = (lagged \/ full)
  /\ UNCHANGED <<clock, loop, observed, alert, rules, ruleWrite, tasks, seen, last>>

-----------------------------------------------------------------------------
(* The loop.                                                               *)

(* Mutant: the loss is reported again on every recv.                       *)
ReceiveLaggedForever ==
  /\ loop.pc = "recv" /\ lagged
  /\ UNCHANGED vars

ReceiveLagged ==
  /\ loop.pc = "recv" /\ lagged
  /\ lagged' = FALSE
  /\ UNCHANGED <<clock, queue, loop, observed, alert, rules, ruleWrite, tasks,
                 seen, last, count>>

Receive ==
  /\ loop.pc = "recv" /\ ~lagged /\ queue # <<>>
  /\ queue' = Tail(queue)
  /\ UNCHANGED <<clock, lagged, rules, ruleWrite, tasks, last, count>>

ReceiveFirst ==
  LET ev == Head(queue)
  IN  /\ Receive
      /\ ev.svc \notin observed
      /\ observed' = observed \cup {ev.svc}
      /\ alert' = [alert EXCEPT ![ev.svc] = Fresh(ev.status)]
      /\ seen' = [seen EXCEPT ![ev.svc] = Append(@, ev.status)]
      /\ UNCHANGED loop

ReceiveNext ==
  LET ev == Head(queue)
  IN  /\ Receive
      /\ ev.svc \in observed
      /\ alert' = [alert EXCEPT ![ev.svc].lastStatus = ev.status]
      /\ loop' = [pc |-> "threshold", ev |-> ev, prev |-> alert[ev.svc].lastStatus]
      /\ UNCHANGED <<observed, seen>>

(* A failed read of a rule counts as the default value of that rule.       *)
ReadThreshold ==
  /\ loop.pc = "threshold"
  /\ \E t \in {rules.threshold, DefaultThreshold} :
       loop' = [pc |-> "interval", ev |-> loop.ev, prev |-> loop.prev, threshold |-> t]
  /\ UNCHANGED <<clock, queue, lagged, observed, alert, rules, ruleWrite, tasks,
                 seen, last, count>>

Verdict(interval) ==
  decide_fire(loop.ev.status, alert[loop.ev.svc], loop.threshold, interval, clock)

Judge ==
  /\ loop.pc = "interval"
  /\ \E interval \in {rules.interval, DefaultInterval} :
       LET s == loop.ev.svc
           v == Verdict(interval)
       IN  /\ alert' = [alert EXCEPT ![s] = v.state]
           /\ seen' = [seen EXCEPT ![s] = Append(@, loop.ev.status)]
           /\ IF v.fire = "none"
              THEN loop' = Idle /\ UNCHANGED last
              ELSE /\ loop' = [pc |-> "channels", ev |-> loop.ev, kind |-> v.fire]
                   /\ last' = [last EXCEPT ![s] = [n |-> @.n + 1, kind |-> v.fire,
                                                   at |-> clock, prev |-> loop.prev,
                                                   to |-> {}]]
  /\ UNCHANGED <<clock, queue, lagged, observed, rules, ruleWrite, tasks, count>>

(* The task that tells channel c of the alert just raised.                 *)
Delivery(c) ==
  [svc |-> loop.ev.svc, n |-> last[loop.ev.svc].n, ch |-> c, kind |-> loop.kind,
   attempt |-> 0, state |-> "sending", got |-> 0]

(* The channels are those enabled, and subscribed to this kind, at the time *)
(* of the read; administrators edit them freely, and a failed read counts   *)
(* as no channel at all.                                                    *)
SpawnDeliveries ==
  /\ loop.pc = "channels"
  /\ \E chosen \in SUBSET Channels :
       /\ tasks' = tasks \cup {Delivery(c) : c \in chosen}
       /\ last' = [last EXCEPT ![loop.ev.svc].to = chosen]
  /\ loop' = Idle
  /\ UNCHANGED <<clock, queue, lagged, observed, alert, rules, ruleWrite, seen, count>>

LoopStep ==
  ReceiveLagged \/ ReceiveFirst \/ ReceiveNext \/ ReadThreshold \/ Judge \/ SpawnDeliveries

-----------------------------------------------------------------------------
(* A delivery task: send_with_retry around send_once.  A destination may   *)
(* take the notification and still answer with an error or not at all.     *)

Becomes(t, u) ==
  /\ tasks' = (tasks \ {t}) \cup {u}
  /\ UNCHANGED <<clock, queue, lagged, loop, observed, alert, rules, ruleWrite,
                 seen, last, count>>

SendSucceeds(t) ==
  /\ t.state = "sending"
  /\ Becomes(t, [t EXCEPT !.state = "delivered", !.got = @ + 1])

(* Mutant: one attempt too many.                                           *)
AfterFailureOneMore(t) == IF t.attempt <= RetryCount THEN "backoff" ELSE "dropped"

AfterFailure(t) == IF t.attempt < RetryCount THEN "backoff" ELSE "dropped"

SendFails(t) ==
  /\ t.state = "sending"
  /\ \E taken \in {0, 1} :
       Becomes(t, [t EXCEPT !.state = AfterFailure(t), !.got = @ + taken])

(* Mutant: a retry that does not count itself.                             *)
ResendUncounted(t) ==
  /\ t.state = "backoff"
  /\ Becomes(t, [t EXCEPT !.state = "sending"])

Resend(t) ==
  /\ t.state = "backoff"
  /\ Becomes(t, [t EXCEPT !.state = "sending", !.attempt = @ + 1])

DeliveryStep(s, n, c) ==
  \E t \in tasks :
    /\ t.svc = s /\ t.n = n /\ t.ch = c
    /\ SendSucceeds(t) \/ SendFails(t) \/ Resend(t)

-----------------------------------------------------------------------------
(* update_rules writes the two rows one after the other, and goes on when   *)
(* a write fails.                                                          *)

UpdateThreshold ==
  /\ count.edits < MaxRuleEdits
  /\ \E t \in Thresholds, i \in Intervals :
       /\ rules' \in {rules, [rules EXCEPT !.threshold = t]}
       /\ ruleWrite' = ruleWrite \cup {i}
  /\ count' = [count EXCEPT !.edits = @ + 1]
  /\ UNCHANGED <<clock, queue, lagged, loop, observed, alert, tasks, seen, last>>

UpdateInterval ==
  /\ \E i \in ruleWrite :
       /\ rules' \in {rules, [rules EXCEPT !.interval = i]}
       /\ ruleWrite' = ruleWrite \ {i}
  /\ UNCHANGED <<clock, queue, lagged, loop, observed, alert, tasks, seen, last, count>>

-----------------------------------------------------------------------------

Tick ==
  /\ clock < MaxTime
  /\ clock' = clock + 1
  /\ UNCHANGED <<queue, lagged, loop, observed, alert, rules, ruleWrite, tasks, seen,
                 last, count>>

Active == {"sending", "backoff"}

(* The process dies at any point and is started again: all that is left is *)
(* the settings table, and what the destinations have already received.    *)
Restart ==
  /\ count.boots < MaxBoots
  /\ count' = [count EXCEPT !.boots = @ + 1]
  /\ queue' = <<>> /\ lagged' = FALSE /\ loop' = Idle /\ observed' = {}
  /\ alert' = [s \in Services |-> Fresh("up")]
  /\ ruleWrite' = {}
  /\ tasks' = {IF t.state \in Active THEN [t EXCEPT !.state = "lost"] ELSE t : t \in tasks}
  /\ seen' = [s \in Services |-> <<>>]
  /\ last' = [s \in Services |-> [last[s] EXCEPT !.kind = "none"]]
  /\ UNCHANGED <<clock, rules>>

Next ==
  \/ \E s \in Services, status \in Status : Publish(s, status)
  \/ LoopStep
  \/ \E s \in Services, c \in Channels, n \in 1..MaxEvents : DeliveryStep(s, n, c)
  \/ UpdateThreshold
  \/ UpdateInterval
  \/ Tick
  \/ Restart

Spec == Init /\ [][Next]_vars

(* The loop and the delivery tasks are tokio tasks that nothing blocks: an *)
(* enabled step is eventually taken.  Probes, administrators, the clock    *)
(* and crashes owe nothing.                                                *)
Fairness ==
  /\ WF_vars(LoopStep)
  /\ \A s \in Services, c \in Channels, n \in 1..MaxEvents : WF_vars(DeliveryStep(s, n, c))

FairSpec == Spec /\ Fairness

-----------------------------------------------------------------------------
(* Properties.                                                             *)

AlertState ==
  [lastStatus : Status, down : Nat, notified : BOOLEAN, notifiedAt : Nat]

LoopState ==
  [pc : {"recv"}]
    \cup [pc : {"threshold"}, ev : Event, prev : Status]
    \cup [pc : {"interval"}, ev : Event, prev : Status, threshold : Thresholds]
    \cup [pc : {"channels"}, ev : Event, kind : Kinds]

Task ==
  [svc : Services, n : Nat, ch : Channels, kind : Kinds, attempt : Nat,
   state : Active \cup {"delivered", "dropped", "lost"}, got : Nat]

LastAlert ==
  [n : Nat, kind : Kinds \cup {"none"}, at : Nat, prev : Status, to : SUBSET Channels]

(* Types of the variables; the channel holds at most Capacity results.     *)
TypeOK ==
  /\ clock \in Nat
  /\ queue \in Seq(Event) /\ Len(queue) <= Capacity
  /\ lagged \in BOOLEAN
  /\ loop \in LoopState
  /\ observed \subseteq Services
  /\ alert \in [Services -> AlertState]
  /\ rules \in [threshold : Thresholds, interval : Intervals]
  /\ ruleWrite \subseteq Intervals
  /\ tasks \subseteq Task
  /\ seen \in [Services -> Seq(Status)]
  /\ last \in [Services -> LastAlert]
  /\ count \in [events : Nat, boots : Nat, edits : Nat]

(* The last k of a history of statuses are failures, the very first one,   *)
(* which is never judged, not counted among them.                          *)
EndsDown(h, k) ==
  /\ Len(h) > k
  /\ \A i \in (Len(h) - k + 1)..Len(h) : h[i] = "down"

Alerted(s) == last[s].kind = "service.down"

(* What was last said about a service agrees with what the loop has seen:  *)
(* an open alert means it is failing now (every recovery of an announced   *)
(* outage was announced), and no outage longer than every threshold an     *)
(* administrator may have set is passed over, whatever happened to the     *)
(* rules, or to the reading of them, while it lasted (decide_fire,         *)
(* notification_loop).                                                     *)
OutageAnnounced ==
  \A s \in Services :
    /\ Alerted(s) => EndsDown(seen[s], 1)
    /\ (\E k \in 1..Len(seen[s]) : EndsDown(seen[s], k) /\ \A t \in Thresholds : k >= t)
         => Alerted(s)

(* An outage is announced only on enough consecutive failures for the      *)
(* threshold the loop read, however often the rules and the results around *)
(* it changed (decide_fire's test on consecutive_down).                    *)
ThresholdMet ==
  [][\A s \in Services :
       /\ last'[s].n # last[s].n /\ last'[s].kind = "service.down" /\ ~Alerted(s)
       => EndsDown(seen'[s], loop.threshold)]_vars

(* While an outage lasts it is announced again only under a positive       *)
(* interval, and only when that many minutes have passed since the         *)
(* previous announcement, repeats included (decide_fire's repeat branch).  *)
RepeatSpacing ==
  [][\A s \in Services :
       /\ last'[s].n # last[s].n /\ last'[s].kind = "service.down" /\ Alerted(s)
       => /\ rules.interval > 0
          /\ last'[s].at - last[s].at >= rules.interval]_vars

(* The alerts of a service form outages that open before they close.       *)
Abstract ==
  INSTANCE OutageAlerts WITH
    phase <- [s \in Services |-> IF alert[s].notified THEN "alerting" ELSE "quiet"],
    said  <- [s \in Services |-> [n |-> last[s].n, kind |-> last[s].kind]]

AlertsFormOutages == Abstract!Spec

(* Every channel the last alert of a service is to reach has one task, and *)
(* no other channel has, through retries and restarts; no alert before it  *)
(* has two for a channel.  A destination sees an alert at most             *)
(* RetryCount + 1 times, at least once if the task ended well, and a task  *)
(* gives up only after its last attempt (notification_loop,                *)
(* send_with_retry).                                                       *)
DeliveryAccounting ==
  /\ \A s \in Services :
       {t.ch : t \in {u \in tasks : u.svc = s /\ u.n = last[s].n}} = last[s].to
  /\ \A t \in tasks :
       /\ \A u \in tasks : <<t.svc, t.n, t.ch>> = <<u.svc, u.n, u.ch>> => t = u
       /\ t.n <= last[t.svc].n
       /\ t.got <= t.attempt + 1 /\ t.attempt <= RetryCount
       /\ t.state = "delivered" => t.got > 0
       /\ t.state = "dropped" => t.attempt = RetryCount

(* A delivery task comes to an end: it delivers, gives up after its last   *)
(* attempt, or dies with the process (send_with_retry's recursion).        *)
EveryDeliverySettles ==
  \A s \in Services, c \in Channels, n \in 1..MaxEvents :
    [](  (\E t \in tasks : t.svc = s /\ t.n = n /\ t.ch = c)
       => <>(\E t \in tasks : /\ t.svc = s /\ t.n = n /\ t.ch = c
                               /\ t.state \notin Active))

(* The loop never stops receiving: whatever is published is judged, or     *)
(* overwritten, or lost in a restart, also after the loop has lagged.      *)
LoopDrains == (queue # <<>>) ~> (queue = <<>> /\ loop.pc = "recv")
=============================================================================
