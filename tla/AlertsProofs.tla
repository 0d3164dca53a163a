---------------------------- MODULE AlertsProofs ----------------------------
(***************************************************************************)
(* Proofs about the notification loop, for any number of services and      *)
(* channels, any capacity, any set of thresholds and intervals and any     *)
(* bounds.                                                                 *)
(***************************************************************************)
EXTENDS Alerts, SequenceTheorems, TLAPS

(* What the loop remembers of a service is exactly what it has seen of it: *)
(* consecutive_down is the length of the run of failures at the end of the *)
(* history, notified_down and last_notified_at are the last alert, and a   *)
(* run that has not been announced is shorter than some threshold.         *)
Unknown(s) == seen[s] = <<>> /\ alert[s].down = 0 /\ ~alert[s].notified

Remembers(s) ==
  /\ s \notin observed => Unknown(s)
  /\ s \in observed => EndsDown(seen[s], alert[s].down)
  /\ \A k \in Nat : EndsDown(seen[s], k) => k <= alert[s].down
  /\ alert[s].notified <=> Alerted(s)
  /\ alert[s].notified => alert[s].down > 0 /\ alert[s].notifiedAt = last[s].at
  /\ ~alert[s].notified => \E t \in Thresholds : alert[s].down < t

Held == loop.pc \in {"threshold", "interval"} => loop.ev.svc \in observed

IInv == TypeOK /\ Held /\ \A s \in Services : Remembers(s)

-----------------------------------------------------------------------------
(* Types.                                                                  *)

(* decide_fire returns a well-formed state whatever rules it is given.     *)
LEMMA DecideType ==
  ASSUME NEW a \in AlertState, NEW status \in Status, NEW t \in Thresholds,
         NEW i \in Intervals, NEW now \in Nat
  PROVE  /\ decide_fire(status, a, t, i, now).state \in AlertState
         /\ decide_fire(status, a, t, i, now).fire \in Kinds \cup {"none"}
<1>1. a.down + 1 \in Nat
  BY DEF AlertState
<1>2. JudgeDown(a, t, i, now).state \in AlertState
  BY <1>1 DEF AlertState, JudgeDown
<1>3. JudgeUp(a).state \in AlertState
  BY DEF AlertState, JudgeUp
<1>4. JudgeDown(a, t, i, now).fire \in Kinds \cup {"none"}
  BY DEF JudgeDown, Kinds
<1>5. JudgeUp(a).fire \in Kinds \cup {"none"}
  BY DEF JudgeUp, Kinds
<1>6. QED
  BY <1>2, <1>3, <1>4, <1>5 DEF decide_fire

LEMMA InitType == Init => TypeOK
<1> SUFFICES ASSUME Init PROVE TypeOK
  OBVIOUS
<1>1. loop \in LoopState
  BY DEF Init, Idle, LoopState
<1>2. alert \in [Services -> AlertState]
  BY DEF Init, Fresh, AlertState, Status
<1>3. queue \in Seq(Event) /\ Len(queue) <= Capacity
  BY AlertsAssumption DEF Init
<1>4. rules \in [threshold : Thresholds, interval : Intervals]
  BY AlertsAssumption DEF Init
<1>5. last \in [Services -> LastAlert]
  BY DEF Init, Status, LastAlert
<1>6. seen \in [Services -> Seq(Status)]
  BY DEF Init
<1>7. QED
  BY <1>1, <1>2, <1>3, <1>4, <1>5, <1>6 DEF Init, TypeOK

LEMMA ReceiveType ==
  ASSUME TypeOK, Receive
  PROVE  /\ Head(queue) \in Event
         /\ queue' \in Seq(Event) /\ Len(queue') <= Capacity
  BY AlertsAssumption, HeadTailProperties DEF Receive, TypeOK

LEMMA NextType == TypeOK /\ [Next]_vars => TypeOK'
<1> SUFFICES ASSUME TypeOK, [Next]_vars PROVE TypeOK'
  OBVIOUS
<1> USE AlertsAssumption
<1>1. ASSUME NEW s \in Services, NEW status \in Status, Publish(s, status)
      PROVE  TypeOK'
  <2> DEFINE ev == [svc |-> s, status |-> status]
  <2>1. ev \in Event
    BY DEF Event
  <2>2. queue' \in Seq(Event) /\ Len(queue') <= Capacity
    <3>1. CASE Len(queue) = Capacity
      <4>1. queue # <<>>
        BY <3>1 DEF TypeOK
      <4>2. Tail(queue) \in Seq(Event) /\ Len(Tail(queue)) = Len(queue) - 1
        BY <4>1, HeadTailProperties DEF TypeOK
      <4>3. queue' = Append(Tail(queue), ev)
        BY <1>1, <3>1 DEF Publish
      <4>4. QED
        BY <2>1, <3>1, <4>2, <4>3, AppendProperties
    <3>2. CASE Len(queue) # Capacity
      <4>1. queue' = Append(queue, ev)
        BY <1>1, <3>2 DEF Publish
      <4>2. QED
        BY <2>1, <3>2, <4>1, AppendProperties DEF TypeOK
    <3>3. QED
      BY <3>1, <3>2
  <2>3. count' \in [events : Nat, boots : Nat, edits : Nat]
    <3>1. count.events + 1 \in Nat
      BY DEF TypeOK
    <3>2. QED
      BY <1>1, <3>1 DEF Publish, TypeOK
  <2>4. lagged' \in BOOLEAN
    BY <1>1 DEF Publish, TypeOK
  <2>5. QED
    BY <1>1, <2>2, <2>3, <2>4 DEF Publish, TypeOK
<1>2. CASE ReceiveLagged
  BY <1>2 DEF ReceiveLagged, TypeOK
<1>3. ASSUME Receive
      PROVE  /\ Head(queue) \in Event
             /\ queue' \in Seq(Event) /\ Len(queue') <= Capacity
  BY <1>3, ReceiveType
<1>4. CASE ReceiveFirst
  <2>1. /\ Receive /\ Head(queue).svc \in Services /\ Head(queue).status \in Status
    BY <1>3, <1>4 DEF ReceiveFirst, Event
  <2>2. Fresh(Head(queue).status) \in AlertState
    BY <2>1 DEF Fresh, AlertState
  <2>3. seen' \in [Services -> Seq(Status)]
    BY <1>4, <2>1, AppendProperties DEF ReceiveFirst, TypeOK
  <2>4. QED
    BY <1>3, <1>4, <2>1, <2>2, <2>3 DEF ReceiveFirst, Receive, TypeOK
<1>5. CASE ReceiveNext
  <2>1. /\ Receive /\ Head(queue).svc \in Services /\ Head(queue).status \in Status
    BY <1>3, <1>5 DEF ReceiveNext, Event
  <2>2. alert' \in [Services -> AlertState]
    <3>1. [alert[Head(queue).svc] EXCEPT !.lastStatus = Head(queue).status] \in AlertState
      <4>1. alert[Head(queue).svc] \in AlertState
        BY <2>1 DEF TypeOK
      <4>2. QED
        BY <2>1, <4>1 DEF AlertState
    <3>2. QED
      BY <1>5, <2>1, <3>1 DEF ReceiveNext, TypeOK
  <2>3. loop' \in LoopState
    BY <1>3, <1>5, <2>1 DEF ReceiveNext, TypeOK, AlertState, LoopState
  <2>4. QED
    BY <1>3, <1>5, <2>1, <2>2, <2>3 DEF ReceiveNext, Receive, TypeOK
<1>6. CASE ReadThreshold
  <2>1. loop' \in LoopState
    BY <1>6 DEF ReadThreshold, TypeOK, LoopState
  <2>2. QED
    BY <1>6, <2>1 DEF ReadThreshold, TypeOK
<1>7. CASE Judge
  <2>1. PICK i \in {rules.interval, DefaultInterval} :
          LET s == loop.ev.svc
              v == Verdict(i)
          IN  /\ alert' = [alert EXCEPT ![s] = v.state]
              /\ seen' = [seen EXCEPT ![s] = Append(@, loop.ev.status)]
              /\ IF v.fire = "none"
                 THEN loop' = Idle /\ UNCHANGED last
                 ELSE /\ loop' = [pc |-> "channels", ev |-> loop.ev, kind |-> v.fire]
                      /\ last' = [last EXCEPT ![s] = [n |-> @.n + 1, kind |-> v.fire,
                                                      at |-> clock, prev |-> loop.prev, to |-> {}]]
    BY <1>7 DEF Judge
  <2> DEFINE s == loop.ev.svc
             v == Verdict(i)
  <2>2. /\ loop.pc = "interval" /\ loop.ev \in Event /\ loop.prev \in Status
        /\ loop.threshold \in Thresholds
    BY <1>7 DEF Judge, TypeOK, LoopState
  <2>3. s \in Services /\ loop.ev.status \in Status /\ i \in Intervals
    BY <2>2 DEF Event, TypeOK
  <2>4. v.state \in AlertState /\ v.fire \in Kinds \cup {"none"}
    BY <2>2, <2>3, DecideType DEF Verdict, TypeOK
  <2> HIDE DEF v
  <2>5. alert' \in [Services -> AlertState]
    BY <2>1, <2>3, <2>4 DEF TypeOK, v
  <2>6. seen' \in [Services -> Seq(Status)]
    BY <2>1, <2>3, AppendProperties DEF TypeOK
  <2>7. loop' \in LoopState
    BY <2>1, <2>2, <2>4 DEF LoopState, Idle, v
  <2>8. last' \in [Services -> LastAlert]
    <3>1. last[s].n + 1 \in Nat
      BY <2>3 DEF TypeOK, LastAlert
    <3>2. v.fire # "none" => [n |-> last[s].n + 1, kind |-> v.fire, at |-> clock,
                              prev |-> loop.prev, to |-> {}] \in LastAlert
      BY <2>2, <2>4, <3>1 DEF TypeOK, LastAlert
    <3>3. \/ last' = last
          \/ /\ v.fire # "none"
             /\ last' = [last EXCEPT ![s] = [n |-> last[s].n + 1, kind |-> v.fire, at |-> clock,
                                             prev |-> loop.prev, to |-> {}]]
      BY <2>1 DEF v
    <3>4. QED
      BY <2>3, <3>2, <3>3 DEF TypeOK
  <2>9. QED
    BY <1>7, <2>5, <2>6, <2>7, <2>8 DEF Judge, TypeOK
<1>8. CASE SpawnDeliveries
  <2>1. PICK chosen \in SUBSET Channels :
          /\ tasks' = tasks \cup {Delivery(c) : c \in chosen}
          /\ last' = [last EXCEPT ![loop.ev.svc].to = chosen]
    BY <1>8 DEF SpawnDeliveries
  <2>2. loop.ev \in Event /\ loop.kind \in Kinds
    BY <1>8 DEF SpawnDeliveries, TypeOK, LoopState
  <2>3. loop.ev.svc \in Services /\ last[loop.ev.svc].n \in Nat
    BY <2>2 DEF Event, TypeOK, LastAlert
  <2>4. tasks' \subseteq Task
    <3>1. \A c \in chosen : Delivery(c) \in Task
      BY <2>2, <2>3 DEF Delivery, Task, Active
    <3>2. QED
      BY <2>1, <3>1 DEF TypeOK
  <2>5. loop' \in LoopState
    BY <1>8 DEF SpawnDeliveries, LoopState, Idle
  <2>6. last' \in [Services -> LastAlert]
    <3>1. last \in [Services -> LastAlert]
      BY DEF TypeOK
    <3>2. [last[loop.ev.svc] EXCEPT !.to = chosen] \in LastAlert
      BY <2>3, <3>1 DEF LastAlert
    <3>3. QED
      BY <2>1, <2>3, <3>1, <3>2
  <2>7. QED
    BY <1>8, <2>4, <2>5, <2>6 DEF SpawnDeliveries, TypeOK
<1>9. ASSUME NEW s \in Services, NEW c \in Channels, NEW n \in 1..MaxEvents,
             DeliveryStep(s, n, c)
      PROVE  TypeOK'
  <2>1. PICK t \in tasks : SendSucceeds(t) \/ SendFails(t) \/ Resend(t)
    BY <1>9 DEF DeliveryStep
  <2>2. t \in Task
    BY DEF TypeOK
  <2>3. \E u \in Task : Becomes(t, u)
    <3> t.got + 1 \in Nat /\ t.attempt + 1 \in Nat
      BY <2>2 DEF Task
    <3>1. CASE SendSucceeds(t)
      <4>1. [t EXCEPT !.state = "delivered", !.got = @ + 1] \in Task
        BY <2>2 DEF Task
      <4>2. QED
        BY <3>1, <4>1 DEF SendSucceeds
    <3>2. CASE SendFails(t)
      <4>1. ASSUME NEW taken \in {0, 1}
            PROVE  [t EXCEPT !.state = AfterFailure(t), !.got = @ + taken] \in Task
        <5>1. t.got + taken \in Nat
          BY <2>2 DEF Task
        <5>2. AfterFailure(t) \in Active \cup {"delivered", "dropped", "lost"}
          BY DEF AfterFailure, Active
        <5>3. QED
          BY <2>2, <5>1, <5>2 DEF Task
      <4>2. QED
        BY <3>2, <4>1 DEF SendFails
    <3>3. CASE Resend(t)
      <4>1. [t EXCEPT !.state = "sending", !.attempt = @ + 1] \in Task
        BY <2>2 DEF Task, Active
      <4>2. QED
        BY <3>3, <4>1 DEF Resend
    <3>4. QED
      BY <2>1, <3>1, <3>2, <3>3
  <2>4. QED
    BY <2>3 DEF Becomes, TypeOK
<1>10. CASE UpdateThreshold
  <2>1. count.edits + 1 \in Nat
    BY DEF TypeOK
  <2>2. count' \in [events : Nat, boots : Nat, edits : Nat]
    BY <1>10, <2>1 DEF UpdateThreshold, TypeOK
  <2>3. rules' \in [threshold : Thresholds, interval : Intervals] /\ ruleWrite' \subseteq Intervals
    BY <1>10 DEF UpdateThreshold, TypeOK
  <2>4. QED
    BY <1>10, <2>2, <2>3 DEF UpdateThreshold, TypeOK
<1>11. CASE UpdateInterval
  BY <1>11 DEF UpdateInterval, TypeOK
<1>12. CASE Tick
  BY <1>12 DEF Tick, TypeOK
<1>13. CASE Restart
  <2>1. queue' \in Seq(Event) /\ Len(queue') <= Capacity
    BY <1>13 DEF Restart
  <2>2. loop' \in LoopState /\ alert' \in [Services -> AlertState]
    BY <1>13 DEF Restart, LoopState, Idle, AlertState, Fresh, Status
  <2>3. tasks' \subseteq Task
    <3>1. \A t \in Task : [t EXCEPT !.state = "lost"] \in Task
      BY DEF Task
    <3>2. /\ tasks \subseteq Task
          /\ tasks' = {IF t.state \in Active THEN [t EXCEPT !.state = "lost"] ELSE t :
                       t \in tasks}
      BY <1>13 DEF Restart, TypeOK
    <3>3. QED
      BY <3>1, <3>2
  <2>4. last' \in [Services -> LastAlert]
    <3>1. \A s \in Services : last[s] \in LastAlert
      BY DEF TypeOK
    <3>2. \A s \in Services : [last[s] EXCEPT !.kind = "none"] \in LastAlert
      BY <3>1 DEF LastAlert
    <3>3. last' = [s \in Services |-> [last[s] EXCEPT !.kind = "none"]]
      BY <1>13 DEF Restart
    <3>4. QED
      BY <3>2, <3>3
  <2>5. seen' \in [Services -> Seq(Status)] /\ count' \in [events : Nat, boots : Nat, edits : Nat]
    <3>1. count.boots + 1 \in Nat
      BY DEF TypeOK
    <3>2. count' \in [events : Nat, boots : Nat, edits : Nat]
      <4>1. count' = [count EXCEPT !.boots = @ + 1]
        BY <1>13 DEF Restart
      <4>2. QED
        BY <3>1, <4>1 DEF TypeOK
    <3>3. seen' = [s \in Services |-> <<>>] /\ <<>> \in Seq(Status)
      BY <1>13 DEF Restart
    <3>4. QED
      BY <3>2, <3>3
  <2>6. QED
    BY <1>13, <2>1, <2>2, <2>3, <2>4, <2>5 DEF Restart, TypeOK
<1>14. CASE UNCHANGED vars
  BY <1>14 DEF vars, TypeOK
<1>15. QED
  BY <1>1, <1>2, <1>4, <1>5, <1>6, <1>7, <1>8, <1>9, <1>10, <1>11, <1>12, <1>13, <1>14
  DEF Next, LoopStep

(* Every variable keeps its type, and the broadcast channel its capacity.  *)
THEOREM TypeCorrect == Spec => []TypeOK
  BY InitType, NextType, PTL DEF Spec

-----------------------------------------------------------------------------
(* Histories that end in a run of failures.                                *)

LEMMA RunGrows ==
  ASSUME NEW h \in Seq(Status), NEW k \in Nat
  PROVE  EndsDown(Append(h, "down"), k + 1) <=> EndsDown(h, k)
<1> DEFINE g == Append(h, "down")
<1>1. /\ Len(h) \in Nat /\ Len(g) = Len(h) + 1 /\ g[Len(h) + 1] = "down"
      /\ \A i \in 1..Len(h) : g[i] = h[i]
  BY AppendProperties DEF Status
<1> HIDE DEF g
<1>2. EndsDown(g, k + 1) => EndsDown(h, k)
  BY <1>1 DEF EndsDown
<1>3. ASSUME EndsDown(h, k) PROVE EndsDown(g, k + 1)
  <2>1. ASSUME NEW i \in (Len(g) - (k + 1) + 1)..Len(g) PROVE g[i] = "down"
    <3>1. i = Len(h) + 1 \/ (i \in 1..Len(h) /\ i \in (Len(h) - k + 1)..Len(h))
      <4>1. Len(h) > k
        BY <1>3 DEF EndsDown
      <4>2. i \in (Len(h) - k + 1)..(Len(h) + 1)
        BY <1>1
      <4>3. QED
        BY <1>1, <4>1, <4>2
    <3>2. QED
      BY <1>1, <1>3, <3>1 DEF EndsDown
  <2>2. Len(g) > k + 1
    BY <1>1, <1>3 DEF EndsDown
  <2>3. QED
    BY <2>1, <2>2 DEF EndsDown
<1>4. QED
  BY <1>2, <1>3 DEF g

(* A run of failures contains every shorter one.                           *)
LEMMA ShorterRun ==
  ASSUME NEW h, Len(h) \in Nat, NEW k \in Nat, NEW j \in Nat, j <= k, EndsDown(h, k)
  PROVE  EndsDown(h, j)
  BY DEF EndsDown

LEMMA RunBreaks ==
  ASSUME NEW h \in Seq(Status), NEW k \in Nat, EndsDown(Append(h, "up"), k)
  PROVE  k = 0
<1> DEFINE g == Append(h, "up")
<1>1. Len(h) \in Nat /\ Len(g) = Len(h) + 1 /\ g[Len(h) + 1] = "up"
  BY AppendProperties DEF Status
<1> HIDE DEF g
<1>2. EndsDown(g, k)
  BY DEF g
<1>3. QED
  BY <1>1, <1>2 DEF EndsDown

LEMMA RunOfNone ==
  ASSUME NEW h \in Seq(Status), NEW x \in Status
  PROVE  EndsDown(Append(h, x), 0)
<1>1. Len(h) \in Nat /\ Len(Append(h, x)) = Len(h) + 1
  BY AppendProperties
<1>2. QED
  BY <1>1 DEF EndsDown

(* The length of the run at the end of the history, after one more status. *)
LEMMA RunLength ==
  ASSUME NEW h \in Seq(Status), NEW x \in Status, NEW d \in Nat,
         EndsDown(h, d), \A k \in Nat : EndsDown(h, k) => k <= d
  PROVE  LET e == IF x = "down" THEN d + 1 ELSE 0
         IN  /\ EndsDown(Append(h, x), e)
             /\ \A k \in Nat : EndsDown(Append(h, x), k) => k <= e
<1>1. CASE x = "down"
  <2>1. EndsDown(Append(h, x), d + 1)
    BY <1>1, RunGrows
  <2>2. ASSUME NEW k \in Nat, EndsDown(Append(h, x), k)
        PROVE  k <= d + 1
    <3>1. CASE k = 0
      BY <3>1
    <3>2. CASE k # 0
      <4>1. k - 1 \in Nat /\ k = (k - 1) + 1
        BY <3>2
      <4>2. EndsDown(h, k - 1)
        BY <1>1, <2>2, <4>1, RunGrows
      <4>3. QED
        BY <4>1, <4>2
    <3>3. QED
      BY <3>1, <3>2
  <2>3. QED
    BY <1>1, <2>1, <2>2
<1>2. CASE x = "up"
  BY <1>2, RunBreaks, RunOfNone
<1>3. QED
  BY <1>1, <1>2 DEF Status

-----------------------------------------------------------------------------
(* The loop's memory of a service is accurate.                             *)

LEMMA InitIInv == Init => IInv
<1> SUFFICES ASSUME Init PROVE IInv
  OBVIOUS
<1>1. ASSUME NEW s \in Services PROVE Remembers(s)
  <2>1. /\ s \notin observed /\ seen[s] = <<>> /\ alert[s].down = 0
        /\ alert[s].notified = FALSE /\ ~Alerted(s)
    BY DEF Init, Fresh, Alerted
  <2>2. \A k \in Nat : ~EndsDown(seen[s], k)
    BY <2>1 DEF EndsDown
  <2>3. \E t \in Thresholds : 0 < t
    BY AlertsAssumption
  <2>4. QED
    BY <2>1, <2>2, <2>3 DEF Remembers, Unknown
<1>2. Held
  BY DEF Init, Held, Idle
<1>3. QED
  BY <1>1, <1>2, InitType DEF IInv

(* A step that touches neither the histories nor the bookkeeping.          *)
LEMMA MemoryKept ==
  ASSUME UNCHANGED <<observed, alert, seen, last>>, NEW s \in Services, Remembers(s)
  PROVE  Remembers(s)'
  BY DEF Remembers, Unknown, EndsDown, Alerted

(* Whom an alert is to reach is all that changes of it when it is sent.    *)
LEMMA SpawnSays ==
  ASSUME TypeOK, SpawnDeliveries, NEW r \in Services
  PROVE  /\ last'[r].n = last[r].n /\ last'[r].kind = last[r].kind /\ last'[r].at = last[r].at
         /\ r # loop.ev.svc => last'[r] = last[r]
<1>1. PICK chosen \in SUBSET Channels : last' = [last EXCEPT ![loop.ev.svc].to = chosen]
  BY DEF SpawnDeliveries
<1>2. last \in [Services -> LastAlert] /\ last[r] \in LastAlert
  BY DEF TypeOK
<1>3. last'[r] = IF r = loop.ev.svc THEN [last[r] EXCEPT !.to = chosen] ELSE last[r]
  BY <1>1, <1>2
<1>4. QED
  BY <1>2, <1>3 DEF LastAlert

(* The verdict on a status, in terms of the bookkeeping it is made from.   *)
LEMMA JudgeStep ==
  ASSUME TypeOK, Judge
  PROVE  LET s == loop.ev.svc
         IN  /\ s \in Services /\ loop.ev.status \in Status /\ loop.threshold \in Thresholds
             /\ \A r \in Services \ {s} :
                  seen'[r] = seen[r] /\ alert'[r] = alert[r] /\ last'[r] = last[r]
             /\ seen'[s] = Append(seen[s], loop.ev.status)
             /\ \E i \in {rules.interval, DefaultInterval} :
                  LET v == Verdict(i)
                  IN  /\ alert'[s] = v.state
                      /\ IF v.fire = "none"
                         THEN last'[s] = last[s] /\ loop' = Idle
                         ELSE /\ last'[s] = [n |-> last[s].n + 1, kind |-> v.fire,
                                             at |-> clock, prev |-> loop.prev, to |-> {}]
                              /\ loop' = [pc |-> "channels", ev |-> loop.ev, kind |-> v.fire]
<1>1. loop.pc = "interval" /\ loop.ev \in Event /\ loop.threshold \in Thresholds
  BY DEF Judge, TypeOK, LoopState
<1>2. loop.ev.svc \in Services /\ loop.ev.status \in Status
  BY <1>1 DEF Event
<1> DEFINE s == loop.ev.svc
<1>3. /\ seen \in [Services -> Seq(Status)] /\ alert \in [Services -> AlertState]
      /\ last \in [Services -> LastAlert]
  BY DEF TypeOK
<1>4. /\ seen' = [seen EXCEPT ![s] = Append(@, loop.ev.status)]
      /\ \E i \in {rules.interval, DefaultInterval} :
           LET v == Verdict(i)
           IN  /\ alert' = [alert EXCEPT ![s] = v.state]
               /\ IF v.fire = "none"
                  THEN loop' = Idle /\ UNCHANGED last
                  ELSE /\ loop' = [pc |-> "channels", ev |-> loop.ev, kind |-> v.fire]
                       /\ last' = [last EXCEPT ![s] = [n |-> @.n + 1, kind |-> v.fire,
                                                       at |-> clock, prev |-> loop.prev,
                                                       to |-> {}]]
  BY DEF Judge
<1>5. QED
  BY <1>1, <1>2, <1>3, <1>4

LEMMA JudgeRemembers ==
  ASSUME IInv, Judge, NEW r \in Services
  PROVE  Remembers(r)'
<1> DEFINE s == loop.ev.svc
           x == loop.ev.status
           a == alert[s]
<1>1. /\ s \in Services /\ x \in Status /\ loop.threshold \in Thresholds /\ loop.threshold \in Nat \ {0}
      /\ s \in observed /\ observed' = observed
  BY JudgeStep, AlertsAssumption DEF IInv, Held, Judge
<1>2. CASE r # s
  <2>1. seen'[r] = seen[r] /\ alert'[r] = alert[r] /\ last'[r] = last[r]
    BY <1>2, JudgeStep DEF IInv
  <2>2. Remembers(r)
    BY DEF IInv
  <2>3. QED
    BY <1>1, <2>1, <2>2 DEF Remembers, Unknown, EndsDown, Alerted
<1>3. CASE r = s
  <2>1. Remembers(s) /\ seen[s] \in Seq(Status) /\ a \in AlertState
    BY <1>1 DEF IInv, TypeOK
  <2>2. a.down \in Nat /\ a.notified \in BOOLEAN /\ clock \in Nat /\ a.notifiedAt \in Nat
    BY <2>1 DEF AlertState, IInv, TypeOK
  <2>3. EndsDown(seen[s], a.down) /\ \A k \in Nat : EndsDown(seen[s], k) => k <= a.down
    BY <1>1, <2>1 DEF Remembers
  <2> DEFINE e == IF x = "down" THEN a.down + 1 ELSE 0
  <2>4. EndsDown(seen'[s], e) /\ \A k \in Nat : EndsDown(seen'[s], k) => k <= e
    <3>1. seen'[s] = Append(seen[s], x)
      BY JudgeStep DEF IInv
    <3>2. QED
      BY <1>1, <2>1, <2>2, <2>3, <3>1, RunLength
  <2>5. PICK i \in {rules.interval, DefaultInterval} :
               LET v == Verdict(i)
               IN  /\ alert'[s] = v.state
                   /\ IF v.fire = "none"
                      THEN last'[s] = last[s] /\ loop' = Idle
                      ELSE /\ last'[s] = [n |-> last[s].n + 1, kind |-> v.fire,
                                          at |-> clock, prev |-> loop.prev, to |-> {}]
                           /\ loop' = [pc |-> "channels", ev |-> loop.ev, kind |-> v.fire]
    BY JudgeStep DEF IInv
  <2>6. a.notified <=> Alerted(s)
    BY <2>1 DEF Remembers
  <2>7. /\ alert'[s].down = e
        /\ alert'[s].notified <=> last'[s].kind = "service.down"
        /\ alert'[s].notified => e > 0 /\ alert'[s].notifiedAt = last'[s].at
        /\ ~alert'[s].notified => \E t \in Thresholds : e < t
    <3>1. CASE x = "down" /\ ShouldFire(a, loop.threshold, i, clock)
      <4>1. Verdict(i) = [fire |-> "service.down",
                          state |-> [a EXCEPT !.down = @ + 1, !.notified = TRUE,
                                              !.notifiedAt = clock]]
        BY <3>1 DEF Verdict, decide_fire, JudgeDown
      <4>2. /\ alert'[s].down = a.down + 1 /\ alert'[s].notified = TRUE
            /\ alert'[s].notifiedAt = clock
            /\ last'[s].kind = "service.down" /\ last'[s].at = clock
        <5> DEFINE u == [a EXCEPT !.down = @ + 1, !.notified = TRUE, !.notifiedAt = clock]
        <5>1. u.down = a.down + 1 /\ u.notified = TRUE /\ u.notifiedAt = clock
          BY <2>1 DEF AlertState
        <5>2. alert'[s] = u
          BY <2>5, <4>1
        <5>3. last'[s] = [n |-> last[s].n + 1, kind |-> "service.down",
                          at |-> clock, prev |-> loop.prev, to |-> {}]
          BY <2>5, <4>1
        <5> HIDE DEF u
        <5>4. QED
          BY <5>1, <5>2, <5>3
      <4>3. QED
        BY <2>2, <3>1, <4>2
    <3>2. CASE x = "down" /\ ~ShouldFire(a, loop.threshold, i, clock)
      <4>1. Verdict(i) = [fire |-> "none", state |-> [a EXCEPT !.down = @ + 1]]
        BY <3>2 DEF Verdict, decide_fire, JudgeDown
      <4>2. /\ alert'[s].down = a.down + 1 /\ alert'[s].notified = a.notified
            /\ alert'[s].notifiedAt = a.notifiedAt /\ last'[s] = last[s]
        BY <2>1, <2>5, <4>1 DEF AlertState
      <4>3. a.notified => a.notifiedAt = last[s].at
        BY <2>1 DEF Remembers
      <4>4. ~a.notified => a.down + 1 < loop.threshold
        BY <1>1, <2>2, <3>2 DEF ShouldFire
      <4>5. QED
        BY <1>1, <2>2, <2>6, <3>2, <4>2, <4>3, <4>4 DEF Alerted
    <3>3. CASE x = "up"
      <4>1. Verdict(i) = JudgeUp(a)
        BY <3>3 DEF Verdict, decide_fire
      <4>2. alert'[s].down = 0 /\ alert'[s].notified = FALSE
        <5>1. JudgeUp(a).state.down = 0 /\ JudgeUp(a).state.notified = FALSE
          BY <2>1 DEF AlertState, JudgeUp
        <5>2. alert'[s] = JudgeUp(a).state
          BY <2>5, <4>1
        <5>3. QED
          BY <5>1, <5>2
      <4>3. last'[s].kind # "service.down"
        <5>1. CASE a.notified
          BY <2>5, <4>1, <5>1 DEF JudgeUp
        <5>2. CASE ~a.notified
          BY <2>5, <2>6, <4>1, <5>2 DEF JudgeUp, Alerted
        <5>3. QED
          BY <5>1, <5>2
      <4>4. \E t \in Thresholds : 0 < t
        BY AlertsAssumption
      <4>5. QED
        BY <3>3, <4>2, <4>3, <4>4
    <3>4. QED
      BY <1>1, <3>1, <3>2, <3>3 DEF Status
  <2>8. QED
    BY <1>1, <1>3, <2>4, <2>7 DEF Remembers, Alerted, EndsDown
<1>4. QED
  BY <1>2, <1>3

LEMMA ReceiveFirstRemembers ==
  ASSUME IInv, ReceiveFirst, NEW r \in Services
  PROVE  Remembers(r)'
<1> DEFINE s == Head(queue).svc
           x == Head(queue).status
<1>1. s \in Services /\ x \in Status /\ s \notin observed
  BY ReceiveType DEF ReceiveFirst, IInv, Event
<1>2. /\ observed' = observed \cup {s} /\ UNCHANGED last
      /\ alert' = [alert EXCEPT ![s] = Fresh(x)]
      /\ seen' = [seen EXCEPT ![s] = Append(@, x)]
  BY DEF ReceiveFirst, Receive
<1>3. CASE r # s
  BY <1>1, <1>2, <1>3 DEF IInv, TypeOK, Remembers, Unknown, EndsDown, Alerted
<1>4. CASE r = s
  <2>1. /\ alert'[s].down = 0 /\ alert'[s].notified = FALSE
        /\ seen'[s] = Append(<<>>, x) /\ last'[s] = last[s] /\ ~Alerted(s)
    BY <1>1, <1>2 DEF IInv, TypeOK, Remembers, Unknown, Fresh
  <2>2. Len(seen'[s]) = 1
    BY <1>1, <2>1, AppendProperties
  <2>3. EndsDown(seen'[s], 0) /\ \A k \in Nat : EndsDown(seen'[s], k) => k <= 0
    BY <2>2 DEF EndsDown
  <2>4. \E t \in Thresholds : 0 < t
    BY AlertsAssumption
  <2>5. QED
    BY <1>2, <1>4, <2>1, <2>3, <2>4 DEF Remembers, Alerted, EndsDown
<1>5. QED
  BY <1>3, <1>4

LEMMA ReceiveNextRemembers ==
  ASSUME IInv, ReceiveNext, NEW r \in Services
  PROVE  Remembers(r)'
<1> DEFINE s == Head(queue).svc
           x == Head(queue).status
<1>1. s \in Services /\ x \in Status
  BY ReceiveType DEF ReceiveNext, IInv, Event
<1>2. UNCHANGED <<observed, seen, last>> /\ alert' = [alert EXCEPT ![s].lastStatus = x]
  BY DEF ReceiveNext, Receive
<1>3. alert \in [Services -> AlertState] /\ Remembers(r)
  BY DEF IInv, TypeOK
<1>4. /\ alert'[r].down = alert[r].down /\ alert'[r].notified = alert[r].notified
      /\ alert'[r].notifiedAt = alert[r].notifiedAt
  <2>1. alert[r] \in AlertState
    BY <1>3
  <2>2. alert'[r] = IF r = s THEN [alert[r] EXCEPT !.lastStatus = x] ELSE alert[r]
    BY <1>2, <1>3
  <2>3. QED
    BY <2>1, <2>2 DEF AlertState
<1>5. QED
  BY <1>2, <1>3, <1>4 DEF Remembers, Unknown, EndsDown, Alerted

(* A restart forgets every service, so nothing is announced any more.      *)
LEMMA RestartRemembers ==
  ASSUME IInv, Restart, NEW r \in Services
  PROVE  Remembers(r)'
<1>1. /\ observed' = {} /\ seen'[r] = <<>> /\ alert'[r].down = 0
      /\ alert'[r].notified = FALSE
  BY DEF Restart, Fresh
<1>2. last'[r].kind = "none"
  <2>1. last[r] \in LastAlert
    BY DEF IInv, TypeOK
  <2>2. last'[r] = [last[r] EXCEPT !.kind = "none"]
    BY DEF Restart
  <2>3. QED
    BY <2>1, <2>2 DEF LastAlert
<1>3. \A k \in Nat : ~EndsDown(seen'[r], k)
  BY <1>1 DEF EndsDown
<1>4. \E t \in Thresholds : 0 < t
  BY AlertsAssumption
<1>5. QED
  BY <1>1, <1>2, <1>3, <1>4 DEF Remembers, Unknown, Alerted, EndsDown

LEMMA NextIInv == IInv /\ [Next]_vars => IInv'
<1> SUFFICES ASSUME IInv, [Next]_vars PROVE IInv'
  OBVIOUS
<1>1. TypeOK'
  BY NextType DEF IInv
<1> DEFINE Memory == <<observed, alert, seen, last>>
<1>2. ASSUME UNCHANGED Memory PROVE \A r \in Services : Remembers(r)'
  BY <1>2, MemoryKept DEF IInv
<1>3. ASSUME UNCHANGED Memory, UNCHANGED loop PROVE Held'
  BY <1>3 DEF IInv, Held
<1>4. ASSUME UNCHANGED Memory, UNCHANGED loop PROVE IInv'
  BY <1>1, <1>2, <1>3, <1>4 DEF IInv
<1>5. CASE \E s \in Services, status \in Status : Publish(s, status)
  BY <1>4, <1>5 DEF Publish
<1>6. CASE ReceiveLagged
  BY <1>4, <1>6 DEF ReceiveLagged
<1>7. CASE ReceiveFirst
  <2>1. Held'
    BY <1>7 DEF ReceiveFirst, Receive, IInv, Held
  <2>2. QED
    BY <1>1, <1>7, <2>1, ReceiveFirstRemembers DEF IInv
<1>8. CASE ReceiveNext
  <2>1. Held'
    BY <1>8 DEF ReceiveNext, Receive, Held
  <2>2. QED
    BY <1>1, <1>8, <2>1, ReceiveNextRemembers DEF IInv
<1>9. CASE ReadThreshold
  <2>1. Held'
    BY <1>9 DEF ReadThreshold, IInv, Held
  <2>2. QED
    BY <1>1, <1>2, <1>9, <2>1 DEF ReadThreshold, IInv
<1>10. CASE Judge
  <2>1. loop'.pc \in {"recv", "channels"}
    BY <1>10, JudgeStep DEF IInv, Idle
  <2>2. QED
    BY <1>1, <1>10, <2>1, JudgeRemembers DEF IInv, Held
<1>11. CASE SpawnDeliveries
  <2>1. Held'
    BY <1>11 DEF SpawnDeliveries, Held, Idle
  <2>2. ASSUME NEW r \in Services PROVE Remembers(r)'
    <3>1. /\ last'[r].kind = last[r].kind /\ last'[r].at = last[r].at
          /\ UNCHANGED <<observed, alert, seen>>
      BY <1>11, SpawnSays DEF SpawnDeliveries, IInv
    <3>2. QED
      BY <3>1 DEF IInv, Remembers, Unknown, EndsDown, Alerted
  <2>3. QED
    BY <1>1, <2>1, <2>2 DEF IInv
<1>12. CASE \E s \in Services, c \in Channels, n \in 1..MaxEvents : DeliveryStep(s, n, c)
  BY <1>4, <1>12 DEF DeliveryStep, SendSucceeds, SendFails, Resend, Becomes
<1>13. CASE UpdateThreshold
  BY <1>4, <1>13 DEF UpdateThreshold
<1>14. CASE UpdateInterval
  BY <1>4, <1>14 DEF UpdateInterval
<1>15. CASE Tick
  BY <1>4, <1>15 DEF Tick
<1>16. CASE Restart
  <2>1. Held'
    BY <1>16 DEF Restart, Held, Idle
  <2>2. QED
    BY <1>1, <1>16, <2>1, RestartRemembers DEF IInv
<1>17. CASE UNCHANGED vars
  BY <1>4, <1>17 DEF vars
<1>18. QED
  BY <1>5, <1>6, <1>7, <1>8, <1>9, <1>10, <1>11, <1>12, <1>13, <1>14, <1>15, <1>16, <1>17
  DEF Next, LoopStep

(* What the loop remembers of a service is always what it has seen of it.  *)
THEOREM MemoryAccurate == Spec => []IInv
  BY InitIInv, NextIInv, PTL DEF Spec

-----------------------------------------------------------------------------
(* The properties of the alerts.                                           *)

LEMMA IInvAnnounces == IInv => OutageAnnounced
<1> SUFFICES ASSUME IInv, NEW s \in Services
             PROVE  /\ Alerted(s) => EndsDown(seen[s], 1)
                    /\ (\E k \in 1..Len(seen[s]) :
                          EndsDown(seen[s], k) /\ \A t \in Thresholds : k >= t)
                         => Alerted(s)
  BY DEF OutageAnnounced
<1>1. /\ Remembers(s) /\ seen[s] \in Seq(Status) /\ alert[s].down \in Nat
      /\ Thresholds \subseteq Nat
  BY AlertsAssumption DEF IInv, TypeOK, AlertState
<1>2. ASSUME Alerted(s) PROVE EndsDown(seen[s], 1)
  <2>1. alert[s].down > 0 /\ s \in observed
    BY <1>1, <1>2 DEF Remembers, Unknown
  <2>2. EndsDown(seen[s], alert[s].down)
    BY <1>1, <2>1 DEF Remembers
  <2>3. QED
    BY <1>1, <2>1, <2>2 DEF EndsDown
<1>3. ASSUME NEW k \in 1..Len(seen[s]), EndsDown(seen[s], k), \A t \in Thresholds : k >= t
      PROVE  Alerted(s)
  <2>1. k \in Nat /\ k <= alert[s].down
    BY <1>1, <1>3 DEF Remembers
  <2>2. ASSUME NEW t \in Thresholds PROVE ~(alert[s].down < t)
    <3>1. t \in Nat /\ k >= t
      BY <1>1, <1>3
    <3>2. QED
      BY <1>1, <2>1, <3>1
  <2>3. QED
    BY <1>1, <2>2 DEF Remembers
<1>4. QED
  BY <1>2, <1>3

(* No outage longer than every threshold is passed over, and no alert      *)
(* stays open after a recovery.                                            *)
THEOREM NoOutageMissed == Spec => []OutageAnnounced
  BY MemoryAccurate, IInvAnnounces, PTL

(* Only a verdict of the loop raises an alert.                             *)
LEMMA OnlyJudgeAlerts ==
  ASSUME TypeOK, [Next]_vars, NEW s \in Services, last'[s].n # last[s].n
  PROVE  Judge /\ loop.ev.svc = s
<1>1. ASSUME UNCHANGED last PROVE FALSE
  BY <1>1
<1>2. ASSUME Restart PROVE FALSE
  <2>1. last[s] \in LastAlert
    BY DEF TypeOK
  <2>2. last'[s] = [last[s] EXCEPT !.kind = "none"]
    BY <1>2 DEF Restart
  <2>3. QED
    BY <2>1, <2>2 DEF LastAlert
<1>3. ASSUME LoopStep, ~Judge PROVE FALSE
  <2>1. CASE SpawnDeliveries
    BY <2>1, SpawnSays
  <2>2. CASE ~SpawnDeliveries
    BY <1>1, <1>3, <2>2 DEF LoopStep, ReceiveLagged, ReceiveFirst, ReceiveNext, Receive,
                            ReadThreshold
  <2>3. QED
    BY <2>1, <2>2
<1>4. ASSUME NEW r \in Services, NEW c \in Channels, NEW n \in 1..MaxEvents, DeliveryStep(r, n, c)
      PROVE  FALSE
  BY <1>1, <1>4 DEF DeliveryStep, SendSucceeds, SendFails, Resend, Becomes
<1>5. Judge
  BY <1>1, <1>2, <1>3, <1>4 DEF Next, Publish, UpdateThreshold, UpdateInterval, Tick, vars
<1>6. QED
  BY <1>5, JudgeStep

(* The alert of a service is the verdict on its newest status.             *)
LEMMA AlertVerdict ==
  ASSUME IInv, [Next]_vars, NEW s \in Services, last'[s].n # last[s].n,
         last'[s].kind = "service.down"
  PROVE  /\ loop.ev.svc = s /\ loop.ev.status = "down" /\ Judge
         /\ last'[s].at = clock /\ seen'[s] = Append(seen[s], "down")
         /\ loop.threshold \in Nat
         /\ \E i \in {rules.interval, DefaultInterval} :
              ShouldFire(alert[s], loop.threshold, i, clock)
<1>1. Judge /\ loop.ev.svc = s /\ TypeOK
  BY OnlyJudgeAlerts DEF IInv
<1>2. PICK i \in {rules.interval, DefaultInterval} :
        LET v == Verdict(i)
        IN  IF v.fire = "none"
            THEN last'[s] = last[s]
            ELSE last'[s] = [n |-> last[s].n + 1, kind |-> v.fire,
                             at |-> clock, prev |-> loop.prev, to |-> {}]
  BY <1>1, JudgeStep
<1>3. Verdict(i).fire = "service.down" /\ last'[s].at = clock
  BY <1>2
<1>4. loop.ev.status = "down" /\ ShouldFire(alert[s], loop.threshold, i, clock)
  BY <1>1, <1>3 DEF Verdict, decide_fire, JudgeDown, JudgeUp
<1>5. seen'[s] = Append(seen[s], "down") /\ loop.threshold \in Nat
  BY <1>1, <1>4, JudgeStep, AlertsAssumption
<1>6. QED
  BY <1>1, <1>3, <1>4, <1>5

LEMMA ThresholdStep ==
  ASSUME IInv, [Next]_vars, NEW s \in Services, last'[s].n # last[s].n,
         last'[s].kind = "service.down", ~Alerted(s)
  PROVE  EndsDown(seen'[s], loop.threshold)
<1>1. /\ Remembers(s) /\ seen[s] \in Seq(Status) /\ alert[s].down \in Nat
      /\ loop.threshold \in Nat /\ Judge /\ loop.ev.svc = s
      /\ seen'[s] = Append(seen[s], "down")
  BY AlertVerdict DEF IInv, TypeOK, AlertState
<1>2. ~alert[s].notified
  BY <1>1 DEF Remembers
<1>3. alert[s].down + 1 >= loop.threshold
  BY <1>2, AlertVerdict DEF ShouldFire
<1>4. EndsDown(seen[s], alert[s].down)
  BY <1>1 DEF IInv, Held, Judge, Remembers
<1>5. seen[s] \in Seq(Status) /\ alert[s].down \in Nat
  BY <1>1
<1>6. EndsDown(Append(seen[s], "down"), alert[s].down + 1)
  BY <1>4, <1>5, RunGrows
<1> DEFINE h == Append(seen[s], "down")
           k == alert[s].down + 1
<1>7. Len(h) \in Nat /\ k \in Nat /\ loop.threshold \in Nat /\ loop.threshold <= k
  <2>1. h \in Seq(Status)
    BY <1>5, AppendProperties DEF Status
  <2>2. QED
    BY <1>1, <1>3, <1>5, <2>1
<1> HIDE DEF h, k
<1>8. EndsDown(h, loop.threshold)
  BY <1>6, <1>7, ShorterRun DEF h, k
<1>9. QED
  BY <1>1, <1>8 DEF h

(* An outage is announced only on as many consecutive failures as the      *)
(* threshold the loop read asks for.                                       *)
THEOREM ThresholdRespected == Spec => ThresholdMet
<1>1. IInv /\ [Next]_vars =>
        [\A s \in Services :
           /\ last'[s].n # last[s].n /\ last'[s].kind = "service.down" /\ ~Alerted(s)
           => EndsDown(seen'[s], loop.threshold)]_vars
  BY ThresholdStep
<1>2. QED
  BY <1>1, MemoryAccurate, PTL DEF Spec, ThresholdMet

LEMMA RepeatStep ==
  ASSUME IInv, [Next]_vars, NEW s \in Services, last'[s].n # last[s].n,
         last'[s].kind = "service.down", Alerted(s)
  PROVE  rules.interval > 0 /\ last'[s].at - last[s].at >= rules.interval
<1>1. alert[s].notified /\ alert[s].notifiedAt = last[s].at
  BY DEF IInv, Remembers
<1>2. PICK i \in {rules.interval, DefaultInterval} : RepeatDue(alert[s], i, clock)
  BY <1>1, AlertVerdict DEF ShouldFire
<1>3. i = rules.interval
  BY <1>2 DEF RepeatDue, DefaultInterval
<1>4. last'[s].at = clock
  BY AlertVerdict
<1>5. QED
  BY <1>1, <1>2, <1>3, <1>4 DEF RepeatDue

(* Repeats of an announced outage are at least the interval apart.         *)
THEOREM RepeatsSpaced == Spec => RepeatSpacing
<1>1. IInv /\ [Next]_vars =>
        [\A s \in Services :
           /\ last'[s].n # last[s].n /\ last'[s].kind = "service.down" /\ Alerted(s)
           => /\ rules.interval > 0
              /\ last'[s].at - last[s].at >= rules.interval]_vars
  BY RepeatStep
<1>2. QED
  BY <1>1, MemoryAccurate, PTL DEF Spec, RepeatSpacing

-----------------------------------------------------------------------------
(* The notifications of a service form outages.                            *)

Phase == [s \in Services |-> IF alert[s].notified THEN "alerting" ELSE "quiet"]
Said  == [s \in Services |-> [n |-> last[s].n, kind |-> last[s].kind]]

LEMMA InitOutages == Init => Abstract!Init
  BY DEF Init, Abstract!Init, Fresh

(* A step that raises no alert and keeps what is announced is a stutter.   *)
LEMMA QuietStep ==
  ASSUME \A s \in Services : alert'[s].notified = alert[s].notified,
         \A s \in Services : last'[s].n = last[s].n /\ last'[s].kind = last[s].kind
  PROVE  UNCHANGED Abstract!avars
  BY DEF Abstract!avars

LEMMA OutageStep ==
  ASSUME NEW r \in Services, Abstract!Raise(r) \/ Abstract!Repeat(r) \/ Abstract!Recover(r)
  PROVE  Abstract!Next
  BY DEF Abstract!Next

(* The verdict on one service, seen through the refinement mapping.        *)
LEMMA JudgeOutage ==
  ASSUME IInv, Judge, NEW s \in Services, s = loop.ev.svc
  PROVE  [Abstract!Next]_(Abstract!avars)
<1> DEFINE a == alert[s]
<1>1. /\ s \in Services /\ loop.ev.status \in Status /\ a \in AlertState
      /\ Remembers(s) /\ a.notified \in BOOLEAN
      /\ \A r \in Services \ {s} : alert'[r] = alert[r] /\ last'[r] = last[r]
  BY JudgeStep DEF IInv, TypeOK, AlertState
<1>2. PICK i \in {rules.interval, DefaultInterval} :
        LET v == Verdict(i)
        IN  /\ alert'[s] = v.state
            /\ IF v.fire = "none"
               THEN last'[s] = last[s] /\ loop' = Idle
               ELSE /\ last'[s] = [n |-> last[s].n + 1, kind |-> v.fire,
                                   at |-> clock, prev |-> loop.prev, to |-> {}]
                    /\ loop' = [pc |-> "channels", ev |-> loop.ev, kind |-> v.fire]
  BY JudgeStep DEF IInv
<1> DEFINE v == Verdict(i)
<1>3. CASE v.fire = "none"
  <2>1. v.state.notified = a.notified
    <3>1. CASE loop.ev.status = "down"
      BY <1>1, <1>3, <3>1 DEF Verdict, decide_fire, JudgeDown, AlertState
    <3>2. CASE loop.ev.status # "down"
      BY <1>1, <1>3, <3>2 DEF Verdict, decide_fire, JudgeUp, AlertState
    <3>3. QED
      BY <3>1, <3>2
  <2>2. alert'[s].notified = a.notified /\ last'[s] = last[s]
    BY <1>2, <1>3, <2>1
  <2>3. QED
    BY <1>1, <2>2, QuietStep
<1>4. CASE v.fire = "service.down"
  <2>1. v.state.notified = TRUE
    BY <1>1, <1>4 DEF Verdict, decide_fire, JudgeDown, JudgeUp, AlertState
  <2>2. alert'[s].notified = TRUE /\ last'[s].n = last[s].n + 1 /\ last'[s].kind = "service.down"
    BY <1>2, <1>4, <2>1
  <2>3. Said' = [Said EXCEPT ![s] = [n |-> @.n + 1, kind |-> "service.down"]]
    BY <1>1, <2>2 DEF Said
  <2>4. Phase' = [Phase EXCEPT ![s] = "alerting"]
    BY <1>1, <2>2 DEF Phase
  <2>5. CASE a.notified
    <3>1. Phase[s] = "alerting" /\ Phase' = Phase
      BY <1>1, <2>4, <2>5 DEF Phase
    <3>2. Abstract!Repeat(s)
      BY <2>3, <3>1 DEF Abstract!Repeat, Abstract!Say, Phase, Said
    <3>3. QED
      BY <1>1, <3>2, OutageStep
  <2>6. CASE ~a.notified
    <3>1. Phase[s] = "quiet"
      BY <1>1, <2>6 DEF Phase
    <3>2. Abstract!Raise(s)
      BY <2>3, <2>4, <3>1 DEF Abstract!Raise, Abstract!Say, Phase, Said
    <3>3. QED
      BY <1>1, <3>2, OutageStep
  <2>7. QED
    BY <2>5, <2>6
<1>5. CASE v.fire = "service.up"
  <2>1. a.notified /\ v.state.notified = FALSE
    BY <1>1, <1>5 DEF Verdict, decide_fire, JudgeDown, JudgeUp, AlertState
  <2>2. alert'[s].notified = FALSE /\ last'[s].n = last[s].n + 1 /\ last'[s].kind = "service.up"
    BY <1>2, <1>5, <2>1
  <2>3. Said' = [Said EXCEPT ![s] = [n |-> @.n + 1, kind |-> "service.up"]]
    BY <1>1, <2>2 DEF Said
  <2>4. Phase' = [Phase EXCEPT ![s] = "quiet"]
    BY <1>1, <2>2 DEF Phase
  <2>5. Phase[s] = "alerting"
    BY <1>1, <2>1 DEF Phase
  <2>6. Abstract!Recover(s)
    BY <2>3, <2>4, <2>5 DEF Abstract!Recover, Abstract!Say, Phase, Said
  <2>7. QED
    BY <1>1, <2>6, OutageStep
<1>6. v.fire \in {"none", "service.down", "service.up"}
  BY DEF Verdict, decide_fire, JudgeDown, JudgeUp
<1>7. QED
  BY <1>3, <1>4, <1>5, <1>6

LEMMA StepOutages == IInv /\ [Next]_vars => [Abstract!Next]_(Abstract!avars)
<1> SUFFICES ASSUME IInv, [Next]_vars PROVE [Abstract!Next]_(Abstract!avars)
  OBVIOUS
<1>1. ASSUME UNCHANGED <<alert, last>> PROVE UNCHANGED Abstract!avars
  BY <1>1, QuietStep
<1>2. CASE Judge
  <2>1. PICK s \in Services : s = loop.ev.svc
    BY <1>2, JudgeStep DEF IInv
  <2>2. QED
    BY <1>2, <2>1, JudgeOutage
<1>3. CASE ReceiveFirst
  <2> DEFINE s == Head(queue).svc
  <2>1. s \in Services /\ s \notin observed /\ UNCHANGED last
    BY <1>3, ReceiveType DEF ReceiveFirst, Receive, IInv, Event
  <2>2. /\ alert[s].notified = FALSE
        /\ alert' = [alert EXCEPT ![s] = Fresh(Head(queue).status)]
    BY <1>3, <2>1 DEF ReceiveFirst, IInv, Remembers, Unknown, TypeOK, AlertState
  <2>3. \A r \in Services : alert'[r].notified = alert[r].notified
    BY <2>1, <2>2 DEF Fresh, IInv, TypeOK
  <2>4. QED
    BY <2>1, <2>3, QuietStep
<1>4. CASE ReceiveNext
  <2>1. UNCHANGED last
    BY <1>4 DEF ReceiveNext, Receive
  <2>2. ASSUME NEW r \in Services PROVE alert'[r].notified = alert[r].notified
    <3>1. alert[r] \in AlertState /\ alert \in [Services -> AlertState]
      BY DEF IInv, TypeOK
    <3>2. alert' = [alert EXCEPT ![Head(queue).svc].lastStatus = Head(queue).status]
      BY <1>4 DEF ReceiveNext
    <3>3. QED
      BY <3>1, <3>2 DEF AlertState
  <2>3. QED
    BY <2>1, <2>2, QuietStep
<1>5. CASE Restart
  <2>1. Phase' = [s \in Services |-> "quiet"]
    BY <1>5 DEF Restart, Fresh, Phase
  <2>2. Said' = [s \in Services |-> [Said[s] EXCEPT !.kind = "none"]]
    BY <1>5 DEF Restart, Said, IInv, TypeOK
  <2>3. Abstract!Reboot
    BY <2>1, <2>2 DEF Abstract!Reboot, Phase, Said
  <2>4. QED
    BY <2>3 DEF Abstract!Next
<1>6. CASE \E r \in Services, c \in Channels, n \in 1..MaxEvents : DeliveryStep(r, n, c)
  BY <1>1, <1>6 DEF DeliveryStep, SendSucceeds, SendFails, Resend, Becomes
<1>7. CASE ReceiveLagged \/ ReadThreshold \/ SpawnDeliveries
  <2>1. CASE SpawnDeliveries
    <3>1. UNCHANGED alert /\ TypeOK
      BY <2>1 DEF SpawnDeliveries, IInv
    <3>2. \A r \in Services : last'[r].n = last[r].n /\ last'[r].kind = last[r].kind
      BY <2>1, <3>1, SpawnSays
    <3>3. QED
      BY <3>1, <3>2, QuietStep
  <2>2. CASE ReceiveLagged \/ ReadThreshold
    BY <1>1, <2>2 DEF ReceiveLagged, ReadThreshold
  <2>3. QED
    BY <1>7, <2>1, <2>2
<1>8. CASE UpdateThreshold \/ UpdateInterval \/ Tick \/ UNCHANGED vars
  BY <1>1, <1>8 DEF UpdateThreshold, UpdateInterval, Tick, vars
<1>9. CASE \E s \in Services, status \in Status : Publish(s, status)
  BY <1>1, <1>9 DEF Publish
<1>10. QED
  BY <1>2, <1>3, <1>4, <1>5, <1>6, <1>7, <1>8, <1>9 DEF Next, LoopStep

(* The loop implements the alerting that OutageAlerts promises.            *)
THEOREM AlertsRefine == Spec => AlertsFormOutages
  BY InitOutages, StepOutages, MemoryAccurate, PTL DEF Spec, AlertsFormOutages, Abstract!Spec

-----------------------------------------------------------------------------
(* Deliveries.  Between the sends of a task its count of what the          *)
(* destination got is at most its attempts; and when the loop is about to  *)
(* spawn the tasks of an alert, that alert has none.                       *)
SameTask(t, u) == t.svc = u.svc /\ t.n = u.n /\ t.ch = u.ch

Within(t) ==
  /\ t.attempt <= RetryCount
  /\ t.got <= t.attempt + 1
  /\ t.state = "sending" => t.got <= t.attempt
  /\ t.state = "backoff" => t.attempt < RetryCount
  /\ t.state = "delivered" => t.got > 0
  /\ t.state = "dropped" => t.attempt = RetryCount

NotAhead ==
  /\ \A t \in tasks : t.n <= last[t.svc].n
  /\ loop.pc = "channels" => \A t \in tasks : t.svc = loop.ev.svc => t.n < last[t.svc].n

Told(s, n) == {t.ch : t \in {u \in tasks : u.svc = s /\ u.n = n}}

Reached == \A s \in Services : Told(s, last[s].n) = last[s].to

Accounted ==
  /\ \A t, u \in tasks : SameTask(t, u) => t = u
  /\ \A t \in tasks : Within(t)
  /\ NotAhead
  /\ Reached

LEMMA AccountedIsAccounting == Accounted => DeliveryAccounting
<1> SUFFICES ASSUME Accounted PROVE DeliveryAccounting
  OBVIOUS
<1>1. \A s \in Services : {t.ch : t \in {u \in tasks : u.svc = s /\ u.n = last[s].n}} = last[s].to
  BY DEF Accounted, Reached, Told
<1>2. QED
  BY <1>1 DEF Accounted, DeliveryAccounting, SameTask, Within, NotAhead

(* A step of a task keeps its key and its budget.                          *)
LEMMA TaskStep ==
  ASSUME NEW t \in Task, Within(t), NEW u,
         \/ t.state = "sending" /\ u = [t EXCEPT !.state = "delivered", !.got = @ + 1]
         \/ /\ t.state = "sending"
            /\ \E taken \in {0, 1} : u = [t EXCEPT !.state = AfterFailure(t), !.got = @ + taken]
         \/ t.state = "backoff" /\ u = [t EXCEPT !.state = "sending", !.attempt = @ + 1]
         \/ u = [t EXCEPT !.state = "lost"]
  PROVE  SameTask(t, u) /\ Within(u)
<1>1. RetryCount \in Nat /\ t.attempt \in Nat /\ t.got \in Nat
  BY AlertsAssumption DEF Task
<1>2. CASE t.state = "sending" /\ u = [t EXCEPT !.state = "delivered", !.got = @ + 1]
  BY <1>1, <1>2 DEF Task, SameTask, Within
<1>3. CASE t.state = "sending" /\ \E taken \in {0, 1} :
             u = [t EXCEPT !.state = AfterFailure(t), !.got = @ + taken]
  <2>1. PICK taken \in {0, 1} : u = [t EXCEPT !.state = AfterFailure(t), !.got = @ + taken]
    BY <1>3
  <2>2. /\ u.svc = t.svc /\ u.n = t.n /\ u.ch = t.ch /\ u.attempt = t.attempt
        /\ u.state = AfterFailure(t) /\ u.got = t.got + taken
    BY <2>1 DEF Task
  <2>3. t.got <= t.attempt
    BY <1>3 DEF Within
  <2>4. AfterFailure(t) = IF t.attempt < RetryCount THEN "backoff" ELSE "dropped"
    BY DEF AfterFailure
  <2>5. QED
    BY <1>1, <2>2, <2>3, <2>4 DEF SameTask, Within
<1>4. CASE t.state = "backoff" /\ u = [t EXCEPT !.state = "sending", !.attempt = @ + 1]
  BY <1>1, <1>4 DEF Task, SameTask, Within
<1>5. CASE u = [t EXCEPT !.state = "lost"]
  BY <1>1, <1>5 DEF Task, SameTask, Within
<1>6. QED
  BY <1>2, <1>3, <1>4, <1>5

(* One task of the set is replaced by the next state of it.                *)
LEMMA DeliveryAccounted ==
  ASSUME TypeOK, Accounted,
         NEW s \in Services, NEW n, NEW c \in Channels, DeliveryStep(s, n, c)
  PROVE  Accounted'
<1>1. PICK t \in tasks : SendSucceeds(t) \/ SendFails(t) \/ Resend(t)
  BY DEF DeliveryStep
<1>2. PICK u :
        /\ tasks' = (tasks \ {t}) \cup {u} /\ UNCHANGED <<loop, last>>
        /\ \/ t.state = "sending" /\ u = [t EXCEPT !.state = "delivered", !.got = @ + 1]
           \/ /\ t.state = "sending"
              /\ \E taken \in {0, 1} :
                   u = [t EXCEPT !.state = AfterFailure(t), !.got = @ + taken]
           \/ t.state = "backoff" /\ u = [t EXCEPT !.state = "sending", !.attempt = @ + 1]
  BY <1>1 DEF SendSucceeds, SendFails, Resend, Becomes
<1>3. SameTask(t, u) /\ Within(u)
  BY <1>2, TaskStep DEF TypeOK, Accounted
<1>4. \A a, b \in tasks' : SameTask(a, b) => a = b
  BY <1>2, <1>3 DEF Accounted, SameTask
<1>5. \A a \in tasks' : Within(a)
  BY <1>2, <1>3 DEF Accounted
<1>6. NotAhead'
  BY <1>2, <1>3 DEF Accounted, NotAhead, SameTask
<1>7. \A r \in Services : Told(r, last[r].n)' = Told(r, last[r].n)
  BY <1>1, <1>2, <1>3 DEF Told, SameTask
<1>8. Reached'
  BY <1>2, <1>7 DEF Accounted, Reached
<1>9. QED
  BY <1>4, <1>5, <1>6, <1>8 DEF Accounted, SameTask, Within

LEMMA SpawnAccounted ==
  ASSUME TypeOK, Accounted, SpawnDeliveries
  PROVE  Accounted'
<1>0. PICK s \in Services : s = loop.ev.svc
  BY DEF SpawnDeliveries, TypeOK, LoopState, Event
<1>1. PICK chosen \in SUBSET Channels :
        /\ tasks' = tasks \cup {Delivery(c) : c \in chosen}
        /\ last' = [last EXCEPT ![s].to = chosen]
  BY <1>0 DEF SpawnDeliveries
<1>2. loop.pc = "channels" /\ loop'.pc = "recv"
  BY DEF SpawnDeliveries, Idle
<1>3. s \in Services /\ last[s] \in LastAlert /\ last[s].n \in Nat
  BY DEF TypeOK, LastAlert
<1>4. \A r \in Services : last'[r].n = last[r].n /\ (r # s => last'[r] = last[r])
  BY <1>0, SpawnSays
<1>5. last'[s].to = chosen
  BY <1>1, <1>3 DEF TypeOK, LastAlert
<1>6. \A c : /\ Delivery(c).svc = s /\ Delivery(c).n = last[s].n /\ Delivery(c).ch = c
             /\ Delivery(c).attempt = 0 /\ Delivery(c).got = 0 /\ Delivery(c).state = "sending"
  BY <1>0 DEF Delivery
<1>7. \A t \in tasks : t.svc \in Services /\ (t.svc = s => t.n # last[s].n)
  BY <1>0, <1>2, <1>3 DEF Accounted, NotAhead, TypeOK, Task
<1>8. \A a, b \in tasks' : SameTask(a, b) => a = b
  BY <1>1, <1>6, <1>7 DEF Accounted, SameTask
<1>9. \A a \in tasks' : Within(a)
  <2>1. \A c : Within(Delivery(c))
    BY <1>6, AlertsAssumption DEF Within
  <2>2. QED
    BY <1>1, <2>1 DEF Accounted
<1>10. NotAhead'
  <2>1. \A a \in tasks' : a.n <= last[a.svc].n /\ a.svc \in Services
    BY <1>1, <1>3, <1>6, <1>7 DEF Accounted, NotAhead
  <2>2. QED
    BY <1>2, <1>4, <2>1 DEF NotAhead
<1>11. Told(s, last[s].n)' = chosen
  <2>1. {u \in tasks' : u.svc = s /\ u.n = last[s].n} = {Delivery(c) : c \in chosen}
    BY <1>1, <1>6, <1>7
  <2>2. {t.ch : t \in {Delivery(c) : c \in chosen}} = chosen
    BY <1>6
  <2>3. last'[s].n = last[s].n
    BY <1>3, <1>4
  <2>4. QED
    BY <2>1, <2>2, <2>3 DEF Told
<1>12. \A r \in Services \ {s} : Told(r, last[r].n)' = Told(r, last[r].n)
  BY <1>1, <1>4, <1>6 DEF Told
<1>13. Reached'
  <2> SUFFICES ASSUME NEW r \in Services PROVE Told(r, last[r].n)' = last'[r].to
    BY DEF Reached
  <2>1. CASE r = s
    BY <1>5, <1>11, <2>1
  <2>2. CASE r # s
    BY <1>4, <1>12, <2>2 DEF Accounted, Reached
  <2>3. QED
    BY <2>1, <2>2
<1>14. QED
  BY <1>8, <1>9, <1>10, <1>13 DEF Accounted, SameTask, Within

(* What does not touch the tasks keeps their accounts if no alert is       *)
(* raised without its number.                                              *)
LEMMA OthersAccounted ==
  ASSUME Accounted, UNCHANGED tasks, NotAhead', Reached'
  PROVE  Accounted'
<1>1. /\ \A t, u \in tasks' : SameTask(t, u) => t = u
      /\ \A t \in tasks' : Within(t)
  BY DEF Accounted
<1>2. QED
  BY <1>1 DEF Accounted, SameTask, Within

LEMMA JudgeAccounted ==
  ASSUME TypeOK, Accounted, Judge
  PROVE  Accounted'
<1>0. PICK s \in Services : s = loop.ev.svc
  BY DEF Judge, TypeOK, LoopState, Event
<1>1. tasks' = tasks
  BY DEF Judge
<1>2. \A r \in Services : last[r].n \in Nat
  BY DEF TypeOK, LastAlert
<1>3. \A t \in tasks : t.svc \in Services /\ t.n \in Nat /\ t.n <= last[t.svc].n
  BY DEF TypeOK, Task, Accounted, NotAhead
<1>4. \/ loop' = Idle /\ last' = last
      \/ /\ loop'.ev = loop.ev
         /\ last'[s].n = last[s].n + 1 /\ last'[s].to = {}
         /\ \A r \in Services : r # s => last'[r] = last[r]
  BY <1>0 DEF Judge, TypeOK
<1>5. CASE loop' = Idle /\ last' = last
  <2>1. NotAhead'
    BY <1>1, <1>3, <1>5 DEF NotAhead, Idle
  <2>2. Reached'
    BY <1>1, <1>5 DEF Accounted, Reached, Told
  <2>3. QED
    BY <1>1, <2>1, <2>2, OthersAccounted
<1>6. CASE /\ loop'.ev = loop.ev
           /\ last'[s].n = last[s].n + 1 /\ last'[s].to = {}
           /\ \A r \in Services : r # s => last'[r] = last[r]
  <2>1. NotAhead'
    BY <1>0, <1>1, <1>2, <1>3, <1>6 DEF NotAhead
  <2>2. Told(s, last[s].n)' = {}
    BY <1>1, <1>2, <1>3, <1>6 DEF Told
  <2>3. \A r \in Services \ {s} : Told(r, last[r].n)' = Told(r, last[r].n)
    BY <1>1, <1>6 DEF Told
  <2>4. Reached'
    <3> SUFFICES ASSUME NEW r \in Services PROVE Told(r, last[r].n)' = last'[r].to
      BY DEF Reached
    <3>1. CASE r = s
      BY <1>6, <2>2, <3>1
    <3>2. CASE r # s
      BY <1>6, <2>3, <3>2 DEF Accounted, Reached
    <3>3. QED
      BY <3>1, <3>2
  <2>5. QED
    BY <1>1, <2>1, <2>4, OthersAccounted
<1>7. QED
  BY <1>4, <1>5, <1>6

LEMMA RestartAccounted ==
  ASSUME TypeOK, Accounted, Restart
  PROVE  Accounted'
<1> DEFINE After(t) == IF t.state \in Active THEN [t EXCEPT !.state = "lost"] ELSE t
<1>1. tasks' = {After(t) : t \in tasks}
  BY DEF Restart
<1>2. \A t \in tasks : SameTask(t, After(t)) /\ Within(After(t))
  <2> SUFFICES ASSUME NEW t \in tasks PROVE SameTask(t, After(t)) /\ Within(After(t))
    OBVIOUS
  <2>1. t \in Task /\ Within(t)
    BY DEF TypeOK, Accounted
  <2>2. CASE t.state \in Active
    BY <2>1, <2>2, TaskStep
  <2>3. CASE t.state \notin Active
    BY <2>1, <2>3 DEF SameTask
  <2>4. QED
    BY <2>2, <2>3
<1>3. \A s \in Services : last'[s].n = last[s].n /\ last'[s].to = last[s].to
  BY DEF Restart, TypeOK, LastAlert
<1>4. loop'.pc = "recv"
  BY DEF Restart, Idle
<1> HIDE DEF After
<1>5. \A a, b \in tasks' : SameTask(a, b) => a = b
  BY <1>1, <1>2 DEF Accounted, SameTask
<1>6. NotAhead'
  <2>1. \A t \in tasks : t.svc \in Services
    BY DEF TypeOK, Task
  <2>2. QED
    BY <1>1, <1>2, <1>3, <1>4, <2>1 DEF Accounted, NotAhead, SameTask
<1>7. \A a \in tasks' : Within(a)
  BY <1>1, <1>2
<1>8. Reached'
  <2>1. \A r \in Services : Told(r, last[r].n)' = Told(r, last[r].n)
    BY <1>1, <1>2, <1>3 DEF Told, SameTask
  <2>2. QED
    BY <1>3, <2>1 DEF Accounted, Reached
<1>9. QED
  BY <1>5, <1>6, <1>7, <1>8 DEF Accounted, SameTask, Within

LEMMA StepAccounted == TypeOK /\ Accounted /\ [Next]_vars => Accounted'
<1> SUFFICES ASSUME TypeOK, Accounted, [Next]_vars PROVE Accounted'
  OBVIOUS
<1>1. ASSUME UNCHANGED <<tasks, last>>, loop'.pc # "channels" \/ loop' = loop
      PROVE  Accounted'
  <2>1. NotAhead'
    BY <1>1 DEF Accounted, NotAhead
  <2>2. Reached'
    BY <1>1 DEF Accounted, Reached, Told
  <2>3. QED
    BY <1>1, <2>1, <2>2, OthersAccounted
<1>2. CASE ReceiveLagged \/ ReceiveFirst \/ ReceiveNext \/ ReadThreshold
  BY <1>1, <1>2 DEF ReceiveLagged, ReceiveFirst, ReceiveNext, Receive, ReadThreshold
<1>3. CASE UpdateThreshold \/ UpdateInterval \/ Tick \/ UNCHANGED vars
  BY <1>1, <1>3 DEF UpdateThreshold, UpdateInterval, Tick, vars
<1>4. CASE \E s \in Services, status \in Status : Publish(s, status)
  BY <1>1, <1>4 DEF Publish
<1>5. QED
  BY <1>2, <1>3, <1>4, DeliveryAccounted, SpawnAccounted, JudgeAccounted, RestartAccounted
     DEF Next, LoopStep

(* Every channel the last alert of a service is to reach has exactly one   *)
(* task, and no alert ever has two for a channel; retries never run over   *)
(* their budget, whatever the destinations answer (notification_loop,      *)
(* send_with_retry).                                                       *)
THEOREM DeliveriesAccounted == Spec => []DeliveryAccounting
<1>1. Init => Accounted
  BY DEF Init, Accounted, NotAhead, Idle, Reached, Told
<1>2. QED
  BY <1>1, StepAccounted, TypeCorrect, AccountedIsAccounting, PTL DEF Spec
=============================================================================
