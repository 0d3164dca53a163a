--------------------------- MODULE ProbingProofs ---------------------------
(***************************************************************************)
(* Proofs about the probes and the incidents told of a history, for any    *)
(* services, targets, orders of probes and histories.                      *)
(*                                                                         *)
(* A probe is late whenever it is: what it records was so at some moment,  *)
(* because the state its target is in now is always one that was there to  *)
(* be seen since the probe began (Watched).                                *)
(***************************************************************************)
EXTENDS Probing, FiniteSetTheorems, WellFoundedInduction, TLAPS

Words == {"up", "down"}

Row == [status : Words, age : Nat]

Task ==
  [id : Ids, via : {"unit", "url", None}, pc : {"read", "ask", "get", "insert", "prune"},
   status : Words \cup {None}, seen : SUBSET Words]

(* What a probe sees now it may have seen, and what it is about to record  *)
(* it has.  A task that has yet to read the row looks at nothing.          *)
Watched(p, now) ==
  /\ p.pc # "read" => Word(Up(p.via, now[p.id])) \in p.seen
  /\ p.pc \in {"read", "ask"} => p.status = None
  /\ p.pc = "get" => p.via = "url"
  /\ p.pc \in {"insert", "prune"} => p.status \in p.seen

Typed ==
  /\ DOMAIN services \subseteq Ids
  /\ rows \in [DOMAIN rows -> Seq(Row)]
  /\ state = [i \in DOMAIN state |-> state[i]] /\ DOMAIN state = Ids
  /\ control # None => control.id \in Ids

Sane(list, now) == list \in Seq(Task) /\ \A n \in DOMAIN list : Watched(list[n], now)

ProbesSound == Typed /\ Sane(probes, state)

-----------------------------------------------------------------------------
(* Lists of probes                                                         *)

LEMMA InSecond ==
  ASSUME NEW a \in Seq(Task), NEW b \in Seq(Task),
         NEW m \in 1 .. Len(a) + Len(b), m > Len(a)
  PROVE  (a \o b)[m] = b[m - Len(a)]
  OBVIOUS

LEMMA UpIsWord == ASSUME NEW up PROVE Word(up) \in Words
  BY DEF Word, Words

LEMMA AdvancedSane ==
  ASSUME Sane(probes, state), NEW n \in DOMAIN probes, NEW p \in Task, Advance(n, p),
         UNCHANGED state, Watched(p, state)
  PROVE  Sane(probes', state')
<1>1. probes' \in Seq(Task) /\ DOMAIN probes' = DOMAIN probes /\ probes'[n] = p
      /\ \A m \in DOMAIN probes \ {n} : probes'[m] = probes[m]
  BY DEF Sane, Advance
<1>2. \A m \in DOMAIN probes' : Watched(probes'[m], state)
  <2> SUFFICES ASSUME NEW m \in DOMAIN probes PROVE Watched(probes'[m], state)
    BY <1>1
  <2>1. CASE m = n
    BY <1>1, <2>1
  <2>2. CASE m # n
    BY <1>1, <2>2 DEF Sane
  <2>3. QED
    BY <2>1, <2>2
<1>3. QED
  BY <1>1, <1>2 DEF Sane

LEMMA RemovedSane ==
  ASSUME Sane(probes, state), NEW n \in DOMAIN probes, probes' = RemoveAt(probes, n), UNCHANGED state
  PROVE  Sane(probes', state')
<1>1. /\ probes' \in Seq(Task)
      /\ \A m \in DOMAIN probes' : \E k \in DOMAIN probes : probes'[m] = probes[k]
  <2> DEFINE q == RemoveAt(probes, n)
  <2>1. n \in 1 .. Len(probes) /\ probes \in Seq(Task)
    BY DEF Sane
  <2>2. /\ q \in Seq(Task) /\ Len(q) = Len(probes) - 1
        /\ \A m \in 1 .. Len(q) : q[m] = IF m < n THEN probes[m] ELSE probes[m + 1]
    <3> DEFINE front == SubSeq(probes, 1, n - 1)
               rest  == SubSeq(probes, n + 1, Len(probes))
    <3>1. /\ front \in Seq(Task) /\ Len(front) = n - 1
          /\ \A m \in 1 .. n - 1 : front[m] = probes[m]
      BY <2>1
    <3>2. /\ rest \in Seq(Task) /\ Len(rest) = Len(probes) - n
          /\ \A m \in 1 .. Len(probes) - n : rest[m] = probes[n + m]
      BY <2>1
    <3>3. q = front \o rest
      BY DEF RemoveAt
    <3> HIDE DEF front, rest, q
    <3>4. q \in Seq(Task) /\ Len(q) = Len(probes) - 1
      BY <2>1, <3>1, <3>2, <3>3
    <3>5. ASSUME NEW m \in 1 .. Len(q) PROVE q[m] = IF m < n THEN probes[m] ELSE probes[m + 1]
      <4>1. CASE m < n
        BY <2>1, <3>1, <3>2, <3>3, <3>4, <4>1
      <4>2. CASE ~(m < n)
        <5>1. m - (n - 1) \in 1 .. Len(probes) - n /\ n + (m - (n - 1)) = m + 1
          BY <2>1, <3>4, <4>2
        <5>2. q[m] = rest[m - (n - 1)]
          <6>1. /\ m \in 1 .. Len(front) + Len(rest) /\ m > Len(front)
                /\ m - Len(front) = m - (n - 1)
            BY <2>1, <3>1, <3>2, <3>4, <4>2
          <6>2. (front \o rest)[m] = rest[m - Len(front)]
            BY <3>1, <3>2, <6>1, InSecond
          <6>3. QED
            BY <3>3, <6>1, <6>2
        <5>3. QED
          BY <3>2, <4>2, <5>1, <5>2
      <4>3. QED
        BY <4>1, <4>2
    <3>6. QED
      BY <3>4, <3>5
  <2> HIDE DEF q
  <2>3. \A m \in DOMAIN q : \E k \in DOMAIN probes : q[m] = probes[k]
    <3> SUFFICES ASSUME NEW m \in 1 .. Len(q) PROVE \E k \in DOMAIN probes : q[m] = probes[k]
      BY <2>2
    <3>1. m \in DOMAIN probes /\ m + 1 \in DOMAIN probes
      BY <2>1, <2>2
    <3>2. QED
      BY <2>2, <3>1
  <2>4. QED
    BY <2>2, <2>3 DEF q
<1>2. \A m \in DOMAIN probes' : Watched(probes'[m], state')
  BY <1>1 DEF Sane, Watched
<1>3. QED
  BY <1>1, <1>2 DEF Sane

(* What runs is noticed by the probes of it that are on their way.         *)
LEMMA NoticedSane ==
  ASSUME Typed, Sane(probes, state), NEW i \in Ids, NEW st, state' = [state EXCEPT ![i] = st]
  PROVE  LET q == Noticed(i, st)
         IN  q \in Seq(Task) /\ \A m \in DOMAIN q : Watched(q[m], state')
<1> DEFINE q == Noticed(i, st)
<1>1. probes \in Seq(Task) /\ q = [m \in 1 .. Len(probes) |-> q[m]]
  BY DEF Sane, Noticed
<1>2. ASSUME NEW m \in DOMAIN probes PROVE q[m] \in Task /\ Watched(q[m], state')
  <2> DEFINE p == probes[m]
  <2>1. p \in Task /\ Watched(p, state)
    BY DEF Sane
  <2>2. state'[p.id] = IF p.id = i THEN st ELSE state[p.id]
    BY <2>1 DEF Typed, Task
  <2>3. CASE p.id = i
    <3>1. q[m] = [p EXCEPT !.seen = @ \cup {Word(Up(p.via, st))}]
      BY <2>3 DEF Noticed
    <3> HIDE DEF p, q
    <3>2. q[m] \in Task /\ q[m].seen = p.seen \cup {Word(Up(p.via, st))}
          /\ q[m].id = i /\ q[m].via = p.via /\ q[m].pc = p.pc /\ q[m].status = p.status
      BY <2>1, <2>3, <3>1, UpIsWord DEF Task
    <3>3. QED
      BY <2>1, <2>2, <2>3, <3>2 DEF Watched
  <2>4. CASE p.id # i
    <3>1. q[m] = p
      BY <2>4 DEF Noticed
    <3> HIDE DEF p, q
    <3>2. QED
      BY <2>1, <2>2, <2>4, <3>1 DEF Watched
  <2>5. QED
    BY <2>3, <2>4
<1>3. QED
  <2> HIDE DEF q
  <2>1. Len(probes) \in Nat /\ DOMAIN probes = 1 .. Len(probes)
    BY <1>1
  <2>2. DOMAIN q = 1 .. Len(probes) /\ \A m \in 1 .. Len(probes) : q[m] \in Task
    BY <1>1, <1>2, <2>1
  <2>3. q \in Seq(Task)
    BY <1>1, <2>1, <2>2
  <2>4. q \in Seq(Task) /\ \A m \in DOMAIN q : Watched(q[m], state')
    BY <1>2, <2>1, <2>2, <2>3
  <2>5. QED
    BY <2>4 DEF q

(* A probe that has just been spawned sees what there is.                  *)
LEMMA ProbeSane ==
  ASSUME NEW i \in Ids, NEW s, NEW st, Via(s) # None, state'[i] = st
  PROVE  Probe(i, s, st) \in Task /\ Watched(Probe(i, s, st), state')
<1>1. Via(s) \in {"unit", "url"}
  BY DEF Via
<1>2. Probe(i, s, st) \in Task
  BY <1>1, UpIsWord DEF Probe, Task
<1>3. QED
  BY <1>2 DEF Probe, Watched

LEMMA ExtendedSane ==
  ASSUME NEW q \in Seq(Task), \A m \in DOMAIN q : Watched(q[m], state'),
         NEW new \in Seq(Task), \A m \in DOMAIN new : Watched(new[m], state'),
         probes' = q \o new
  PROVE  Sane(probes', state')
<1>1. /\ probes' \in Seq(Task)
      /\ \A m \in DOMAIN probes' : \/ m \in DOMAIN q /\ probes'[m] = q[m]
                                   \/ m - Len(q) \in DOMAIN new /\ probes'[m] = new[m - Len(q)]
  OBVIOUS
<1>2. QED
  BY <1>1 DEF Sane

LEMMA SpawnedSane ==
  ASSUME NEW i \in Ids, NEW s, NEW st, state'[i] = st
  PROVE  LET new == Spawned(i, s, st)
         IN  new \in Seq(Task) /\ \A m \in DOMAIN new : Watched(new[m], state')
<1>1. CASE Via(s) = None
  BY <1>1 DEF Spawned
<1>2. CASE Via(s) # None
  <2>1. Spawned(i, s, st) = <<Probe(i, s, st)>>
    BY <1>2 DEF Spawned
  <2>2. QED
    BY <1>2, <2>1, ProbeSane
<1>3. QED
  BY <1>1, <1>2

(* Lists of rows                                                           *)
LEMMA AgedRows == ASSUME NEW list \in Seq(Row) PROVE Aged(list) \in Seq(Row)
<1>1. Len(list) \in Nat /\ Aged(list) = [k \in 1 .. Len(list) |-> Aged(list)[k]]
  BY DEF Aged
<1>2. ASSUME NEW k \in 1 .. Len(list) PROVE Aged(list)[k] \in Row
  <2>1. list[k] \in Row /\ Capped(list[k].age) \in Nat
    <3>1. list[k] \in Row
      OBVIOUS
    <3>2. QED
      BY <3>1, ProbingAssumption DEF Row, Capped
  <2>2. Aged(list)[k] = [list[k] EXCEPT !.age = Capped(@)]
    BY DEF Aged
  <2>3. QED
    BY <2>1, <2>2 DEF Row
<1>3. QED
  BY <1>1, <1>2

LEMMA PrunedRows == ASSUME NEW list \in Seq(Row) PROVE Pruned(list) \in Seq(Row)
<1> DEFINE old == {k \in DOMAIN list : list[k].age > Retention}
<1>1. IsFiniteSet(1 .. Len(list)) /\ old \subseteq 1 .. Len(list)
  BY FS_Interval
<1>2. Cardinality(old) \in Nat
  BY <1>1, FS_Subset, FS_CardinalityType
<1> HIDE DEF old
<1>3. SubSeq(list, Cardinality(old) + 1, Len(list)) \in Seq(Row)
  BY <1>2
<1>4. QED
  BY <1>3 DEF Pruned, old

-----------------------------------------------------------------------------
LEMMA ProbesStart == Init => ProbesSound
<1> SUFFICES ASSUME Init PROVE ProbesSound
  OBVIOUS
<1>1. DOMAIN services \subseteq Ids
  BY ProbingAssumption DEF Init, Put
<1>2. rows \in [DOMAIN rows -> Seq(Row)]
  <2>1. << >> \in Seq(Row) /\ DOMAIN << >> = {}
    OBVIOUS
  <2>2. CASE rows = << >>
    BY <2>1, <2>2
  <2>3. CASE rows = Put(<< >>, 1, << >>)
    <3>1. rows = [j \in {1} |-> << >>]
      BY <2>1, <2>3 DEF Put
    <3>2. QED
      BY <2>1, <3>1
  <2>4. QED
    BY <2>2, <2>3 DEF Init
<1>3. Sane(probes, state)
  BY DEF Init, Sane
<1>4. QED
  BY <1>1, <1>2, <1>3 DEF Init, ProbesSound, Typed

(* What a task knows when its turn comes.                                  *)
LEMMA TaskAt ==
  ASSUME ProbesSound, NEW n \in DOMAIN probes
  PROVE  probes[n] \in Task /\ Watched(probes[n], state)
  BY DEF ProbesSound, Sane

LEMMA ReadSound ==
  ASSUME ProbesSound, NEW n \in DOMAIN probes, ReadRow(n)
  PROVE  Sane(probes', state')
<1> DEFINE i == probes[n].id
<1>1. i \in Ids /\ UNCHANGED state /\ Sane(probes, state)
  BY TaskAt DEF ReadRow, outside, Task, ProbesSound
<1>2. CASE Via(services[i]) # None /\ Advance(n, Probe(i, services[i], state[i]))
  <2>1. Probe(i, services[i], state[i]) \in Task /\ Watched(Probe(i, services[i], state[i]), state')
    BY <1>1, <1>2, ProbeSane
  <2>2. QED
    BY <1>1, <1>2, <2>1, AdvancedSane
<1>3. CASE probes' = RemoveAt(probes, n)
  BY <1>1, <1>3, RemovedSane
<1>4. QED
  BY <1>2, <1>3 DEF ReadRow

LEMMA AskSound ==
  ASSUME ProbesSound, NEW n \in DOMAIN probes, AskTarget(n)
  PROVE  Sane(probes', state')
<1> DEFINE p == probes[n]
<1>1. p \in Task /\ Watched(p, state) /\ UNCHANGED state /\ p.pc = "ask"
  BY TaskAt DEF AskTarget, outside
<1>2. PICK q \in Task : Advance(n, q) /\ Watched(q, state)
  <2>1. CASE p.via = "unit" /\ Advance(n, [p EXCEPT !.pc = "insert", !.status = Word(Up("unit", state[p.id]))])
    <3> DEFINE q == [p EXCEPT !.pc = "insert", !.status = Word(Up("unit", state[p.id]))]
    <3> HIDE DEF p
    <3>1. /\ q \in Task /\ q.pc = "insert" /\ q.status = Word(Up("unit", state[p.id]))
          /\ q.via = p.via /\ q.id = p.id /\ q.seen = p.seen
      BY <1>1, UpIsWord DEF Task
    <3>2. Watched(q, state)
      BY <1>1, <2>1, <3>1 DEF Watched
    <3>3. QED
      BY <2>1, <3>1, <3>2
  <2>2. CASE Advance(n, [p EXCEPT !.pc = "insert", !.status = "down", !.seen = @ \cup {"down"}])
    <3> DEFINE q == [p EXCEPT !.pc = "insert", !.status = "down", !.seen = @ \cup {"down"}]
    <3> HIDE DEF p
    <3>1. /\ q \in Task /\ q.pc = "insert" /\ q.status = "down"
          /\ q.via = p.via /\ q.id = p.id /\ q.seen = p.seen \cup {"down"}
      BY <1>1 DEF Task, Words
    <3>2. Watched(q, state)
      BY <1>1, <3>1 DEF Watched
    <3>3. QED
      BY <2>2, <3>1, <3>2
  <2>3. ASSUME NEW up \in {Up("url", state[p.id]), FALSE}, p.via = "url",
               Advance(n, [p EXCEPT !.pc = AfterHead(up), !.status = Word(up)])
        PROVE  \E q \in Task : Advance(n, q) /\ Watched(q, state)
    <3> DEFINE q == [p EXCEPT !.pc = AfterHead(up), !.status = Word(up)]
    <3> HIDE DEF p
    <3>1. /\ q \in Task /\ q.pc = AfterHead(up) /\ q.status = Word(up)
          /\ q.via = p.via /\ q.id = p.id /\ q.seen = p.seen
      BY <1>1, UpIsWord DEF Task, AfterHead
    <3>2. AfterHead(up) = "get" \/ (AfterHead(up) = "insert" /\ up = Up("url", state[p.id]))
      BY DEF AfterHead
    <3>3. Watched(q, state)
      BY <1>1, <2>3, <3>1, <3>2 DEF Watched
    <3>4. QED
      BY <2>3, <3>1, <3>3
  <2>4. QED
    BY <2>1, <2>2, <2>3 DEF AskTarget
<1>3. QED
  BY <1>1, <1>2, AdvancedSane DEF ProbesSound

LEMMA GetSound ==
  ASSUME ProbesSound, NEW n \in DOMAIN probes, GetTarget(n)
  PROVE  Sane(probes', state')
<1> DEFINE p == probes[n]
<1>1. p \in Task /\ Watched(p, state) /\ UNCHANGED state /\ p.pc = "get"
  BY TaskAt DEF GetTarget, outside
<1>2. PICK q \in Task : Advance(n, q) /\ Watched(q, state)
  <2>1. CASE Advance(n, [p EXCEPT !.pc = "insert", !.status = Word(Up("url", state[p.id]))])
    <3> DEFINE q == [p EXCEPT !.pc = "insert", !.status = Word(Up("url", state[p.id]))]
    <3> HIDE DEF p
    <3>1. /\ q \in Task /\ q.pc = "insert" /\ q.status = Word(Up("url", state[p.id]))
          /\ q.via = p.via /\ q.id = p.id /\ q.seen = p.seen
      BY <1>1, UpIsWord DEF Task
    <3>2. Watched(q, state)
      BY <1>1, <3>1 DEF Watched
    <3>3. QED
      BY <2>1, <3>1, <3>2
  <2>2. CASE Advance(n, [p EXCEPT !.pc = "insert", !.status = "down", !.seen = @ \cup {"down"}])
    <3> DEFINE q == [p EXCEPT !.pc = "insert", !.status = "down", !.seen = @ \cup {"down"}]
    <3> HIDE DEF p
    <3>1. /\ q \in Task /\ q.pc = "insert" /\ q.status = "down"
          /\ q.via = p.via /\ q.id = p.id /\ q.seen = p.seen \cup {"down"}
      BY <1>1 DEF Task, Words
    <3>2. Watched(q, state)
      BY <1>1, <3>1 DEF Watched
    <3>3. QED
      BY <2>2, <3>1, <3>2
  <2>3. QED
    BY <2>1, <2>2 DEF GetTarget
<1>3. QED
  BY <1>1, <1>2, AdvancedSane DEF ProbesSound

LEMMA InsertSound ==
  ASSUME ProbesSound, NEW n \in DOMAIN probes, InsertRow(n)
  PROVE  Sane(probes', state') /\ rows' \in [DOMAIN rows' -> Seq(Row)]
<1> DEFINE p == probes[n]
           q == [p EXCEPT !.pc = "prune"]
           row == [status |-> p.status, age |-> 0]
<1>1. p \in Task /\ Watched(p, state) /\ UNCHANGED state /\ p.pc = "insert" /\ Advance(n, q)
  BY TaskAt DEF InsertRow, outside
<1>2. q \in Task /\ Watched(q, state) /\ p.status \in Words
  <2> HIDE DEF p
  <2>1. /\ q \in Task /\ q.pc = "prune" /\ q.status = p.status
        /\ q.via = p.via /\ q.id = p.id /\ q.seen = p.seen /\ p.seen \subseteq Words
    BY <1>1 DEF Task
  <2>2. QED
    BY <1>1, <2>1 DEF Watched
<1>3. Sane(probes', state')
  <2> HIDE DEF q, p
  <2>1. QED
    BY <1>1, <1>2, AdvancedSane DEF ProbesSound
<1>4. rows' \in [DOMAIN rows' -> Seq(Row)]
  <2>1. row \in Row
    BY <1>2 DEF Row
  <2>2. rows \in [DOMAIN rows -> Seq(Row)]
    BY DEF ProbesSound, Typed
  <2>3. rows' = rows \/ rows' = [rows EXCEPT ![p.id] = Append(@, row)]
    BY DEF InsertRow
  <2> HIDE DEF p, row
  <2>4. CASE rows' = [rows EXCEPT ![p.id] = Append(@, row)]
    <3>1. p.id \in DOMAIN rows => Append(rows[p.id], row) \in Seq(Row)
      BY <2>1, <2>2
    <3>2. QED
      BY <2>2, <2>4, <3>1
  <2>5. QED
    BY <2>2, <2>3, <2>4
<1>5. QED
  BY <1>3, <1>4

LEMMA FinishSound ==
  ASSUME ProbesSound, NEW n \in DOMAIN probes, Finish(n)
  PROVE  Sane(probes', state') /\ rows' \in [DOMAIN rows' -> Seq(Row)]
<1>1. Sane(probes', state')
  BY RemovedSane DEF ProbesSound, Finish, outside
<1>2. rows \in [DOMAIN rows -> Seq(Row)]
  BY DEF ProbesSound, Typed
<1>3. rows' = rows \/ \E i \in DOMAIN rows : rows' = [rows EXCEPT ![i] = Pruned(@)]
  BY DEF Finish
<1>4. \A i \in DOMAIN rows : Pruned(rows[i]) \in Seq(Row)
  BY <1>2, PrunedRows
<1>5. QED
  BY <1>1, <1>2, <1>3, <1>4

LEMMA WakeSound ==
  ASSUME ProbesSound, Wake
  PROVE  Sane(probes', state') /\ rows' \in [DOMAIN rows' -> Seq(Row)]
<1>1. UNCHANGED state /\ Sane(probes, state) /\ rows \in [DOMAIN rows -> Seq(Row)]
  BY DEF Wake, outside, ProbesSound, Typed
<1>2. rows' \in [DOMAIN rows' -> Seq(Row)]
  BY <1>1, AgedRows DEF Wake
<1>3. ASSUME NEW some, NEW S \in SUBSET Ids,
             some \in SetToSeqs({i \in S : Via(services[i]) # None}),
             probes' = probes \o [k \in DOMAIN some |->
                                   Probe(some[k], services[some[k]], state[some[k]])]
      PROVE  Sane(probes', state')
  <2> DEFINE T   == {i \in S : Via(services[i]) # None}
             new == [k \in DOMAIN some |->
                      Probe(some[k], services[some[k]], state[some[k]])]
  <2>1. Cardinality(T) \in Nat
    BY FS_Subset, FS_CardinalityType, ProbingAssumption
  <2>2. some \in [1 .. Cardinality(T) -> T]
    BY <1>3 DEF SetToSeqs
  <2>3. \A k \in 1 .. Cardinality(T) : some[k] \in Ids /\ Via(services[some[k]]) # None
    BY <2>2
  <2>4. DOMAIN new = 1 .. Cardinality(T) /\ new = [k \in 1 .. Cardinality(T) |-> new[k]]
    BY <2>2
  <2>5. ASSUME NEW k \in 1 .. Cardinality(T) PROVE new[k] \in Task /\ Watched(new[k], state')
    <3>1. new[k] = Probe(some[k], services[some[k]], state[some[k]])
      BY <2>2
    <3>2. QED
      BY <1>1, <2>3, <3>1, ProbeSane
  <2>6. probes' = probes \o new
    BY <1>3
  <2> HIDE DEF T, new
  <2>7. new \in Seq(Task)
    BY <2>1, <2>4, <2>5
  <2>8. QED
    BY <1>1, <2>4, <2>5, <2>6, <2>7, ExtendedSane DEF Sane
<1>4. Listed \subseteq Ids
  BY DEF Listed, ProbesSound, Typed
<1>5. CASE UNCHANGED probes
  BY <1>1, <1>2, <1>5
<1>6. CASE ~UNCHANGED probes
  <2>1. {i \in Listed : Due(i)} \in SUBSET Ids
    BY <1>4
  <2>2. QED
    BY <1>2, <1>3, <1>6, <2>1 DEF Wake
<1>7. QED
  BY <1>5, <1>6

(* A request, a job of systemd or the target itself.                       *)
LEMMA CreateSound ==
  ASSUME ProbesSound, NEW s, CreateService(s)
  PROVE  /\ Sane(probes', state') /\ rows' \in [DOMAIN rows' -> Seq(Row)]
         /\ DOMAIN services' \subseteq Ids
<1>1. Sane(probes, state) /\ rows \in [DOMAIN rows -> Seq(Row)] /\ DOMAIN services \subseteq Ids
      /\ serial + 1 \in Ids /\ UNCHANGED state
  BY DEF CreateService, outside, ProbesSound, Typed
<1>2. DOMAIN services' \subseteq Ids
  BY <1>1 DEF CreateService, Put
<1>3. rows' \in [DOMAIN rows' -> Seq(Row)]
  <2>1. << >> \in Seq(Row) /\ rows' = Put(rows, serial + 1, << >>)
    BY DEF CreateService
  <2>2. QED
    BY <1>1, <2>1 DEF Put
<1>4. Sane(probes', state')
  <2> DEFINE p == Newcomer(serial + 1)
  <2>1. p \in Task /\ Watched(p, state')
    BY <1>1 DEF Newcomer, Task, Watched
  <2>2. probes \in Seq(Task) /\ probes' = probes \o <<p>>
    BY <1>1 DEF CreateService, Sane
  <2> HIDE DEF p
  <2>3. <<p>> \in Seq(Task) /\ \A m \in DOMAIN <<p>> : Watched(<<p>>[m], state')
    BY <2>1
  <2>4. QED
    BY <1>1, <2>2, <2>3, ExtendedSane DEF Sane
<1>5. QED
  BY <1>2, <1>3, <1>4

LEMMA ControlSound ==
  ASSUME ProbesSound, DoControl
  PROVE  Sane(probes', state') /\ DOMAIN state' = Ids
<1> DEFINE c == control
<1>1. Sane(probes, state) /\ Typed /\ c.id \in Ids /\ DOMAIN state = Ids
  BY DEF DoControl, ProbesSound, Typed
<1>2. CASE /\ UNCHANGED state
           /\ probes' = probes \o Spawned(c.id, c.service, state[c.id])
  BY <1>1, <1>2, SpawnedSane, ExtendedSane DEF Sane
<1>3. ASSUME NEW st, state' = [state EXCEPT ![c.id] = st],
             probes' = Noticed(c.id, st) \o Spawned(c.id, c.service, st)
      PROVE  Sane(probes', state') /\ DOMAIN state' = Ids
  <2>1. /\ Noticed(c.id, st) \in Seq(Task)
        /\ \A m \in DOMAIN Noticed(c.id, st) : Watched(Noticed(c.id, st)[m], state')
    BY <1>1, <1>3, NoticedSane
  <2>2. state'[c.id] = st /\ DOMAIN state' = Ids
    BY <1>1, <1>3
  <2>3. /\ Spawned(c.id, c.service, st) \in Seq(Task)
        /\ \A m \in DOMAIN Spawned(c.id, c.service, st) :
             Watched(Spawned(c.id, c.service, st)[m], state')
    BY <1>1, <2>2, SpawnedSane
  <2>4. QED
    BY <1>3, <2>1, <2>2, <2>3, ExtendedSane
<1>4. CASE UNCHANGED <<probes, state>>
  BY <1>1, <1>4
<1>5. QED
  BY <1>2, <1>3, <1>4 DEF DoControl, outside

LEMMA BecomesSound ==
  ASSUME ProbesSound, NEW i \in Ids, NEW st, Becomes(i, st)
  PROVE  Sane(probes', state') /\ DOMAIN state' = Ids
<1>1. Sane(probes, state) /\ Typed /\ DOMAIN state = Ids
  BY DEF ProbesSound, Typed
<1>2. QED
  BY <1>1, NoticedSane DEF Becomes, Sane

LEMMA ProbesStep == ProbesSound /\ [Next]_vars => ProbesSound'
<1> SUFFICES ASSUME ProbesSound, [Next]_vars PROVE ProbesSound'
  OBVIOUS
<1> DEFINE Same == UNCHANGED <<services, rows, state, control>>
<1>1. /\ Sane(probes, state) /\ DOMAIN services \subseteq Ids
      /\ rows \in [DOMAIN rows -> Seq(Row)]
      /\ state = [i \in DOMAIN state |-> state[i]] /\ DOMAIN state = Ids
      /\ control # None => control.id \in Ids
  BY DEF ProbesSound, Typed
<1>2. ASSUME NEW n \in 1 .. MaxProbes, ProbeStep(n) PROVE ProbesSound'
  <2>1. n \in DOMAIN probes
    BY <1>2 DEF ProbeStep
  <2>2. CASE AskTarget(n)
    BY <1>1, <2>1, <2>2, AskSound DEF AskTarget, tables, outside, ProbesSound, Typed
  <2>3. CASE GetTarget(n)
    BY <1>1, <2>1, <2>3, GetSound DEF GetTarget, tables, outside, ProbesSound, Typed
  <2>4. CASE InsertRow(n)
    BY <1>1, <2>1, <2>4, InsertSound DEF InsertRow, outside, ProbesSound, Typed
  <2>5. CASE Finish(n)
    BY <1>1, <2>1, <2>5, FinishSound DEF Finish, outside, ProbesSound, Typed
  <2>6. CASE ReadRow(n)
    BY <1>1, <2>1, <2>6, ReadSound DEF ReadRow, tables, outside, ProbesSound, Typed
  <2>7. QED
    BY <1>2, <2>2, <2>3, <2>4, <2>5, <2>6 DEF ProbeStep
<1>3. CASE Wake
  BY <1>1, <1>3, WakeSound DEF Wake, outside, ProbesSound, Typed
<1>4. ASSUME NEW s \in Attributes, CreateService(s) PROVE ProbesSound'
  BY <1>1, <1>4, CreateSound DEF CreateService, outside, ProbesSound, Typed
<1>5. ASSUME NEW i \in Ids, NEW s \in Attributes, UpdateService(i, s) PROVE ProbesSound'
  <2>1. DOMAIN services' = DOMAIN services /\ UNCHANGED <<rows, probes, state, control>>
    BY <1>5 DEF UpdateService, outside
  <2>2. QED
    BY <1>1, <2>1 DEF ProbesSound, Typed
<1>6. ASSUME NEW i \in Ids, DeleteService(i) PROVE ProbesSound'
  <2>1. /\ DOMAIN services' \subseteq DOMAIN services /\ UNCHANGED <<probes, state, control>>
        /\ rows' = [j \in DOMAIN rows \ {i} |-> rows[j]]
    BY <1>6 DEF DeleteService, Drop, outside
  <2>2. rows' \in [DOMAIN rows' -> Seq(Row)]
    BY <1>1, <2>1
  <2>3. QED
    BY <1>1, <2>1, <2>2 DEF ProbesSound, Typed
<1>7. ASSUME NEW i \in Ids, NEW action \in Actions, ReadControl(i, action) PROVE ProbesSound'
  <2>1. /\ control' = [id |-> i, service |-> services[i], action |-> action]
        /\ UNCHANGED <<services, rows, probes, state>>
    BY <1>7 DEF ReadControl, tables, outside
  <2>2. QED
    BY <1>1, <2>1 DEF ProbesSound, Typed
<1>8. CASE DoControl
  <2>1. /\ Sane(probes', state') /\ DOMAIN state' = Ids /\ control' = None
        /\ UNCHANGED <<services, rows>>
    BY <1>8, ControlSound DEF DoControl, tables
  <2>2. state' = [i \in DOMAIN state' |-> state'[i]]
    <3>1. UNCHANGED state \/ \E st : state' = [state EXCEPT ![control.id] = st]
      BY <1>8 DEF DoControl, outside
    <3>2. QED
      BY <1>1, <3>1
  <2>3. QED
    BY <1>1, <2>1, <2>2 DEF ProbesSound, Typed
<1>9. ASSUME NEW i \in Ids, NEW st, Becomes(i, st), UNCHANGED <<services, rows, control>>
      PROVE  ProbesSound'
  <2>1. Sane(probes', state') /\ DOMAIN state' = Ids /\ state' = [j \in DOMAIN state' |-> state'[j]]
    BY <1>1, <1>9, BecomesSound DEF Becomes
  <2>2. QED
    BY <1>1, <1>9, <2>1 DEF ProbesSound, Typed
<1>10. ASSUME UNCHANGED <<services, rows, control, probes, state>> PROVE ProbesSound'
  BY <1>1, <1>10 DEF ProbesSound, Typed
<1>11. ASSUME NEW i \in Ids, RunJob(i) \/ Flip(i) PROVE ProbesSound'
  <2>1. UNCHANGED <<services, rows, control>>
    BY <1>11 DEF RunJob, Flip, tables
  <2>2. (\E st : Becomes(i, st)) \/ UNCHANGED <<probes, state>>
    BY <1>11 DEF RunJob, Flip
  <2>3. QED
    BY <1>9, <1>10, <2>1, <2>2
<1>12. CASE UNCHANGED vars
  BY <1>10, <1>12 DEF vars, tables, outside
<1>13. QED
  BY <1>2, <1>3, <1>4, <1>5, <1>6, <1>7, <1>8, <1>11, <1>12 DEF Next

THEOREM AlwaysWatched == Spec => []ProbesSound
  BY ProbesStart, ProbesStep, PTL DEF Spec

(* No probe records what was not so at some moment since it began.         *)
THEOREM NothingFalse == Spec => []NoFalseStatus
<1>1. ProbesSound => NoFalseStatus
  <2> SUFFICES ASSUME ProbesSound, NEW n \in DOMAIN probes,
                      probes[n].status # None, probes[n].pc # "get"
               PROVE  probes[n].status \in probes[n].seen
    BY DEF NoFalseStatus
  <2>1. probes[n].pc \in {"read", "ask", "get", "insert", "prune"}
    BY TaskAt DEF Task
  <2>2. QED
    BY <2>1, TaskAt DEF Watched
<1>2. QED
  BY <1>1, AlwaysWatched, PTL

-----------------------------------------------------------------------------
(* Incidents                                                               *)

(* A set of naturals that is not empty has a least element.                *)
LEMMA LeastOf ==
  ASSUME NEW T \in SUBSET Nat, T # {}
  PROVE  \E x \in T : \A y \in T : ~(y < x)
<1> DEFINE R == OpToRel(<, Nat)
<1>1. \E x \in T : \A y \in T : ~ (<<y, x>> \in R)
  <2>1. IsWellFoundedOn(R, Nat)
    BY NatLessThanWellFounded
  <2> HIDE DEF R
  <2>2. QED
    BY <2>1, WFMin
<1>2. \A x, y \in Nat : y < x => <<y, x>> \in R
  BY DEF R, OpToRel
<1>3. QED
  <2> HIDE DEF R
  <2>1. PICK x \in T : \A y \in T : ~ (<<y, x>> \in R)
    BY <1>1
  <2>2. QED
    BY <2>1, <1>2, Zenon

(* The scan is what its recursive definition says: there is such a         *)
(* function for every prefix of the history, hence for all of it.          *)
LEMMA ScannedSteps ==
  ASSUME NEW points \in Seq(Row)
  PROVE  /\ Scanned(points)[0] = Began
         /\ \A k \in 1 .. Len(points) :
              Scanned(points)[k] = Scan(Scanned(points)[k - 1], points[k])
<1> DEFINE N == Len(points)
           G(f, n) == f = [k \in 0 .. n |-> IF k = 0 THEN Began ELSE Scan(f[k - 1], points[k])]
           Missing == {n \in 0 .. N : ~ \E f : G(f, n)}
<1>1. N \in Nat
  OBVIOUS
<1>2. \E f : G(f, 0)
  <2>1. G([k \in 0 .. 0 |-> Began], 0)
    OBVIOUS
  <2>2. QED
    BY <2>1
<1>3. ASSUME NEW n \in 1 .. N, NEW f, G(f, n - 1) PROVE \E g : G(g, n)
  <2> DEFINE g == [k \in 0 .. n |-> IF k = n THEN Scan(f[n - 1], points[n]) ELSE f[k]]
  <2>1. ASSUME NEW k \in 0 .. n
        PROVE  g[k] = IF k = 0 THEN Began ELSE Scan(g[k - 1], points[k])
    <3>1. CASE k = n
      <4>1. g[k - 1] = f[n - 1] /\ g[k] = Scan(f[n - 1], points[n]) /\ k # 0
        BY <3>1
      <4>2. QED
        BY <3>1, <4>1
    <3>2. CASE k # n
      <4>1. k \in 0 .. n - 1 /\ g[k] = f[k] /\ (k # 0 => g[k - 1] = f[k - 1])
        BY <3>2
      <4>2. f[k] = IF k = 0 THEN Began ELSE Scan(f[k - 1], points[k])
        BY <1>3, <4>1
      <4>3. QED
        BY <4>1, <4>2
    <3>3. QED
      BY <3>1, <3>2
  <2>2. g = [k \in 0 .. n |-> g[k]]
    OBVIOUS
  <2> HIDE DEF g
  <2>3. G(g, n)
    BY <2>1, <2>2
  <2>4. QED
    BY <2>3
<1>4. \E f : G(f, N)
  <2> HIDE DEF G
  <2> SUFFICES ASSUME ~ \E f : G(f, N) PROVE FALSE
    OBVIOUS
  <2>1. N \in Missing /\ Missing \in SUBSET Nat
    BY <1>1
  <2>2. PICK n \in Missing : \A m \in Missing : ~(m < n)
    BY <2>1, LeastOf
  <2>3. n # 0 /\ n \in 1 .. N
    BY <1>2, <2>2
  <2>4. n - 1 \in 0 .. N /\ n - 1 < n
    BY <2>3
  <2>5. \E f : G(f, n - 1)
    BY <2>2, <2>4
  <2>6. QED
    BY <1>3, <2>2, <2>3, <2>5
<1>5. G(Scanned(points), N)
  BY <1>4 DEF Scanned
<1>6. QED
  BY <1>1, <1>5

(* list is the outages of the stretches in S, each once and in order.      *)
Lists(points, S, list) ==
  \E which \in [DOMAIN list -> S] :
    /\ S = {which[k] : k \in DOMAIN list}
    /\ \A j, k \in DOMAIN list : j < k => which[j][1] < which[k][1]
    /\ \A k \in DOMAIN list : list[k] = Outage(points, which[k])

LEMMA OneMore ==
  ASSUME NEW points, NEW S, NEW T, NEW list \in Seq(T), Lists(points, S, list),
         NEW ab, \A cd \in S : cd[1] < ab[1]
  PROVE  Lists(points, S \cup {ab}, Append(list, Outage(points, ab)))
<1> DEFINE n   == Len(list)
           new == Append(list, Outage(points, ab))
<1>1. PICK which \in [DOMAIN list -> S] :
        /\ S = {which[k] : k \in DOMAIN list}
        /\ \A j, k \in DOMAIN list : j < k => which[j][1] < which[k][1]
        /\ \A k \in DOMAIN list : list[k] = Outage(points, which[k])
  BY DEF Lists
<1>2. n \in Nat /\ DOMAIN list = 1 .. n
  OBVIOUS
<1>3. /\ DOMAIN new = 1 .. n + 1 /\ new[n + 1] = Outage(points, ab)
      /\ \A k \in 1 .. n : new[k] = list[k]
  OBVIOUS
<1> DEFINE w == [k \in 1 .. n + 1 |-> IF k = n + 1 THEN ab ELSE which[k]]
<1>4. w \in [1 .. n + 1 -> S \cup {ab}] /\ w[n + 1] = ab /\ \A k \in 1 .. n : w[k] = which[k]
  BY <1>1, <1>2
<1> HIDE DEF n, new, w
<1>5. \A k \in 1 .. n + 1 : k = n + 1 \/ k \in 1 .. n
  BY <1>2
<1>6. S \cup {ab} = {w[k] : k \in 1 .. n + 1}
  <2>1. n + 1 \in 1 .. n + 1 /\ \A k \in 1 .. n : k \in 1 .. n + 1
    BY <1>2
  <2>2. QED
    BY <1>1, <1>2, <1>4, <1>5, <2>1
<1>7. ASSUME NEW j \in 1 .. n + 1, NEW k \in 1 .. n + 1, j < k PROVE w[j][1] < w[k][1]
  <2>1. j \in 1 .. n
    BY <1>2, <1>7
  <2>2. CASE k = n + 1
    <3>1. w[j] \in S
      BY <1>1, <1>2, <1>4, <2>1
    <3>2. QED
      BY <1>4, <2>2, <3>1
  <2>3. CASE k \in 1 .. n
    BY <1>1, <1>2, <1>4, <1>7, <2>1, <2>3
  <2>4. QED
    BY <1>5, <2>2, <2>3
<1>8. ASSUME NEW k \in 1 .. n + 1 PROVE new[k] = Outage(points, w[k])
  BY <1>1, <1>2, <1>3, <1>4, <1>5
<1>9. Lists(points, S \cup {ab}, new)
  BY <1>3, <1>4, <1>6, <1>7, <1>8 DEF Lists
<1>10. QED
  BY <1>9 DEF new

(* Read from the back, a list in order has the latest first.               *)
LEMMA Backwards ==
  ASSUME NEW points, NEW T, NEW list \in Seq(T), Lists(points, Stretches(points), list)
  PROVE  Outages(points, Reverse(list))
<1> DEFINE n   == Len(list)
           new == Reverse(list)
<1>1. PICK which \in [DOMAIN list -> Stretches(points)] :
        /\ Stretches(points) = {which[k] : k \in DOMAIN list}
        /\ \A j, k \in DOMAIN list : j < k => which[j][1] < which[k][1]
        /\ \A k \in DOMAIN list : list[k] = Outage(points, which[k])
  BY DEF Lists
<1>2. n \in Nat /\ DOMAIN list = 1 .. n
  OBVIOUS
<1>3. DOMAIN new = 1 .. n /\ \A k \in 1 .. n : new[k] = list[(n - k) + 1]
  BY DEF Reverse
<1> DEFINE w == [k \in 1 .. n |-> which[(n - k) + 1]]
<1>4. \A k \in 1 .. n : (n - k) + 1 \in 1 .. n /\ w[k] = which[(n - k) + 1]
  BY <1>2
<1>5. w \in [1 .. n -> Stretches(points)]
  BY <1>1, <1>2, <1>4
<1> HIDE DEF n, new, w
<1>6. Stretches(points) = {w[k] : k \in 1 .. n}
  <2>1. ASSUME NEW x \in Stretches(points) PROVE \E k \in 1 .. n : w[k] = x
    <3>1. PICK k \in 1 .. n : which[k] = x
      BY <1>1, <1>2
    <3>2. (n - k) + 1 \in 1 .. n /\ (n - ((n - k) + 1)) + 1 = k
      BY <1>2
    <3>3. w[(n - k) + 1] = which[k]
      BY <1>4, <3>2
    <3>4. QED
      BY <3>1, <3>2, <3>3
  <2>2. QED
    BY <1>5, <2>1
<1>7. ASSUME NEW j \in 1 .. n, NEW k \in 1 .. n, j < k PROVE w[j][1] > w[k][1]
  <2>1. (n - k) + 1 < (n - j) + 1
    BY <1>2, <1>7
  <2>2. which[(n - k) + 1][1] < which[(n - j) + 1][1]
    BY <1>1, <1>2, <1>4, <2>1
  <2>3. QED
    BY <1>4, <2>2
<1>8. \A k \in 1 .. n : new[k] = Outage(points, w[k])
  BY <1>1, <1>2, <1>3, <1>4
<1>9. Outages(points, new)
  BY <1>3, <1>5, <1>6, <1>7, <1>8 DEF Outages
<1>10. QED
  BY <1>9 DEF new

(* The stretches that have ended before point n, and one that is still     *)
(* going on at n, from a.                                                  *)
Ended(points, n) == {ab \in Stretches(points) : ab[2] < n}

Going(points, a, n) ==
  /\ a \in 1 .. n
  /\ \A k \in a .. n : points[k].status # "up"
  /\ a = 1 \/ points[a - 1].status = "up"

(* What the scan has made of the first n points.                           *)
ScannedTo(points, n, seen) ==
  /\ seen.done \in Seq({Outage(points, ab) : ab \in Stretches(points)})
  /\ Lists(points, Ended(points, n), seen.done)
  /\ seen.open = None => n = 0 \/ points[n].status = "up"
  /\ seen.open # None =>
       \E a \in 1 .. n :
         /\ Going(points, a, n)
         /\ seen.open = [since |-> points[a].age, until |-> None, count |-> n - a + 1]

LEMMA StretchFacts ==
  ASSUME NEW points \in Seq(Row), NEW ab \in Stretches(points)
  PROVE  /\ ab[1] \in 1 .. Len(points) /\ ab[2] \in 1 .. Len(points)
         /\ ab = <<ab[1], ab[2]>> /\ ab[1] <= ab[2]
         /\ \A k \in ab[1] .. ab[2] : points[k].status # "up"
         /\ ab[1] = 1 \/ points[ab[1] - 1].status = "up"
         /\ ab[2] = Len(points) \/ points[ab[2] + 1].status = "up"
  BY DEF Stretches

(* Nothing ends at a point that is up, nor at one followed by another that *)
(* is not.                                                                 *)
LEMMA NoneEnds ==
  ASSUME NEW points \in Seq(Row), NEW n \in 0 .. Len(points) - 1,
         n = 0 \/ points[n].status = "up" \/ points[n + 1].status # "up"
  PROVE  Ended(points, n + 1) = Ended(points, n)
<1>1. Len(points) \in Nat
  OBVIOUS
<1>2. ASSUME NEW ab \in Stretches(points) PROVE ab[2] # n
  <2>1. /\ ab[1] \in 1 .. Len(points) /\ ab[2] \in 1 .. Len(points) /\ ab[1] <= ab[2]
        /\ \A k \in ab[1] .. ab[2] : points[k].status # "up"
        /\ ab[2] = Len(points) \/ points[ab[2] + 1].status = "up"
    BY StretchFacts
  <2>2. ab[2] \in ab[1] .. ab[2]
    BY <2>1
  <2>3. QED
    BY <1>1, <2>1, <2>2
<1>3. \A ab \in Stretches(points) : ab[2] \in Nat
  BY StretchFacts
<1>4. \A ab \in Stretches(points) : ab[2] < n + 1 <=> ab[2] < n
  BY <1>1, <1>2, <1>3
<1>5. QED
  BY <1>4 DEF Ended

(* A stretch that is going on at n and does not go on is one that ends     *)
(* there, and the latest.                                                  *)
LEMMA OneEnds ==
  ASSUME NEW points \in Seq(Row), NEW n \in 1 .. Len(points), NEW a, Going(points, a, n),
         n = Len(points) \/ points[n + 1].status = "up"
  PROVE  /\ <<a, n>> \in Stretches(points)
         /\ Ended(points, n + 1) = Ended(points, n) \cup {<<a, n>>}
         /\ \A cd \in Ended(points, n) : cd[1] < a
<1>1. /\ Len(points) \in Nat /\ a \in 1 .. n /\ a \in 1 .. Len(points)
      /\ \A k \in a .. n : points[k].status # "up"
      /\ a = 1 \/ points[a - 1].status = "up"
  BY DEF Going
<1>2. <<a, n>> \in Stretches(points)
  BY <1>1 DEF Stretches
<1>3. ASSUME NEW cd \in Stretches(points), cd[2] = n PROVE cd = <<a, n>>
  <2>1. /\ cd[1] \in 1 .. Len(points) /\ cd = <<cd[1], cd[2]>> /\ cd[1] <= cd[2]
        /\ \A k \in cd[1] .. cd[2] : points[k].status # "up"
        /\ cd[1] = 1 \/ points[cd[1] - 1].status = "up"
    BY StretchFacts
  <2>2. ~(cd[1] < a)
    <3> SUFFICES ASSUME cd[1] < a PROVE FALSE
      OBVIOUS
    <3>1. a - 1 \in cd[1] .. n /\ a # 1
      BY <1>1, <1>3, <2>1
    <3>2. QED
      BY <1>1, <1>3, <2>1, <3>1
  <2>3. ~(a < cd[1])
    <3> SUFFICES ASSUME a < cd[1] PROVE FALSE
      OBVIOUS
    <3>1. cd[1] - 1 \in a .. n /\ cd[1] # 1
      BY <1>1, <1>3, <2>1
    <3>2. QED
      BY <1>1, <2>1, <3>1
  <2>4. cd[1] = a
    BY <1>1, <2>1, <2>2, <2>3
  <2>5. QED
    BY <1>3, <2>1, <2>4
<1>4. ASSUME NEW cd \in Ended(points, n) PROVE cd[1] < a
  <2>1. cd \in Stretches(points) /\ cd[2] < n
    BY DEF Ended
  <2>2. /\ cd[1] \in 1 .. Len(points) /\ cd[2] \in 1 .. Len(points) /\ cd[1] <= cd[2]
        /\ cd[2] = Len(points) \/ points[cd[2] + 1].status = "up"
    BY <2>1, StretchFacts
  <2>3. points[cd[2] + 1].status = "up" /\ cd[2] + 1 <= n
    BY <1>1, <2>1, <2>2
  <2>4. ~(cd[2] + 1 \in a .. n)
    BY <1>1, <2>3
  <2>5. QED
    BY <1>1, <2>2, <2>3, <2>4
<1>5. \A ab \in Stretches(points) : ab[2] \in Nat
  BY StretchFacts
<1>6. Ended(points, n + 1) = Ended(points, n) \cup {<<a, n>>}
  <2>1. \A ab \in Stretches(points) : ab[2] < n + 1 <=> ab[2] < n \/ ab[2] = n
    BY <1>5
  <2>2. <<a, n>>[2] = n
    OBVIOUS
  <2>3. QED
    BY <1>2, <1>3, <2>1, <2>2 DEF Ended
<1>7. QED
  BY <1>2, <1>4, <1>6

LEMMA NotNone ==
  ASSUME NEW since \in Nat, NEW count \in Nat
  PROVE  [since |-> since, until |-> None, count |-> count] # None
  BY UptimeAssumption

LEMMA Counted ==
  ASSUME NEW since, NEW count, NEW open,
         open = [since |-> since, until |-> None, count |-> count]
  PROVE  [open EXCEPT !.count = @ + 1] = [since |-> since, until |-> None, count |-> count + 1]
  OBVIOUS

LEMMA ScanStarts ==
  ASSUME NEW points \in Seq(Row)
  PROVE  ScannedTo(points, 0, Began)
<1>1. Ended(points, 0) = {}
  <2>1. \A ab \in Stretches(points) : ab[2] \in Nat
    BY StretchFacts
  <2>2. QED
    BY <2>1 DEF Ended
<1>2. Lists(points, {}, << >>)
  <2>1. DOMAIN << >> = {} /\ << >> \in [{} -> {}]
    OBVIOUS
  <2>2. QED
    BY <2>1 DEF Lists
<1>3. Began.done = << >> /\ Began.open = None
  BY DEF Began
<1>4. \A T : << >> \in Seq(T)
  OBVIOUS
<1>5. QED
  BY <1>1, <1>2, <1>3, <1>4 DEF ScannedTo

LEMMA ScanGoesOn ==
  ASSUME NEW points \in Seq(Row), NEW n \in 0 .. Len(points) - 1, NEW seen,
         ScannedTo(points, n, seen)
  PROVE  ScannedTo(points, n + 1, Scan(seen, points[n + 1]))
<1> DEFINE point == points[n + 1]
           next  == Scan(seen, point)
           T     == {Outage(points, ab) : ab \in Stretches(points)}
<1>1. /\ Len(points) \in Nat /\ n \in Nat /\ n + 1 \in 1 .. Len(points)
      /\ \A k \in 1 .. Len(points) : points[k].age \in Nat
  <2>1. \A k \in 1 .. Len(points) : points[k] \in Row
    OBVIOUS
  <2>2. QED
    BY <2>1 DEF Row
<1>2. seen.done \in Seq(T) /\ Lists(points, Ended(points, n), seen.done)
  BY DEF ScannedTo
<1>3. CASE point.status = "up" /\ seen.open = None
  <2>1. next.done = seen.done /\ next.open = None
    BY <1>3 DEF Scan, Closed
  <2>2. Ended(points, n + 1) = Ended(points, n)
    BY <1>3, NoneEnds DEF ScannedTo
  <2>3. QED
    BY <1>2, <1>3, <2>1, <2>2 DEF ScannedTo
<1>4. CASE point.status = "up" /\ seen.open # None
  <2>1. PICK a \in 1 .. n :
          /\ Going(points, a, n)
          /\ seen.open = [since |-> points[a].age, until |-> None, count |-> n - a + 1]
    BY <1>4 DEF ScannedTo
  <2>2. n \in 1 .. Len(points) /\ n # Len(points)
    BY <1>1, <2>1
  <2>3. /\ <<a, n>> \in Stretches(points)
        /\ Ended(points, n + 1) = Ended(points, n) \cup {<<a, n>>}
        /\ \A cd \in Ended(points, n) : cd[1] < <<a, n>>[1]
    BY <1>4, <2>1, <2>2, OneEnds
  <2>4. [seen.open EXCEPT !.until = point.age] = Outage(points, <<a, n>>)
    BY <2>1, <2>2 DEF Outage
  <2>5. next.done = Append(seen.done, Outage(points, <<a, n>>)) /\ next.open = None
    BY <1>4, <2>4 DEF Scan, Closed
  <2>6. Lists(points, Ended(points, n + 1), next.done)
    <3> DEFINE S == Ended(points, n)
               e == <<a, n>>
    <3>1. \A cd \in S : cd[1] < e[1]
      BY <2>3
    <3> HIDE DEF S, e, T, next
    <3>2. seen.done \in Seq(T) /\ Lists(points, S, seen.done)
      BY <1>2 DEF S
    <3>3. Lists(points, S \cup {e}, Append(seen.done, Outage(points, e)))
      BY <3>1, <3>2, OneMore
    <3>4. QED
      BY <2>3, <2>5, <3>3 DEF S, e
  <2>7. next.done \in Seq(T)
    <3>1. Outage(points, <<a, n>>) \in T
      BY <2>3
    <3> HIDE DEF T, next
    <3>2. QED
      BY <1>2, <2>5, <3>1
  <2>8. QED
    BY <1>4, <2>5, <2>6, <2>7 DEF ScannedTo
<1>5. CASE point.status # "up" /\ seen.open = None
  <2>1. next.done = seen.done /\ next.open = [since |-> point.age, until |-> None, count |-> 1]
    BY <1>5 DEF Scan
  <2>2. Ended(points, n + 1) = Ended(points, n)
    BY <1>5, NoneEnds DEF ScannedTo
  <2>3. Going(points, n + 1, n + 1)
    BY <1>1, <1>5 DEF Going, ScannedTo
  <2>4. next.open # None
    BY <1>1, <2>1, NotNone
  <2>5. n + 1 \in 1 .. n + 1 /\ (n + 1) - (n + 1) + 1 = 1
    BY <1>1
  <2>6. QED
    BY <1>2, <2>1, <2>2, <2>3, <2>4, <2>5 DEF ScannedTo
<1>6. CASE point.status # "up" /\ seen.open # None
  <2>1. PICK a \in 1 .. n :
          /\ Going(points, a, n)
          /\ seen.open = [since |-> points[a].age, until |-> None, count |-> n - a + 1]
    BY <1>6 DEF ScannedTo
  <2>2. /\ next.done = seen.done
        /\ next.open = [since |-> points[a].age, until |-> None, count |-> (n + 1) - a + 1]
    <3>1. next.done = seen.done /\ next.open = [seen.open EXCEPT !.count = @ + 1]
      BY <1>6 DEF Scan
    <3>2. (n - a + 1) + 1 = (n + 1) - a + 1
      BY <1>1, <2>1
    <3>3. [seen.open EXCEPT !.count = @ + 1]
            = [since |-> points[a].age, until |-> None, count |-> (n - a + 1) + 1]
      BY <2>1, Counted
    <3>4. QED
      BY <3>1, <3>2, <3>3
  <2>3. Ended(points, n + 1) = Ended(points, n)
    BY <1>6, NoneEnds
  <2>4. Going(points, a, n + 1) /\ a \in 1 .. n + 1
    BY <1>1, <1>6, <2>1 DEF Going
  <2>5. points[a].age \in Nat /\ (n + 1) - a + 1 \in Nat
    BY <1>1, <2>1
  <2>6. next.open # None
    BY <2>2, <2>5, NotNone
  <2>7. QED
    BY <1>2, <2>2, <2>3, <2>4, <2>6 DEF ScannedTo
<1>7. QED
  BY <1>3, <1>4, <1>5, <1>6

LEMMA ScanEnds ==
  ASSUME NEW points \in Seq(Row)
  PROVE  ScannedTo(points, Len(points), Scanned(points)[Len(points)])
<1> DEFINE N == Len(points)
           P(n) == ScannedTo(points, n, Scanned(points)[n])
           Wrong == {n \in 0 .. N : ~P(n)}
<1>1. N \in Nat
  OBVIOUS
<1>2. P(0)
  BY ScannedSteps, ScanStarts
<1>3. ASSUME NEW n \in 1 .. N, P(n - 1) PROVE P(n)
  <2>1. n - 1 \in 0 .. N - 1 /\ (n - 1) + 1 = n
    BY <1>1
  <2>2. Scanned(points)[n] = Scan(Scanned(points)[n - 1], points[n])
    BY ScannedSteps
  <2>3. ScannedTo(points, (n - 1) + 1, Scan(Scanned(points)[n - 1], points[(n - 1) + 1]))
    BY <1>3, <2>1, ScanGoesOn
  <2>4. QED
    BY <2>1, <2>2, <2>3
<1> HIDE DEF P
<1>4. P(N)
  <2> SUFFICES ASSUME ~P(N) PROVE FALSE
    OBVIOUS
  <2>1. N \in Wrong /\ Wrong \in SUBSET Nat
    BY <1>1
  <2>2. PICK n \in Wrong : \A m \in Wrong : ~(m < n)
    BY <2>1, LeastOf
  <2>3. n # 0 /\ n \in 1 .. N
    BY <1>2, <2>2
  <2>4. n - 1 \in 0 .. N /\ n - 1 < n
    BY <2>3
  <2>5. QED
    BY <1>3, <2>2, <2>3, <2>4
<1>5. QED
  BY <1>4 DEF P

(* The incidents derived from a history are its outages, each once and the *)
(* latest first, whatever the history.                                     *)
THEOREM IncidentsOfHistory ==
  ASSUME NEW points \in Seq(Row)
  PROVE  Outages(points, Incidents(points))
<1> DEFINE n    == Len(points)
           seen == Scanned(points)[n]
           T    == {Outage(points, ab) : ab \in Stretches(points)}
<1>1. n \in Nat /\ ScannedTo(points, n, seen)
  BY ScanEnds
<1>2. seen.done \in Seq(T) /\ Lists(points, Ended(points, n), seen.done)
  BY <1>1 DEF ScannedTo
<1>3. \A ab \in Stretches(points) : ab[2] \in 1 .. n
  BY StretchFacts
<1>4. CASE seen.open = None
  <2>1. \A ab \in Stretches(points) : ab[2] # n
    <3> SUFFICES ASSUME NEW ab \in Stretches(points), ab[2] = n PROVE FALSE
      OBVIOUS
    <3>1. n # 0 /\ points[n].status = "up"
      BY <1>1, <1>3, <1>4 DEF ScannedTo
    <3>2. ab[2] \in ab[1] .. ab[2] /\ \A k \in ab[1] .. ab[2] : points[k].status # "up"
      BY StretchFacts
    <3>3. QED
      BY <3>1, <3>2
  <2>2. Ended(points, n) = Stretches(points)
    BY <1>1, <1>3, <2>1 DEF Ended
  <2>3. Incidents(points) = Reverse(seen.done)
    BY <1>4 DEF Incidents
  <2> HIDE DEF T, seen
  <2>4. QED
    BY <1>2, <2>2, <2>3, Backwards
<1>5. CASE seen.open # None
  <2>1. PICK a \in 1 .. n :
          /\ Going(points, a, n)
          /\ seen.open = [since |-> points[a].age, until |-> None, count |-> n - a + 1]
    BY <1>1, <1>5 DEF ScannedTo
  <2>2. n \in 1 .. Len(points)
    BY <1>1, <2>1
  <2> DEFINE e == <<a, n>>
             S == Ended(points, n)
             list == Append(seen.done, Outage(points, e))
  <2>3. e \in Stretches(points) /\ Ended(points, n + 1) = S \cup {e} /\ \A cd \in S : cd[1] < e[1]
    BY <2>1, <2>2, OneEnds
  <2>4. Ended(points, n + 1) = Stretches(points)
    BY <1>1, <1>3 DEF Ended
  <2>5. seen.open = Outage(points, e)
    BY <2>1 DEF Outage
  <2>6. Incidents(points) = Reverse(list)
    BY <1>5, <2>5 DEF Incidents
  <2>7. Outage(points, e) \in T
    BY <2>3
  <2> HIDE DEF T, seen, e, S
  <2>8. list \in Seq(T)
    BY <1>2, <2>7
  <2>9. Lists(points, S, seen.done)
    BY <1>2 DEF S
  <2>10. Lists(points, S \cup {e}, list)
    BY <1>2, <2>3, <2>9, OneMore
  <2>11. Lists(points, Stretches(points), list)
    BY <2>3, <2>4, <2>10
  <2> HIDE DEF list
  <2>12. QED
    BY <2>6, <2>8, <2>11, Backwards
<1>6. QED
  BY <1>4, <1>5

(* However probes insert and prune, the incidents told of a service are    *)
(* the outages of its history.                                             *)
THEOREM IncidentsTold == Spec => []IncidentsExact
<1>1. ProbesSound => IncidentsExact
  BY IncidentsOfHistory DEF ProbesSound, Typed, IncidentsExact
<1>2. QED
  BY <1>1, AlwaysWatched, PTL
=============================================================================
