-------------------------- MODULE DashboardProofs --------------------------
(***************************************************************************)
(* Proofs about Dashboard and the HistoryModal in it, for any pages, cards *)
(* and groups, any number of tasks, and users and requests that fail as    *)
(* often as they like.                                                     *)
(*                                                                         *)
(* A task lives through changes of others, so what is known of it relates  *)
(* it to what its page showed when it began (TasksSound), and what is      *)
(* known of the groups is what they come to when a move under way is done  *)
(* (GroupsSound).                                                          *)
(***************************************************************************)
EXTENDS Dashboard, FiniteSetTheorems, SequenceTheorems, WellFoundedInduction, TLAPS

-----------------------------------------------------------------------------
(* The history modal                                                       *)

ModalLocals ==
  /\ modal = [target |-> modal.target, summary |-> modal.summary, message |-> modal.message,
              logs |-> modal.logs, lines |-> modal.lines, source |-> modal.source]
  /\ modal.logs \in BOOLEAN

ModalSound == ModalLocals /\ ShowsTarget

LEMMA ModalInitSound ==
  ASSUME ModalInit
  PROVE  ModalSound
BY DEF ModalInit, ModalSound, ModalLocals, ShowsTarget

LEMMA TailedModal ==
  ASSUME NEW m, m = [target |-> m.target, summary |-> m.summary, message |-> m.message,
                     logs |-> m.logs, lines |-> m.lines, source |-> m.source],
         m.logs \in BOOLEAN, modal' = Tailed(m)
  PROVE  /\ ModalLocals'
         /\ modal'.target = m.target /\ modal'.summary = m.summary /\ modal'.message = m.message
         /\ modal'.logs = m.logs /\ modal'.source \in {None, m.target}
         /\ m.logs /\ m.target # None => modal'.lines = {}
BY DEF Tailed, ModalLocals

LEMMA BlankModal ==
  ASSUME ModalSound
  PROVE  Blank(modal) = [target |-> modal.target, summary |-> None, message |-> None,
                         logs |-> FALSE, lines |-> modal.lines, source |-> modal.source]
<1> DEFINE a == [modal EXCEPT !.summary = None]
           b == [a EXCEPT !.message = None]
<1>1. a = [target |-> modal.target, summary |-> None, message |-> modal.message,
           logs |-> modal.logs, lines |-> modal.lines, source |-> modal.source]
  BY DEF ModalSound, ModalLocals
<1>2. Blank(modal) = [b EXCEPT !.logs = FALSE]
  BY DEF Blank
<1> HIDE DEF a
<1>3. b = [target |-> modal.target, summary |-> None, message |-> None,
           logs |-> modal.logs, lines |-> modal.lines, source |-> modal.source]
  BY <1>1
<1> HIDE DEF b
<1>4. QED
  BY <1>2, <1>3

LEMMA OpenCloseSound ==
  ASSUME ModalSound, (\E i \in Shown : OpenModal(i)) \/ CloseModal
  PROVE  ModalSound'
<1>1. CASE CloseModal
  <2> DEFINE m == [Blank(modal) EXCEPT !.target = None]
  <2>1. modal' = Tailed(m)
    BY <1>1 DEF CloseModal
  <2>2. /\ m = [target |-> m.target, summary |-> m.summary, message |-> m.message,
                logs |-> m.logs, lines |-> m.lines, source |-> m.source]
        /\ m.logs = FALSE /\ m.target = None
    BY BlankModal
  <2> HIDE DEF m
  <2>3. ModalLocals' /\ modal'.target = None
    BY <2>1, <2>2, TailedModal
  <2>4. QED
    BY <2>3 DEF ModalSound, ShowsTarget
<1>2. ASSUME NEW i \in Shown, OpenModal(i) PROVE ModalSound'
  <2> DEFINE m == [Blank(modal) EXCEPT !.target = i]
  <2>1. modal' = Tailed(m)
    BY <1>2 DEF OpenModal
  <2>2. /\ m = [target |-> m.target, summary |-> m.summary, message |-> m.message,
                logs |-> m.logs, lines |-> m.lines, source |-> m.source]
        /\ m.logs = FALSE /\ m.target = i /\ m.summary = None /\ m.message = None
    BY BlankModal
  <2> HIDE DEF m
  <2>3. /\ ModalLocals' /\ modal'.target = i /\ modal'.source \in {None, i}
        /\ modal'.logs = FALSE /\ modal'.summary = None /\ modal'.message = None
    BY <2>1, <2>2, TailedModal
  <2>4. QED
    BY <2>3 DEF ModalSound, ShowsTarget
<1>3. QED
  BY <1>1, <1>2

LEMMA LogsSound ==
  ASSUME ModalSound, ToggleLogs \/ LogLine
  PROVE  ModalSound'
<1>1. CASE ToggleLogs
  <2> DEFINE m == [modal EXCEPT !.logs = ~@]
  <2>1. modal' = Tailed(m) /\ UNCHANGED late
    BY <1>1 DEF ToggleLogs
  <2>2. /\ m = [target |-> m.target, summary |-> m.summary, message |-> m.message,
                logs |-> m.logs, lines |-> m.lines, source |-> m.source]
        /\ m.logs \in BOOLEAN /\ m.target = modal.target
        /\ m.summary = modal.summary /\ m.message = modal.message
    BY DEF ModalSound, ModalLocals
  <2> HIDE DEF m
  <2>3. /\ ModalLocals' /\ modal'.target = modal.target /\ modal'.source \in {None, modal.target}
        /\ modal'.summary = modal.summary /\ modal'.message = modal.message
        /\ modal'.logs /\ modal.target # None => modal'.lines = {}
    BY <2>1, <2>2, TailedModal
  <2>4. QED
    BY <2>1, <2>3 DEF ModalSound, ShowsTarget
<1>2. CASE LogLine
  <2>1. /\ modal.source # None /\ UNCHANGED late
        /\ modal' = [modal EXCEPT !.lines = modal.lines \cup {modal.source}]
    BY <1>2 DEF LogLine
  <2>2. /\ ModalLocals' /\ modal'.target = modal.target /\ modal'.source = modal.source
        /\ modal'.summary = modal.summary /\ modal'.message = modal.message
        /\ modal'.logs = modal.logs /\ modal'.lines = modal.lines \cup {modal.source}
    BY <2>1 DEF ModalSound, ModalLocals
  <2>3. QED
    BY <2>1, <2>2 DEF ModalSound, ShowsTarget
<1>3. QED
  BY <1>1, <1>2

LEMMA AnswersSound ==
  ASSUME ModalSound,
         FireControl \/ \E i \in Shown : OpenAnswered(i) \/ ControlAnswered(i) \/ AgainAnswered(i)
  PROVE  ModalSound'
<1>1. CASE FireControl
  <2>1. modal' = [modal EXCEPT !.message = None] /\ late' = late \ {"message"}
    BY <1>1 DEF FireControl
  <2>2. /\ ModalLocals' /\ modal'.target = modal.target /\ modal'.source = modal.source
        /\ modal'.summary = modal.summary /\ modal'.message = None
        /\ modal'.logs = modal.logs /\ modal'.lines = modal.lines
    BY <2>1 DEF ModalSound, ModalLocals
  <2>3. QED
    BY <2>1, <2>2 DEF ModalSound, ShowsTarget
<1>2. ASSUME NEW i, NEW answer \in {i, None}, late' = Late("summary", i),
             modal' = [modal EXCEPT !.summary = answer]
      PROVE  ModalSound'
  <2>1. /\ ModalLocals' /\ modal'.target = modal.target /\ modal'.source = modal.source
        /\ modal'.summary = answer /\ modal'.message = modal.message
        /\ modal'.logs = modal.logs /\ modal'.lines = modal.lines
    BY <1>2 DEF ModalSound, ModalLocals
  <2>2. /\ "summary" \in late' \/ i = modal.target
        /\ "message" \in late' <=> "message" \in late
    BY <1>2 DEF Late
  <2>3. QED
    BY <1>2, <2>1, <2>2 DEF ModalSound, ShowsTarget
<1>3. ASSUME NEW i, late' = Late("message", i), modal' = [modal EXCEPT !.message = i]
      PROVE  ModalSound'
  <2>1. /\ ModalLocals' /\ modal'.target = modal.target /\ modal'.source = modal.source
        /\ modal'.summary = modal.summary /\ modal'.message = i
        /\ modal'.logs = modal.logs /\ modal'.lines = modal.lines
    BY <1>3 DEF ModalSound, ModalLocals
  <2>2. /\ "message" \in late' \/ i = modal.target
        /\ "summary" \in late' <=> "summary" \in late
    BY <1>3 DEF Late
  <2>3. QED
    BY <1>3, <2>1, <2>2 DEF ModalSound, ShowsTarget
<1>4. CASE UNCHANGED <<modal, late>>
  BY <1>4 DEF ModalSound, ModalLocals, ShowsTarget
<1>5. QED
  BY <1>1, <1>2, <1>3, <1>4 DEF OpenAnswered, ControlAnswered, AgainAnswered

LEMMA ModalStepSound ==
  ASSUME ModalSound, ModalAct \/ ModalGoesOn \/ UNCHANGED modalVars
  PROVE  ModalSound'
<1>1. CASE UNCHANGED modalVars
  BY <1>1 DEF modalVars, ModalSound, ModalLocals, ShowsTarget
<1>2. QED
  BY <1>1, OpenCloseSound, LogsSound, AnswersSound DEF ModalAct, ModalGoesOn

(* No step of a card, a group or a task touches the modal.                 *)
LEMMA OthersKeepModal ==
  ASSUME Next
  PROVE  ModalAct \/ ModalGoesOn \/ UNCHANGED modalVars
<1>1. ASSUME NEW t \in Tabs, NEW i \in Services \cup Links, OnCard(t, i)
      PROVE  UNCHANGED modalVars
  <2>1. ASSUME NEW k \in Slots,
               \/ DropInPage(t, i, k) \/ DropInSource(t, i, k) \/ DropInGroup(t, i, k)
               \/ DropLink(t, i, k) \/ DropGroupLink(t, i, k)
               \/ ResetSource(t, i, k) \/ ResetGroup(t, i, k)
        PROVE  UNCHANGED modalVars
    BY <2>1 DEF DropInPage, DropInSource, DropInGroup, DropLink, DropGroupLink, Dropped,
                ResetSource, ResetGroup
  <2>2. QED
    BY <1>1, <2>1
       DEF OnCard, DragStart, DeleteService, DeleteLink, Deleted, AddService, AddLink, Added,
           EditService, EditLink, Edited
<1>2. ASSUME NEW t \in Tabs, User(t)
      PROVE  UNCHANGED modalVars
  BY <1>1, <1>2 DEF User, DragEnd, CreateGroup, ResetPage, DeleteGroup, RenameGroup, MoveGroup
<1>3. ASSUME NEW t \in Tabs, ListServices(t) \/ ListLinks(t) \/ ListGroups(t)
      PROVE  UNCHANGED modalVars
  BY <1>3 DEF ListServices, ListLinks, ListGroups, RefetchCards
<1>4. ASSUME NEW k \in Slots, Task(k)
      PROVE  UNCHANGED modalVars
  BY <1>4 DEF Task, FetchForDrop, SendOrder, ReadCard, WriteCard, ReadGroup, WriteGroup
<1>5. QED
  BY <1>2, <1>3, <1>4 DEF Next

(* In whatever order the answers for services looked at before arrive, the *)
(* modal shows the log of the service it was opened for, and its summary   *)
(* and its message unless such an answer is the last that came             *)
(* (history_modal.rs:158).                                                 *)
THEOREM ModalShowsTarget == Spec => []ShowsTarget
<1>1. Init => ModalSound
  BY ModalInitSound DEF Init
<1>2. ModalSound /\ [Next]_vars => ModalSound'
  <2>1. UNCHANGED vars => UNCHANGED modalVars
    BY DEF vars
  <2>2. QED
    BY <2>1, OthersKeepModal, ModalStepSound
<1>3. ModalSound => ShowsTarget
  BY DEF ModalSound
<1>4. QED
  BY <1>1, <1>2, <1>3, PTL DEF Spec

-----------------------------------------------------------------------------
(* Rows                                                                    *)

(* Both keys are numbers, and the second tells all members apart.          *)
Keys(ids, key, then) ==
  /\ \A i \in ids : key[i] \in Nat /\ then[i] \in Nat
  /\ \A i, j \in ids : then[i] = then[j] => i = j

(* Every member of a finite set has a place in its row, and there is       *)
(* nothing else in it and nothing twice.                                   *)
LEMMA RankedHolds ==
  ASSUME NEW ids, IsFiniteSet(ids), NEW key, NEW then, Keys(ids, key, then)
  PROVE  LET row == Ranked(ids, key, then) IN
         /\ Len(row) = Cardinality(ids) /\ Cardinality(ids) \in Nat
         /\ DOMAIN row = 1..Cardinality(ids)
         /\ \A i \in ids : PlaceOf(row, i) \in 1..Cardinality(ids) /\ row[PlaceOf(row, i)] = i
         /\ \A n \in 1..Cardinality(ids) : row[n] \in ids
         /\ \A m, n \in 1..Cardinality(ids) : row[m] = row[n] => m = n
         /\ \A n \in 1..Cardinality(ids), i \in ids :
              Cardinality({j \in ids : Before(key, then, j, i)}) = n - 1 => row[n] = i
         /\ \A n \in 1..Cardinality(ids) :
              Cardinality({j \in ids : Before(key, then, j, row[n])}) = n - 1
<1> DEFINE row == Ranked(ids, key, then)
           First(i) == {j \in ids : Before(key, then, j, i)}
           Rank(i) == Cardinality(First(i))
<1>1. Cardinality(ids) \in Nat
  BY FS_CardinalityType
<1>2. row = [n \in 1..Cardinality(ids) |-> CHOOSE i \in ids : Rank(i) = n - 1]
  BY DEF Ranked
<1>3. DOMAIN row = 1..Cardinality(ids) /\ Len(row) = Cardinality(ids)
  BY <1>1, <1>2
<1>4. \A i \in ids : ~Before(key, then, i, i)
  BY DEF Keys, Before
<1>5. \A i, j \in ids : i # j => Before(key, then, i, j) \/ Before(key, then, j, i)
  BY DEF Keys, Before
<1>6. \A i, j, m \in ids :
        Before(key, then, m, i) /\ Before(key, then, i, j) => Before(key, then, m, j)
  BY DEF Keys, Before
<1>7. \A i \in ids : IsFiniteSet(First(i)) /\ Rank(i) \in Nat
  BY FS_Subset, FS_CardinalityType
<1>8. ASSUME NEW T, IsFiniteSet(T), NEW i \in T, NEW S, S \subseteq T \ {i}
      PROVE  Cardinality(S) < Cardinality(T)
  <2>1. IsFiniteSet(T \ {i}) /\ Cardinality(T \ {i}) = Cardinality(T) - 1
    BY <1>8, FS_RemoveElement
  <2>2. IsFiniteSet(S) /\ Cardinality(S) <= Cardinality(T \ {i})
    BY <1>8, <2>1, FS_Subset
  <2>3. Cardinality(S) \in Nat /\ Cardinality(T) \in Nat
    BY <1>8, <2>2, FS_CardinalityType
  <2>4. QED
    BY <2>1, <2>2, <2>3
<1>9. \A i \in ids : Rank(i) < Cardinality(ids)
  <2> SUFFICES ASSUME NEW i \in ids PROVE Rank(i) < Cardinality(ids)
    OBVIOUS
  <2>1. First(i) \subseteq ids \ {i}
    BY <1>4
  <2>2. QED
    BY <1>8, <2>1
<1>10. \A i, j \in ids : Before(key, then, i, j) => Rank(i) < Rank(j)
  <2> SUFFICES ASSUME NEW i \in ids, NEW j \in ids, Before(key, then, i, j)
               PROVE  Rank(i) < Rank(j)
    OBVIOUS
  <2>1. First(i) \subseteq First(j) \ {i} /\ i \in First(j)
    BY <1>4, <1>6
  <2> HIDE DEF First
  <2>2. QED
    BY <1>7, <1>8, <2>1
<1> HIDE DEF First, Rank, row
<1>11. \A i, j \in ids : Rank(i) = Rank(j) => i = j
  BY <1>5, <1>7, <1>10
<1>12. ASSUME NEW i \in ids
       PROVE  PlaceOf(row, i) \in 1..Cardinality(ids) /\ row[PlaceOf(row, i)] = i
  <2> DEFINE n == Rank(i) + 1
  <2>1. n \in 1..Cardinality(ids)
    BY <1>1, <1>7, <1>9
  <2>2. row[n] = CHOOSE j \in ids : Rank(j) = Rank(i)
    <3>1. n - 1 = Rank(i)
      BY <1>7
    <3>2. QED
      BY <1>2, <2>1, <3>1
  <2>3. row[n] = i
    BY <1>11, <2>2
  <2>4. QED
    BY <1>3, <2>1, <2>3 DEF PlaceOf
<1>13. ASSUME NEW n \in 1..Cardinality(ids) PROVE row[n] \in ids /\ Rank(row[n]) = n - 1
  <2> DEFINE places == 0..(Cardinality(ids) - 1)
             r == [i \in ids |-> Rank(i)]
  <2>1. r \in [ids -> places] /\ \A i, j \in ids : r[i] = r[j] => i = j
    BY <1>1, <1>7, <1>9, <1>11
  <2>2. r \in Injection(ids, places)
    BY <2>1 DEF Injection, IsInjective
  <2>3. IsFiniteSet(places) /\ Cardinality(places) = Cardinality(ids)
    <3> DEFINE c == Cardinality(ids) - 1
    <3>1. 0 \in Int /\ c \in Int /\ c + 1 \in Nat
      BY <1>1
    <3> HIDE DEF c
    <3>2. IsFiniteSet(0..c) /\ Cardinality(0..c) = IF 0 > c THEN 0 ELSE c - 0 + 1
      BY <3>1, FS_Interval, Zenon
    <3>3. Cardinality(0..c) = c + 1
      BY <3>1, <3>2
    <3>4. QED
      BY <1>1, <3>2, <3>3 DEF c
  <2> HIDE DEF r, places
  <2>4. r \in Surjection(ids, places)
    BY <2>2, <2>3, FS_Injection
  <2>5. n - 1 \in places
    BY <1>1 DEF places
  <2>6. PICK i \in ids : r[i] = n - 1
    BY <2>4, <2>5 DEF Surjection
  <2>7. Rank(i) = n - 1
    BY <2>6 DEF r
  <2>8. row[n] = CHOOSE j \in ids : Rank(j) = n - 1
    BY <1>2
  <2>9. QED
    BY <2>7, <2>8
<1>14. \A m, n \in 1..Cardinality(ids) : row[m] = row[n] => m = n
  <2> SUFFICES ASSUME NEW m \in 1..Cardinality(ids), NEW n \in 1..Cardinality(ids),
                      row[m] = row[n]
               PROVE  m = n
    OBVIOUS
  <2>1. m - 1 = n - 1
    BY <1>13
  <2>2. QED
    BY <1>1, <2>1
<1>15. \A n \in 1..Cardinality(ids), i \in ids : Rank(i) = n - 1 => row[n] = i
  BY <1>11, <1>13
<1>16. \A i : Rank(i) = Cardinality({j \in ids : Before(key, then, j, i)})
  BY DEF Rank, First
<1>17. QED
  BY <1>1, <1>3, <1>12, <1>13, <1>14, <1>15, <1>16 DEF row

(* The same of a row by its name.                                          *)
LEMMA RankedRow ==
  ASSUME NEW ids, IsFiniteSet(ids), NEW key, NEW then, Keys(ids, key, then),
         NEW row, row = Ranked(ids, key, then), NEW c, c = Cardinality(ids)
  PROVE  /\ c \in Nat /\ DOMAIN row = 1..c
         /\ \A i \in ids : PlaceOf(row, i) \in 1..c /\ row[PlaceOf(row, i)] = i
         /\ \A m \in 1..c : row[m] \in ids
         /\ \A l, m \in 1..c : row[l] = row[m] => l = m
BY RankedHolds

(* Keys that order the members alike make the same row.                    *)
LEMMA RankedSame ==
  ASSUME NEW ids, IsFiniteSet(ids), NEW key, NEW other, NEW then,
         Keys(ids, key, then), Keys(ids, other, then),
         \A i, j \in ids : Before(key, then, j, i) <=> Before(other, then, j, i)
  PROVE  Ranked(ids, key, then) = Ranked(ids, other, then)
<1> DEFINE c == Cardinality(ids)
           row == Ranked(ids, key, then)
           alt == Ranked(ids, other, then)
           First(i) == {j \in ids : Before(key, then, j, i)}
           Second(i) == {j \in ids : Before(other, then, j, i)}
<1>1. \A i \in ids : First(i) = Second(i)
  OBVIOUS
<1> DEFINE pick(n) == CHOOSE i \in ids : Cardinality(First(i)) = n - 1
           pack(n) == CHOOSE i \in ids : Cardinality(Second(i)) = n - 1
<1>2. row = [n \in 1..c |-> pick(n)] /\ alt = [n \in 1..c |-> pack(n)]
  BY DEF Ranked
<1>3. /\ \A n \in 1..c : alt[n] \in ids /\ Cardinality(Second(alt[n])) = n - 1
      /\ \A n \in 1..c, i \in ids : Cardinality(First(i)) = n - 1 => row[n] = i
  BY RankedHolds
<1> HIDE DEF c, row, alt, First, Second, pick, pack
<1>4. \A n \in 1..c : row[n] = pick(n) /\ alt[n] = pack(n)
  BY <1>2
<1>5. \A n \in 1..c : row[n] = alt[n]
  BY <1>1, <1>3
<1>6. \A n \in 1..c : pick(n) = pack(n)
  BY <1>4, <1>5
<1>7. QED
  BY <1>2, <1>6 DEF row, alt

-----------------------------------------------------------------------------
(* Types                                                                   *)

Card == [order : Nat, group : 1..MaxGroup \cup {None}]

CardTables  == UNION {[S -> Card] : S \in SUBSET (Services \cup Links)}
GroupTables == UNION {[S -> Nat] : S \in SUBSET (1..MaxGroup)}
ModeNames   == {m[t] : m \in Modes, t \in Tabs}
Pages       == [mode : ModeNames, cards : CardTables, groups : GroupTables]

TypeOK ==
  /\ cards \in CardTables
  /\ groups \in GroupTables /\ serial \in 0..MaxGroup /\ DOMAIN groups \subseteq 1..serial
  /\ pages \in [Tabs -> Pages]
  /\ DOMAIN drags = Tabs /\ DOMAIN tasks = Slots
  /\ faults \in Nat

LEMMA TablesOf ==
  ASSUME NEW f
  PROVE  /\ f \in CardTables <=> DOMAIN f \subseteq Services \cup Links /\ f \in [DOMAIN f -> Card]
         /\ f \in GroupTables <=> DOMAIN f \subseteq 1..MaxGroup /\ f \in [DOMAIN f -> Nat]
BY DEF CardTables, GroupTables

LEMMA EmptyTable ==
  /\ << >> \in GroupTables /\ DOMAIN << >> = {}
<1>1. DOMAIN << >> = {} /\ << >> \in [DOMAIN << >> -> Nat]
  OBVIOUS
<1>2. QED
  BY <1>1, TablesOf

(* Cards of a table can be put in a row in each of the three ways.         *)
LEMMA TableKeys ==
  ASSUME NEW table \in CardTables, NEW ids \in SUBSET DOMAIN table
  PROVE  /\ IsFiniteSet(ids) /\ ids \subseteq Services \cup Links
         /\ Keys(ids, Orders(table, ids), Title)
         /\ Keys(ids, Orders(table, ids), [i \in ids |-> i])
<1>1. ids \subseteq Services \cup Links /\ table \in [DOMAIN table -> Card]
  BY TablesOf
<1>2. IsFiniteSet(ids)
  <2>1. IsFiniteSet(Services \cup Links)
    BY DashboardAssumption, FS_Union
  <2>2. QED
    BY <1>1, <2>1, FS_Subset
<1>3. \A i \in ids : table[i].order \in Nat /\ Title[i] \in Nat /\ i \in Nat
  BY <1>1, DashboardAssumption DEF Card
<1>4. QED
  BY <1>1, <1>2, <1>3, DashboardAssumption DEF Keys, Orders

LEMMA TableRows ==
  ASSUME NEW table \in CardTables, NEW ids \in SUBSET DOMAIN table
  PROVE  /\ Cardinality(ids) \in Nat
         /\ Len(Sorted(table, ids)) = Cardinality(ids)
         /\ Len(Sent(table, ids)) = Cardinality(ids)
         /\ DOMAIN Sorted(table, ids) = 1..Cardinality(ids)
         /\ DOMAIN Sent(table, ids) = 1..Cardinality(ids)
         /\ \A i \in ids : PlaceOf(Sorted(table, ids), i) \in 1..Cardinality(ids)
         /\ \A n \in 1..Cardinality(ids) : Sorted(table, ids)[n] \in ids /\ Sent(table, ids)[n] \in ids
<1> DEFINE key  == Orders(table, ids)
           then == [i \in ids |-> i]
<1>1. IsFiniteSet(ids) /\ Keys(ids, key, Title) /\ Keys(ids, key, then)
  BY TableKeys
<1>2. Sorted(table, ids) = Ranked(ids, key, Title) /\ Sent(table, ids) = Ranked(ids, key, then)
  BY DEF Sorted, Sent
<1> HIDE DEF key, then
<1>3. QED
  BY <1>1, <1>2, RankedHolds

LEMMA MembersOf ==
  ASSUME NEW p \in Pages, NEW s
  PROVE  p.cards \in CardTables /\ Members(p, s) \in SUBSET DOMAIN p.cards
BY DEF Pages, Members

LEMMA RowHolds ==
  ASSUME NEW p \in Pages, NEW s
  PROVE  /\ Len(Row(p, s)) \in Nat /\ Len(Row(p, s)) = Cardinality(Members(p, s))
         /\ \A i \in Members(p, s) : PlaceOf(Row(p, s), i) \in 1..Len(Row(p, s))
BY MembersOf, TableRows DEF Row

LEMMA MaxOfTwo ==
  ASSUME NEW a \in Nat, NEW b \in Nat
  PROVE  Max({a, b}) \in Nat /\ a <= Max({a, b}) /\ b <= Max({a, b})
<1>1. \E x \in {a, b} : \A y \in {a, b} : x >= y
  OBVIOUS
<1>2. Max({a, b}) \in {a, b} /\ \A y \in {a, b} : Max({a, b}) >= y
  BY <1>1 DEF Max
<1>3. QED
  BY <1>2

-----------------------------------------------------------------------------
(* What is known of a task.  Its drop, if the page has not gone stale, is  *)
(* of the cards it saw; its orders are those of the row it wants, if it    *)
(* wants one.                                                              *)

FetchSound(x) ==
  /\ x.pc = "fetch" /\ x.az \in BOOLEAN
  /\ ~x.az =>
       /\ x.had \in Nat /\ x.src \in 1..x.had /\ x.dst \in 1..x.had
       /\ DOMAIN x.seen = x.ids
       /\ x.want # None => x.want = Moved(Sorted(x.seen, x.ids), x.src, x.dst)

CardPatch(p) ==
  /\ \A i \in DOMAIN p.orders : p.orders[i] \in Nat
  /\ p.want # None => p.orders = Payload(p.want) /\ DOMAIN p.want \subseteq Nat

(* One or two.                                                             *)
Pair(queue) == queue = <<queue[1]>> \/ queue = <<queue[1], queue[2]>>

SendSound(x) ==
  x.pc = "send" /\ Pair(x.queue) /\ \A n \in DOMAIN x.queue : CardPatch(x.queue[n])

CardPut(q) ==
  q.list # "groups" /\ q.id \in Services \cup Links /\ q.group \in 1..MaxGroup \cup {None}

NamePut(q) == q.list = "groups" /\ q.order = None
MovePut(q) == q.list = "groups" /\ q.order \in Nat

(* A card, a name or one or two groups that are moved.                     *)
PutSound(x) ==
  /\ x.pc \in {"read", "write"} /\ (x.pc = "write" => x.row \in Nat)
  /\ \/ x.queue = <<x.queue[1]>> /\ (CardPut(x.queue[1]) \/ NamePut(x.queue[1]))
     \/ Pair(x.queue) /\ \A n \in DOMAIN x.queue : MovePut(x.queue[n])

TaskSound(x) == x = Idle \/ FetchSound(x) \/ SendSound(x) \/ PutSound(x)

TasksSound == \A k \in Slots : TaskSound(tasks[k])

DragsSound ==
  \A t \in Tabs : drags[t] # None =>
    drags[t].page \in Pages /\ drags[t].src \in 1..Len(Row(drags[t].page, drags[t].section))

(* What groups come to when the tasks that move one are done.              *)
Overlaid(f, q) == [g \in DOMAIN f |-> IF g = q.id THEN q.order ELSE f[g]]

After(f, queue) ==
  IF Len(queue) = 1 THEN Overlaid(f, queue[1])
                    ELSE Overlaid(Overlaid(f, queue[1]), queue[2])

(* Unless there was a race, one task at most moves groups, and it leaves   *)
(* no ties, though there may be one between its two requests.              *)
GroupsSound ==
  ~raced =>
    /\ \A k, l \in Slots : IsMove(tasks[k]) /\ IsMove(tasks[l]) => k = l
    /\ (\A k \in Slots : ~IsMove(tasks[k])) => Apart(groups)
    /\ \A k \in Slots : IsMove(tasks[k]) => Apart(After(groups, tasks[k].queue))

IInv == TypeOK /\ TasksSound /\ DragsSound /\ GroupsSound

-----------------------------------------------------------------------------
(* The order after the last                                                *)

(* A set of naturals that is not empty has a least element.                *)
LEMMA LeastOf ==
  ASSUME NEW T \in SUBSET Nat, T # {}
  PROVE  \E n \in T : \A m \in T : ~(m < n)
<1> DEFINE R == OpToRel(<, Nat)
<1>1. \E n \in T : \A m \in T : ~ (<<m, n>> \in R)
  <2>1. IsWellFoundedOn(R, Nat)
    BY NatLessThanWellFounded
  <2> HIDE DEF R
  <2>2. QED
    BY <2>1, WFMin
<1>2. \A n, m \in Nat : m < n => <<m, n>> \in R
  BY DEF R, OpToRel
<1>3. QED
  <2> HIDE DEF R
  <2>1. PICK n \in T : \A m \in T : ~ (<<m, n>> \in R)
    BY <1>1
  <2>2. QED
    BY <2>1, <1>2, Zenon

(* Finitely many numbers have a bound.                                     *)
LEMMA Bounded ==
  ASSUME NEW list \in GroupTables
  PROVE  \E m \in Nat : \A g \in DOMAIN list : list[g] <= m
<1>1. DOMAIN list \subseteq 1..MaxGroup /\ MaxGroup \in Nat /\ \A g \in DOMAIN list : list[g] \in Nat
  BY TablesOf, DashboardAssumption
<1> DEFINE Bad == {n \in Nat : ~ \E m \in Nat : \A g \in DOMAIN list : g <= n => list[g] <= m}
<1>2. Bad = {}
  <2> SUFFICES ASSUME Bad # {} PROVE FALSE
    OBVIOUS
  <2>1. PICK n \in Bad : \A m \in Bad : ~(m < n)
    <3>1. Bad \in SUBSET Nat
      OBVIOUS
    <3> HIDE DEF Bad
    <3>2. QED
      BY <3>1, LeastOf
  <2>2. n # 0
    <3>1. \A g \in DOMAIN list : g <= 0 => list[g] <= 0
      BY <1>1
    <3>2. 0 \notin Bad
      BY <3>1
    <3>3. QED
      BY <3>2
  <2>3. n - 1 \in Nat /\ n - 1 \notin Bad
    <3>1. n \in Nat /\ n - 1 \in Nat /\ n - 1 < n
      BY <2>2
    <3> HIDE DEF Bad
    <3>2. QED
      BY <2>1, <3>1
  <2>4. PICK m \in Nat : \A g \in DOMAIN list : g <= n - 1 => list[g] <= m
    BY <2>3
  <2> DEFINE top == IF n \in DOMAIN list /\ list[n] > m THEN list[n] ELSE m
  <2>5. top \in Nat /\ m <= top /\ (n \in DOMAIN list => list[n] <= top)
    BY <1>1
  <2> HIDE DEF top
  <2>6. \A g \in DOMAIN list : g <= n => list[g] <= top
    <3> SUFFICES ASSUME NEW g \in DOMAIN list, g <= n PROVE list[g] <= top
      OBVIOUS
    <3>1. g \in Nat /\ n \in Nat /\ list[g] \in Nat
      BY <1>1
    <3>2. g = n \/ g <= n - 1
      BY <3>1
    <3>3. QED
      BY <2>4, <2>5, <3>1, <3>2
  <2>7. n \notin Bad
    BY <2>5, <2>6
  <2>8. QED
    BY <2>7
<1>3. PICK m \in Nat : \A g \in DOMAIN list : g <= MaxGroup => list[g] <= m
  BY <1>1, <1>2
<1>4. \A g \in DOMAIN list : g <= MaxGroup
  BY <1>1
<1>5. QED
  BY <1>3, <1>4

(* A new group comes after all that its page knows.                        *)
LEMMA NextOrderLast ==
  ASSUME NEW list \in GroupTables
  PROVE  /\ NextOrder(list) \in Nat
         /\ \A g \in DOMAIN list : list[g] < NextOrder(list)
<1>1. \A g \in DOMAIN list : list[g] \in Nat
  BY TablesOf
<1>2. CASE DOMAIN list = {}
  BY <1>2 DEF NextOrder
<1>3. CASE DOMAIN list # {}
  <2> DEFINE S == {list[g] : g \in DOMAIN list}
             U == {m \in Nat : \A s \in S : s <= m}
  <2>1. S \in SUBSET Nat /\ S # {} /\ \A g \in DOMAIN list : list[g] \in S
    BY <1>1, <1>3
  <2>2. U \in SUBSET Nat /\ U # {}
    BY Bounded
  <2> HIDE DEF S
  <2>3. PICK u \in U : \A m \in U : ~(m < u)
    <3> HIDE DEF U
    <3>1. QED
      BY <2>2, LeastOf
  <2>4. u \in S
    <3>1. u \in Nat /\ \A s \in S : s <= u
      OBVIOUS
    <3>2. CASE u = 0
      <4>1. PICK s \in S : TRUE
        BY <2>1
      <4>2. s \in Nat /\ s <= 0
        BY <2>1, <3>1, <3>2
      <4>3. s = 0
        BY <4>2
      <4>4. QED
        BY <3>2, <4>3
    <3>3. CASE u # 0
      <4>1. u - 1 \in Nat /\ u - 1 \notin U
        <5>1. u - 1 \in Nat /\ u - 1 < u
          BY <3>1, <3>3
        <5> HIDE DEF U
        <5>2. QED
          BY <2>3, <5>1
      <4>2. PICK s \in S : ~(s <= u - 1)
        BY <4>1
      <4>3. s = u
        BY <2>1, <3>1, <4>2
      <4>4. QED
        BY <4>3
    <3>4. QED
      BY <3>2, <3>3
  <2>5. \E s \in S : \A y \in S : s >= y
    BY <2>1, <2>4
  <2> DEFINE last == Max(S)
  <2>6. last \in S /\ \A y \in S : last >= y
    BY <2>5 DEF Max
  <2>7. NextOrder(list) = last + 1
    BY <1>3 DEF NextOrder, S
  <2> HIDE DEF last
  <2>8. last \in Nat
    BY <2>1, <2>6
  <2>9. \A g \in DOMAIN list : list[g] \in Nat /\ last >= list[g]
    BY <2>1, <2>6
  <2>10. QED
    BY <2>7, <2>8, <2>9
<1>4. QED
  BY <1>2, <1>3

-----------------------------------------------------------------------------
(* Types are kept                                                          *)

LEMMA CardTablesKept ==
  ASSUME NEW f \in CardTables, NEW i
  PROVE  /\ Without(f, i) \in CardTables
         /\ \A n \in Nat, g \in 1..MaxGroup \cup {None} :
              i \in Services \cup Links => Put(f, i, [order |-> n, group |-> g]) \in CardTables
<1>1. DOMAIN f \subseteq Services \cup Links /\ f \in [DOMAIN f -> Card]
  BY TablesOf
<1>2. Without(f, i) \in CardTables
  <2>1. /\ DOMAIN Without(f, i) \subseteq Services \cup Links
        /\ Without(f, i) \in [DOMAIN Without(f, i) -> Card]
    BY <1>1 DEF Without
  <2>2. QED
    BY <2>1, TablesOf
<1>3. ASSUME NEW n \in Nat, NEW g \in 1..MaxGroup \cup {None}, i \in Services \cup Links
      PROVE  Put(f, i, [order |-> n, group |-> g]) \in CardTables
  <2> DEFINE new == Put(f, i, [order |-> n, group |-> g])
  <2>1. [order |-> n, group |-> g] \in Card
    BY DEF Card
  <2>2. DOMAIN new \subseteq Services \cup Links /\ new \in [DOMAIN new -> Card]
    BY <1>1, <1>3, <2>1 DEF Put
  <2>3. QED
    BY <2>2, TablesOf
<1>4. QED
  BY <1>2, <1>3

LEMMA GroupTablesKept ==
  ASSUME NEW f \in GroupTables, NEW g
  PROVE  /\ Without(f, g) \in GroupTables /\ DOMAIN Without(f, g) \subseteq DOMAIN f
         /\ \A n \in Nat : g \in 1..MaxGroup =>
              Put(f, g, n) \in GroupTables /\ DOMAIN Put(f, g, n) = DOMAIN f \cup {g}
<1>1. DOMAIN f \subseteq 1..MaxGroup /\ f \in [DOMAIN f -> Nat]
  BY TablesOf
<1>2. Without(f, g) \in GroupTables /\ DOMAIN Without(f, g) \subseteq DOMAIN f
  <2>1. /\ DOMAIN Without(f, g) \subseteq DOMAIN f
        /\ Without(f, g) \in [DOMAIN Without(f, g) -> Nat]
    BY <1>1 DEF Without
  <2>2. QED
    BY <1>1, <2>1, TablesOf
<1>3. ASSUME NEW n \in Nat, g \in 1..MaxGroup
      PROVE  Put(f, g, n) \in GroupTables /\ DOMAIN Put(f, g, n) = DOMAIN f \cup {g}
  <2>1. DOMAIN Put(f, g, n) = DOMAIN f \cup {g} /\ Put(f, g, n) \in [DOMAIN Put(f, g, n) -> Nat]
    BY <1>1 DEF Put
  <2>2. QED
    BY <1>1, <1>3, <2>1, TablesOf
<1>4. QED
  BY <1>2, <1>3

(* A PATCH of orders that are numbers.                                     *)
LEMMA OrdersKept ==
  ASSUME NEW orders, \A i \in DOMAIN orders : orders[i] \in Nat, NEW f \in CardTables
  PROVE  [i \in DOMAIN f |-> IF i \in DOMAIN orders THEN [f[i] EXCEPT !.order = orders[i]]
                                                    ELSE f[i]] \in CardTables
<1> DEFINE new == [i \in DOMAIN f |-> IF i \in DOMAIN orders
                                      THEN [f[i] EXCEPT !.order = orders[i]] ELSE f[i]]
<1>1. DOMAIN f \subseteq Services \cup Links /\ f \in [DOMAIN f -> Card]
  BY TablesOf
<1>2. ASSUME NEW i \in DOMAIN f PROVE new[i] \in Card
  <2>1. f[i] \in Card
    BY <1>1
  <2>2. i \in DOMAIN orders => [f[i] EXCEPT !.order = orders[i]] \in Card
    BY <2>1 DEF Card
  <2>3. QED
    BY <2>1, <2>2
<1>3. DOMAIN new = DOMAIN f /\ new \in [DOMAIN new -> Card]
  BY <1>2
<1>4. QED
  BY <1>1, <1>3, TablesOf

(* The head of a queue and what is left.                                   *)
LEMMA QueueHead ==
  ASSUME NEW queue, Pair(queue)
  PROVE  /\ Head(queue) = queue[1] /\ 1 \in DOMAIN queue
         /\ \/ Len(queue) = 1 /\ queue = <<queue[1]>>
            \/ /\ Len(queue) = 2 /\ queue = <<queue[1], queue[2]>>
               /\ 2 \in DOMAIN queue /\ Tail(queue) = <<queue[2]>>
<1>1. CASE queue = <<queue[1]>>
  <2> DEFINE p == queue[1]
  <2>1. queue = <<p>>
    BY <1>1
  <2> HIDE DEF p
  <2>2. Len(queue) = 1 /\ Head(queue) = p /\ DOMAIN queue = {1}
    BY <2>1
  <2>3. QED
    BY <2>1, <2>2 DEF p
<1>2. CASE queue = <<queue[1], queue[2]>>
  <2> DEFINE p == queue[1]
             q == queue[2]
  <2>1. queue = <<p, q>>
    BY <1>2
  <2> HIDE DEF p, q
  <2>2. Len(queue) = 2 /\ Head(queue) = p /\ DOMAIN queue = {1, 2} /\ Tail(queue) = <<q>>
    BY <2>1
  <2>3. QED
    BY <2>1, <2>2 DEF p, q
<1>3. QED
  BY <1>1, <1>2 DEF Pair

(* What is fetched anew.                                                   *)
LEMMA FetchTypes ==
  ASSUME TypeOK, NEW t \in Tabs, ListServices(t) \/ ListLinks(t) \/ ListGroups(t)
  PROVE  TypeOK'
<1>1. UNCHANGED <<tables, drags, tasks>>
  BY DEF ListServices, ListLinks, ListGroups, RefetchCards
<1>2. faults' \in Nat
  BY DEF TypeOK, ListServices, ListLinks, ListGroups, RefetchCards, Fault
<1>3. pages[t] \in Pages /\ pages[t].cards \in CardTables /\ pages[t].groups \in GroupTables
  BY DEF TypeOK, Pages
<1>4. ASSUME NEW new \in CardTables PROVE [pages EXCEPT ![t].cards = new] \in [Tabs -> Pages]
  BY <1>3 DEF TypeOK, Pages
<1>5. ASSUME NEW new \in GroupTables PROVE [pages EXCEPT ![t].groups = new] \in [Tabs -> Pages]
  BY <1>3 DEF TypeOK, Pages
<1>6. ASSUME NEW list, RefetchCards(t, list) PROVE pages' \in [Tabs -> Pages]
  <2> DEFINE other == {i \in DOMAIN pages[t].cards : ListOf(i) # list}
             sent  == {i \in DOMAIN cards : ListOf(i) = list}
             With(ids) == [i \in other \cup ids |-> IF i \in ids THEN cards[i] ELSE pages[t].cards[i]]
  <2>1. PICK ids \in {sent, {}} : pages' = [pages EXCEPT ![t].cards = With(ids)]
    BY <1>6 DEF RefetchCards
  <2>2. /\ DOMAIN cards \subseteq Services \cup Links /\ cards \in [DOMAIN cards -> Card]
        /\ DOMAIN pages[t].cards \subseteq Services \cup Links
        /\ pages[t].cards \in [DOMAIN pages[t].cards -> Card]
    BY <1>3, TablesOf DEF TypeOK
  <2>3. DOMAIN With(ids) \subseteq Services \cup Links /\ With(ids) \in [DOMAIN With(ids) -> Card]
    BY <2>2
  <2> HIDE DEF With
  <2>4. With(ids) \in CardTables
    BY <2>3, TablesOf
  <2>5. QED
    BY <1>4, <2>1, <2>4
<1>7. ASSUME ListGroups(t) PROVE pages' \in [Tabs -> Pages]
  <2>1. PICK new \in {groups, << >>} : pages' = [pages EXCEPT ![t].groups = new]
    BY <1>7 DEF ListGroups
  <2>2. new \in GroupTables
    BY <2>1, EmptyTable DEF TypeOK
  <2>3. QED
    BY <1>5, <2>1, <2>2
<1>8. pages' \in [Tabs -> Pages]
  BY <1>6, <1>7 DEF ListServices, ListLinks
<1>9. QED
  BY <1>1, <1>2, <1>8 DEF TypeOK, tables

LEMMA CardTypes ==
  ASSUME TypeOK, NEW t \in Tabs, NEW i \in Services \cup Links,
         Deleted(t, i) \/ \E g \in 1..MaxGroup \cup {None} : Added(t, i, g)
  PROVE  TypeOK'
<1>1. UNCHANGED <<groups, serial, pages, drags, tasks, faults>>
  BY DEF Deleted, Added
<1>2. cards \in CardTables
  BY DEF TypeOK
<1>3. cards' \in CardTables
  <2>1. CASE cards' = Without(cards, i)
    BY <1>2, <2>1, CardTablesKept
  <2>2. ASSUME NEW g \in 1..MaxGroup \cup {None}, cards' = Put(cards, i, [order |-> 0, group |-> g])
        PROVE  cards' \in CardTables
    BY <1>2, <2>2, CardTablesKept
  <2>3. QED
    BY <1>2, <2>1, <2>2 DEF Deleted, Added
<1>4. QED
  BY <1>1, <1>3 DEF TypeOK

LEMMA GroupTypes ==
  ASSUME TypeOK, NEW t \in Tabs,
         CreateGroup(t) \/ \E g \in 1..MaxGroup : DeleteGroup(t, g)
  PROVE  TypeOK'
<1>1. UNCHANGED <<pages, drags, tasks, faults>>
  BY DEF CreateGroup, DeleteGroup
<1>2. CASE CreateGroup(t)
  <2>1. /\ serial < MaxGroup /\ serial' = serial + 1 /\ UNCHANGED cards
        /\ groups' = Put(groups, serial + 1, NextOrder(pages[t].groups))
    BY <1>2 DEF CreateGroup
  <2>2. serial + 1 \in 1..MaxGroup /\ serial' \in 0..MaxGroup
    BY <2>1, DashboardAssumption DEF TypeOK
  <2>3. pages[t].groups \in GroupTables
    BY DEF TypeOK, Pages
  <2>4. NextOrder(pages[t].groups) \in Nat
    BY <2>3, NextOrderLast
  <2>5. groups' \in GroupTables /\ DOMAIN groups' = DOMAIN groups \cup {serial + 1}
    BY <2>1, <2>2, <2>4, GroupTablesKept DEF TypeOK
  <2>6. DOMAIN groups' \subseteq 1..serial'
    BY <2>1, <2>5 DEF TypeOK
  <2>7. QED
    BY <1>1, <2>1, <2>2, <2>5, <2>6 DEF TypeOK
<1>3. ASSUME NEW g \in 1..MaxGroup, DeleteGroup(t, g) PROVE TypeOK'
  <2>1. /\ groups' = Without(groups, g) /\ UNCHANGED serial
        /\ cards' = [i \in DOMAIN cards |->
                       IF cards[i].group = g THEN [cards[i] EXCEPT !.group = None] ELSE cards[i]]
    BY <1>3 DEF DeleteGroup
  <2>2. groups' \in GroupTables /\ DOMAIN groups' \subseteq DOMAIN groups
    BY <2>1, GroupTablesKept DEF TypeOK
  <2>3. DOMAIN cards \subseteq Services \cup Links /\ cards \in [DOMAIN cards -> Card]
    BY TablesOf DEF TypeOK
  <2>4. ASSUME NEW i \in DOMAIN cards PROVE cards'[i] \in Card
    <3>1. cards[i] \in Card
      BY <2>3
    <3>2. [cards[i] EXCEPT !.group = None] \in Card
      BY <3>1 DEF Card
    <3>3. QED
      BY <2>1, <3>1, <3>2
  <2>5. DOMAIN cards' = DOMAIN cards /\ cards' \in [DOMAIN cards' -> Card]
    BY <2>1, <2>4
  <2>6. cards' \in CardTables
    BY <2>3, <2>5, TablesOf
  <2>7. QED
    BY <1>1, <2>1, <2>2, <2>6 DEF TypeOK
<1>4. QED
  BY <1>2, <1>3

(* What tasks send.                                                        *)
LEMMA SendTypes ==
  ASSUME TypeOK, TasksSound, NEW k \in Slots, SendOrder(k)
  PROVE  TypeOK'
<1> DEFINE q == Head(tasks[k].queue)
<1>1. SendSound(tasks[k])
  BY DEF SendOrder, TasksSound, TaskSound, FetchSound, PutSound, Idle
<1>2. \A i \in DOMAIN q.orders : q.orders[i] \in Nat
  BY <1>1, QueueHead DEF SendSound, CardPatch
<1>3. /\ UNCHANGED <<groups, serial, pages, drags>> /\ DOMAIN tasks' = Slots
      /\ faults' \in Nat
  BY DEF SendOrder, Go, Fault, TypeOK
<1>4. \/ UNCHANGED cards
      \/ cards' = [i \in DOMAIN cards |->
                     IF i \in DOMAIN q.orders THEN [cards[i] EXCEPT !.order = q.orders[i]]
                                              ELSE cards[i]]
  BY DEF SendOrder
<1> HIDE DEF q
<1>5. cards' \in CardTables
  BY <1>2, <1>4, OrdersKept DEF TypeOK
<1>6. QED
  BY <1>3, <1>5 DEF TypeOK

(* A task that reads or writes has what it needs for it.                   *)
LEMMA PutOf ==
  ASSUME TasksSound, NEW k \in Slots, tasks[k].pc \in {"read", "write"}
  PROVE  /\ PutSound(tasks[k]) /\ Pair(tasks[k].queue)
         /\ Head(tasks[k].queue) = tasks[k].queue[1]
         /\ \/ CardPut(Head(tasks[k].queue)) \/ NamePut(Head(tasks[k].queue))
            \/ MovePut(Head(tasks[k].queue))
<1>1. PutSound(tasks[k])
  BY DEF TasksSound, TaskSound, FetchSound, SendSound, Idle
<1>2. Pair(tasks[k].queue)
  BY <1>1 DEF PutSound, Pair
<1>3. QED
  BY <1>1, <1>2, QueueHead DEF PutSound

(* What they write.                                                        *)
LEMMA PutTypes ==
  ASSUME TypeOK, TasksSound, NEW k \in Slots,
         ReadCard(k) \/ WriteCard(k) \/ ReadGroup(k) \/ WriteGroup(k)
  PROVE  TypeOK'
<1> DEFINE q == Head(tasks[k].queue)
<1>1. /\ UNCHANGED <<serial, pages, drags>> /\ DOMAIN tasks' = Slots
      /\ faults' \in Nat
  BY DEF ReadCard, WriteCard, ReadGroup, WriteGroup, Selected, Answered, Go, Fault, TypeOK, tables
<1>2. CASE ReadCard(k) \/ ReadGroup(k)
  <2>1. UNCHANGED <<cards, groups>>
    BY <1>2 DEF ReadCard, ReadGroup, tables
  <2>2. QED
    BY <1>1, <2>1 DEF TypeOK
<1>3. CASE WriteCard(k)
  <2>1. /\ UNCHANGED groups /\ q.list # "groups" /\ tasks[k].pc = "write"
        /\ \/ UNCHANGED cards
           \/ cards' = Put(cards, q.id, [order |-> tasks[k].row, group |-> q.group])
    BY <1>3 DEF WriteCard
  <2>2. tasks[k].row \in Nat /\ CardPut(q)
    BY <2>1, PutOf DEF PutSound, NamePut, MovePut
  <2> HIDE DEF q
  <2>3. cards' \in CardTables
    BY <2>1, <2>2, CardTablesKept DEF TypeOK, CardPut
  <2>4. QED
    BY <1>1, <2>1, <2>3 DEF TypeOK
<1>4. CASE WriteGroup(k)
  <2> DEFINE n == IF q.order = None THEN tasks[k].row ELSE q.order
  <2>1. /\ UNCHANGED cards /\ q.list = "groups" /\ tasks[k].pc = "write"
        /\ \/ UNCHANGED groups
           \/ q.id \in DOMAIN groups /\ groups' = Put(groups, q.id, n)
    BY <1>4 DEF WriteGroup
  <2>2. n \in Nat
    BY <2>1, PutOf DEF PutSound, CardPut, NamePut, MovePut
  <2>3. DOMAIN groups \subseteq 1..MaxGroup
    BY TablesOf DEF TypeOK
  <2> HIDE DEF q, n
  <2>4. groups' \in GroupTables /\ DOMAIN groups' = DOMAIN groups
    <3>1. CASE UNCHANGED groups
      BY <3>1 DEF TypeOK
    <3>2. CASE q.id \in DOMAIN groups /\ groups' = Put(groups, q.id, n)
      <4>1. q.id \in 1..MaxGroup /\ DOMAIN groups \cup {q.id} = DOMAIN groups /\ groups \in GroupTables
        BY <2>3, <3>2 DEF TypeOK
      <4>2. QED
        BY <2>2, <3>2, <4>1, GroupTablesKept
    <3>3. QED
      BY <2>1, <3>1, <3>2
  <2>5. QED
    BY <1>1, <2>1, <2>4 DEF TypeOK
<1>5. QED
  BY <1>2, <1>3, <1>4

LEMMA TypesStep ==
  ASSUME TypeOK, TasksSound, [Next]_vars
  PROVE  TypeOK'
<1>1. ASSUME UNCHANGED <<cards, groups, serial, pages>>,
             DOMAIN drags' = Tabs, DOMAIN tasks' = Slots, faults' \in Nat
      PROVE  TypeOK'
  BY <1>1 DEF TypeOK
<1>2. CASE UNCHANGED vars
  BY <1>1, <1>2 DEF vars, tables, view, TypeOK
<1>3. ASSUME NEW t \in Tabs, NEW i \in Services \cup Links, OnCard(t, i) PROVE TypeOK'
  <2>1. CASE DragStart(t, i)
    BY <1>1, <2>1 DEF DragStart, tables, view, TypeOK
  <2>2. ASSUME NEW k \in Slots, Dropped(t, i, k) PROVE TypeOK'
    BY <1>1, <2>2 DEF Dropped, Go, tables, view, TypeOK
  <2>3. ASSUME NEW k \in Slots, ResetSource(t, i, k) \/ ResetGroup(t, i, k) PROVE TypeOK'
    BY <1>1, <2>3 DEF ResetSource, ResetGroup, Go, tables, view, TypeOK
  <2>4. ASSUME NEW k \in Slots, NEW g, Edited(t, i, g, k) PROVE TypeOK'
    BY <1>1, <2>4 DEF Edited, Go, tables, view, TypeOK
  <2>5. QED
    BY <1>3, <2>1, <2>2, <2>3, <2>4, CardTypes
       DEF OnCard, DropInPage, DropInSource, DropInGroup, DropLink, DropGroupLink,
           DeleteService, DeleteLink, AddService, AddLink, EditService, EditLink
<1>4. ASSUME NEW t \in Tabs, User(t) PROVE TypeOK'
  <2>1. CASE DragEnd(t)
    BY <1>1, <2>1 DEF DragEnd, tables, view, TypeOK
  <2>2. ASSUME NEW k \in Slots, NEW g, ResetPage(t, k) \/ RenameGroup(t, g, k) \/ MoveGroup(t, g, k)
        PROVE  TypeOK'
    BY <1>1, <2>2 DEF ResetPage, RenameGroup, MoveGroup, Go, tables, view, TypeOK
  <2>3. QED
    BY <1>3, <1>4, <2>1, <2>2, GroupTypes DEF User
<1>5. ASSUME NEW k \in Slots, FetchForDrop(k) PROVE TypeOK'
  BY <1>1, <1>5 DEF FetchForDrop, Go, Fault, tables, view, TypeOK
<1>6. CASE UNCHANGED <<tables, view, drags, tasks, faults>>
  BY <1>1, <1>6 DEF tables, view, TypeOK
<1>7. QED
  BY <1>2, <1>4, <1>5, <1>6, FetchTypes, SendTypes, PutTypes DEF Next, Task

-----------------------------------------------------------------------------
(* Tasks are kept sound                                                    *)

LEMMA GoSound ==
  ASSUME TypeOK, TasksSound, NEW k \in Slots, NEW x, Go(k, x), TaskSound(x)
  PROVE  TasksSound'
<1>1. \A l \in Slots : tasks'[l] = IF l = k THEN x ELSE tasks[l]
  BY DEF Go, TypeOK
<1>2. QED
  BY <1>1 DEF TasksSound

(* A row with a member moved is a row.                                     *)
LEMMA MovedRow ==
  ASSUME NEW n \in Nat, NEW S, NEW row \in [1..n -> S], NEW src \in 1..n, NEW dst \in 1..n
  PROVE  DOMAIN Moved(row, src, dst) \subseteq Nat \ {0}
<1>1. row \in Seq(S) /\ Len(row) = n /\ row[src] \in S
  OBVIOUS
<1>2. \A m \in 1..n : row[m] \in S
  BY <1>1, ElementOfSeq
<1>3. RemoveAt(row, src) \in Seq(S) /\ Len(RemoveAt(row, src)) = n - 1
  <2> DEFINE first  == 1
             before == src - 1
             after  == src + 1
             a == SubSeq(row, first, before)
             b == SubSeq(row, after, n)
  <2>1. /\ first \in Int /\ before \in Int /\ after \in Int /\ n \in Int
        /\ \A m \in first..before : row[m] \in S
        /\ \A m \in after..n : row[m] \in S
    BY <1>2
  <2> HIDE DEF first, before, after
  <2>2. /\ a \in Seq(S) /\ Len(a) = IF first <= before THEN before - first + 1 ELSE 0
        /\ b \in Seq(S) /\ Len(b) = IF after <= n THEN n - after + 1 ELSE 0
    <3>1. a \in Seq(S) /\ Len(a) = IF first <= before THEN before - first + 1 ELSE 0
      BY <2>1, SubSeqProperties, Zenon
    <3>2. b \in Seq(S) /\ Len(b) = IF after <= n THEN n - after + 1 ELSE 0
      BY <2>1, SubSeqProperties, Zenon
    <3>3. QED
      BY <3>1, <3>2
  <2>3. RemoveAt(row, src) = a \o b
    BY <1>1 DEF RemoveAt, first, before, after
  <2>4. Len(a) = src - 1 /\ Len(b) = n - src
    <3> HIDE DEF a, b
    <3>1. QED
      BY <2>2 DEF first, before, after
  <2> HIDE DEF a, b
  <2> DEFINE c == a \o b
  <2>5. c \in Seq(S) /\ Len(c) = Len(a) + Len(b)
    BY <2>2, ConcatProperties
  <2> HIDE DEF c
  <2>6. Len(c) = n - 1
    BY <2>4, <2>5
  <2>7. QED
    BY <2>3, <2>5, <2>6 DEF c
<1>4. Moved(row, src, dst) \in Seq(S)
  <2> DEFINE rest == RemoveAt(row, src)
             a == SubSeq(rest, 1, dst - 1)
             b == SubSeq(rest, dst, n - 1)
  <2>1. \A m \in 1..(n - 1) : rest[m] \in S
    BY <1>3, ElementOfSeq
  <2>2. Moved(row, src, dst) = (a \o <<row[src]>>) \o b
    BY <1>3 DEF Moved, InsertAt
  <2> HIDE DEF rest
  <2>3. a \in Seq(S)
    <3>1. 1 \in Int /\ dst - 1 \in Int /\ \A m \in 1..(dst - 1) : rest[m] \in S
      BY <2>1
    <3>2. QED
      BY <3>1, SubSeqProperties, Zenon
  <2>4. b \in Seq(S)
    <3>1. dst \in Int /\ n - 1 \in Int /\ \A m \in dst..(n - 1) : rest[m] \in S
      BY <2>1
    <3>2. QED
      BY <3>1, SubSeqProperties, Zenon
  <2> HIDE DEF a, b
  <2>5. <<row[src]>> \in Seq(S)
    BY <1>1
  <2>6. a \o <<row[src]>> \in Seq(S)
    BY <2>3, <2>5, ConcatProperties
  <2>7. QED
    BY <2>2, <2>4, <2>6, ConcatProperties
<1>5. QED
  BY <1>4, LenProperties

LEMMA ReorderSound ==
  ASSUME NEW list, NEW row, DOMAIN row \subseteq Nat \ {0}, NEW want, want = None \/ want = row
  PROVE  CardPatch(Reorder(list, row, want))
<1>1. \A i \in ToSet(row) : PlaceOf(row, i) \in Nat \ {0}
  BY DEF ToSet, PlaceOf
<1>2. \A i \in DOMAIN Payload(row) : Payload(row)[i] \in Nat
  BY <1>1 DEF Payload
<1>3. QED
  BY <1>2 DEF Reorder, Patch, CardPatch

LEMMA ResetSound ==
  ASSUME NEW list, NEW ids
  PROVE  CardPatch(ResetOf(list, ids))
<1>1. DOMAIN Alphabetic(ids) \subseteq Nat \ {0}
  BY DEF Alphabetic, Ranked
<1>2. QED
  BY <1>1, ReorderSound DEF ResetOf

LEMMA Pairs ==
  ASSUME NEW p, NEW q, NEW queue, queue = <<p>> \/ queue = <<p, q>>
  PROVE  /\ Pair(queue) /\ queue[1] = p
         /\ \A n \in DOMAIN queue : queue[n] = p \/ queue[n] = q
         /\ queue = <<p>> => queue = <<queue[1]>>
<1>1. CASE queue = <<p>>
  <2>1. DOMAIN queue = {1} /\ queue[1] = p
    BY <1>1
  <2>2. QED
    BY <1>1, <2>1 DEF Pair
<1>2. CASE queue = <<p, q>>
  <2>1. DOMAIN queue = {1, 2} /\ queue[1] = p /\ queue[2] = q
    BY <1>2
  <2>2. Len(queue) = 2
    BY <1>2
  <2>3. queue # <<p>>
    BY <2>2
  <2>4. QED
    BY <1>2, <2>1, <2>3 DEF Pair
<1>3. QED
  BY <1>1, <1>2

LEMMA SendingSound ==
  ASSUME NEW t, NEW p, NEW q, CardPatch(p), CardPatch(q)
  PROVE  TaskSound(Sending(t, <<p>>)) /\ TaskSound(Sending(t, <<p, q>>))
<1>1. \A queue : Sending(t, queue).pc = "send" /\ Sending(t, queue).queue = queue
  BY DEF Sending
<1>2. ASSUME NEW queue \in {<<p>>, <<p, q>>}
      PROVE  Pair(queue) /\ \A n \in DOMAIN queue : CardPatch(queue[n])
  <2>1. Pair(queue) /\ \A n \in DOMAIN queue : queue[n] = p \/ queue[n] = q
    BY <1>2, Pairs
  <2>2. QED
    BY <2>1
<1>3. QED
  BY <1>1, <1>2 DEF SendSound, TaskSound

LEMMA UpdatingSound ==
  ASSUME NEW t, NEW p
  PROVE  /\ CardPut(p) \/ NamePut(p) \/ MovePut(p) => TaskSound(Updating(t, <<p>>))
         /\ \A q : MovePut(p) /\ MovePut(q) => TaskSound(Updating(t, <<p, q>>))
<1>1. \A queue : Updating(t, queue).pc = "read" /\ Updating(t, queue).queue = queue
  BY DEF Updating
<1>2. ASSUME CardPut(p) \/ NamePut(p) PROVE PutSound(Updating(t, <<p>>))
  <2> DEFINE queue == <<p>>
  <2>1. queue = <<queue[1]>> /\ queue[1] = p
    OBVIOUS
  <2> HIDE DEF queue
  <2>2. QED
    BY <1>1, <1>2, <2>1 DEF PutSound, queue
<1>3. ASSUME NEW q, MovePut(p), MovePut(q), NEW queue \in {<<p>>, <<p, q>>}
      PROVE  PutSound(Updating(t, queue))
  <2>1. Pair(queue) /\ \A n \in DOMAIN queue : queue[n] = p \/ queue[n] = q
    BY <1>3, Pairs
  <2>2. \A n \in DOMAIN queue : MovePut(queue[n])
    BY <1>3, <2>1
  <2>3. QED
    BY <1>1, <2>1, <2>2 DEF PutSound
<1>4. ASSUME MovePut(p) PROVE PutSound(Updating(t, <<p>>))
  BY <1>3, <1>4
<1>5. QED
  BY <1>2, <1>3, <1>4 DEF TaskSound

(* A drop remembers what it needs.                                         *)
LEMMA DroppedSound ==
  ASSUME TypeOK, TasksSound, DragsSound, NEW t \in Tabs, NEW i, NEW k \in Slots, Dropped(t, i, k)
  PROVE  TasksSound'
<1> DEFINE p   == pages[t]
           d   == drags[t]
           s   == SectionOf(p, i)
           ids == Members(p, s)
           seq == Row(p, s)
           dst == PlaceOf(seq, i)
           x   == [pc |-> "fetch", tab |-> t, list |-> s.list, ids |-> ids,
                   flat |-> Flat(p, s), az |-> FALSE, src |-> d.src, dst |-> dst,
                   seen |-> [j \in ids |-> p.cards[j]],
                   want |-> IF Row(d.page, d.section) = seq THEN Moved(seq, d.src, dst) ELSE None,
                   had  |-> Max({Len(Row(d.page, s)), Len(seq)})]
<1>1. CASE UNCHANGED tasks
  BY <1>1 DEF TasksSound
<1>2. CASE SameSection(d.section, s) /\ Go(k, x)
  <2>1. d # None /\ i \in DOMAIN p.cards
    BY DEF Dropped
  <2>2. d.page \in Pages /\ d.src \in 1..Len(Row(d.page, d.section)) /\ d.section = s
    BY <1>2, <2>1 DEF DragsSound, SameSection
  <2>3. p \in Pages /\ i \in ids
    BY <2>1 DEF TypeOK, Members
  <2>4. Len(Row(d.page, s)) \in Nat /\ Len(seq) \in Nat /\ dst \in 1..Len(seq)
    BY <2>2, <2>3, RowHolds
  <2> HIDE DEF seq, dst
  <2>5. x.had \in Nat /\ Len(Row(d.page, s)) <= x.had /\ Len(seq) <= x.had
    BY <2>4, MaxOfTwo
  <2>6. x.src \in 1..x.had /\ x.dst \in 1..x.had
    <3>1. x.src = d.src /\ x.dst = dst /\ d.src \in 1..Len(Row(d.page, s))
      BY <2>2
    <3> HIDE DEF x
    <3>2. QED
      BY <2>4, <2>5, <3>1
  <2>7. x.want # None => x.want = Moved(Sorted(x.seen, x.ids), x.src, x.dst)
    <3>1. Orders(x.seen, x.ids) = Orders(p.cards, ids)
      BY DEF Orders
    <3>2. Sorted(x.seen, x.ids) = seq
      BY <3>1 DEF Sorted, Row, seq
    <3>3. x.src = d.src /\ x.dst = dst /\ (x.want # None => x.want = Moved(seq, d.src, dst))
      OBVIOUS
    <3> HIDE DEF x
    <3>4. QED
      BY <3>2, <3>3
  <2>8. x.pc = "fetch" /\ x.az = FALSE /\ DOMAIN x.seen = x.ids
    OBVIOUS
  <2> HIDE DEF x
  <2>9. TaskSound(x)
    BY <2>5, <2>6, <2>7, <2>8 DEF FetchSound, TaskSound
  <2>10. QED
    BY <1>2, <2>9, GoSound
<1>3. QED
  BY <1>1, <1>2 DEF Dropped

(* What is sent after a fetch is what the page was to show, if the page    *)
(* was not stale.                                                          *)
LEMMA FetchForDropSound ==
  ASSUME TypeOK, TasksSound, NEW k \in Slots, FetchForDrop(k)
  PROVE  TasksSound'
<1> DEFINE x    == tasks[k]
           ids  == FreshIds(x)
           seq  == Fresh(x, ids)
           want == IF Unchanged(x) THEN x.want ELSE None
<1>1. FetchSound(x)
  BY DEF FetchForDrop, TasksSound, TaskSound, SendSound, PutSound, Idle
<1>2. CASE Go(k, Idle)
  BY <1>2, GoSound DEF TaskSound
<1>3. CASE x.az /\ Go(k, Sending(x.tab, <<Reorder(x.list, Alphabetic(ids), Alphabetic(ids))>>))
  <2> DEFINE y == ResetOf(x.list, ids)
  <2>1. CardPatch(y)
    BY ResetSound
  <2>2. Go(k, Sending(x.tab, <<y>>))
    BY <1>3 DEF ResetOf
  <2> HIDE DEF y
  <2>3. TaskSound(Sending(x.tab, <<y>>))
    BY <2>1, SendingSound
  <2>4. QED
    BY <2>2, <2>3, GoSound
<1>4. CASE /\ ~x.az /\ InBounds(x, Len(seq))
           /\ Go(k, Sending(x.tab, <<Reorder(x.list, Moved(seq, x.src, x.dst), want)>>))
  <2> DEFINE n == Cardinality(ids)
             moved == Moved(seq, x.src, x.dst)
             y == Reorder(x.list, moved, want)
  <2>1. ids \in SUBSET DOMAIN cards /\ cards \in CardTables
    BY DEF FreshIds, TypeOK
  <2>2. /\ n \in Nat /\ Len(seq) = n
        /\ seq \in [1..n -> ids]
    <3>1. seq = Sorted(cards, ids) \/ seq = Sent(cards, ids)
      BY DEF Fresh
    <3> HIDE DEF seq, ids
    <3>2. /\ n \in Nat /\ Len(Sorted(cards, ids)) = n /\ Len(Sent(cards, ids)) = n
          /\ \A m \in 1..n : Sorted(cards, ids)[m] \in ids /\ Sent(cards, ids)[m] \in ids
      BY <2>1, TableRows
    <3>3. Sorted(cards, ids) \in [1..n -> ids] /\ Sent(cards, ids) \in [1..n -> ids]
      <4> DEFINE then == [i \in ids |-> i]
      <4>1. /\ Sorted(cards, ids) = Ranked(ids, Orders(cards, ids), Title)
            /\ Sent(cards, ids) = Ranked(ids, Orders(cards, ids), then)
        BY DEF Sorted, Sent
      <4>2. /\ Sorted(cards, ids) = [m \in 1..n |-> Sorted(cards, ids)[m]]
            /\ Sent(cards, ids) = [m \in 1..n |-> Sent(cards, ids)[m]]
        <5> HIDE DEF then
        <5>1. QED
          BY <4>1 DEF Ranked
      <4>3. QED
        BY <3>2, <4>2
    <3>4. QED
      BY <3>1, <3>2, <3>3
  <2>3. x.src \in 1..n /\ x.dst \in 1..n
    <3>1. /\ x.had \in Nat /\ x.src \in 1..x.had /\ x.dst \in 1..x.had
          /\ x.src <= n /\ x.dst <= n
      BY <1>1, <1>4, <2>2 DEF FetchSound, InBounds
    <3> HIDE DEF x, n
    <3>2. QED
      BY <2>2, <3>1
  <2>4. DOMAIN moved \subseteq Nat \ {0}
    <3> HIDE DEF x, n, ids, seq
    <3>1. QED
      BY <2>2, <2>3, MovedRow
  <2>5. want = None \/ want = moved
    <3> SUFFICES ASSUME want # None PROVE want = moved
      OBVIOUS
    <3>1. Unchanged(x) /\ want = x.want /\ x.want = Moved(Sorted(x.seen, x.ids), x.src, x.dst)
      BY <1>1, <1>4 DEF FetchSound
    <3>2. x.seen = [i \in ids |-> cards[i]] /\ DOMAIN x.seen = x.ids
      BY <1>1, <1>4, <3>1 DEF Unchanged, FetchSound
    <3>3. x.ids = ids /\ Orders(x.seen, x.ids) = Orders(cards, ids)
      BY <3>2 DEF Orders
    <3>4. Sorted(x.seen, x.ids) = Sorted(cards, ids)
      BY <3>3 DEF Sorted
    <3>5. seq = Sorted(cards, ids)
      BY <3>1 DEF Unchanged, Fresh
    <3>6. QED
      BY <3>1, <3>4, <3>5
  <2> HIDE DEF moved, want, x
  <2>6. CardPatch(y)
    BY <2>4, <2>5, ReorderSound
  <2> HIDE DEF y
  <2>7. TaskSound(Sending(x.tab, <<y>>))
    BY <2>6, SendingSound
  <2>8. QED
    BY <1>4, <2>7, GoSound DEF moved, y
<1>5. QED
  BY <1>2, <1>3, <1>4 DEF FetchForDrop

(* The requests of a reset of a group: of its services, its links or both. *)
LEMMA ResetGroupSends ==
  ASSUME NEW t \in Tabs, NEW i \in Services \cup Links, NEW k \in Slots, ResetGroup(t, i, k)
  PROVE  \E a, b : /\ CardPatch(a) /\ CardPatch(b)
                  /\ \E queue \in {<<a>>, <<b>>, <<a, b>>} : Go(k, Sending(t, queue))
<1> DEFINE p == pages[t]
           Of(list) == Members(p, [SectionOf(p, i) EXCEPT !.list = list])
           a == ResetOf("services", Of("services"))
           b == ResetOf("links", Of("links"))
           first  == IF Of("services") = {} THEN << >> ELSE <<a>>
           second == IF Of("links") = {} THEN << >> ELSE <<b>>
<1>1. Go(k, Sending(t, first \o second)) /\ i \in DOMAIN p.cards
  BY DEF ResetGroup
<1>2. Of("services") # {} \/ Of("links") # {}
  <2>1. ListOf(i) \in {"services", "links"}
    BY DEF ListOf
  <2>2. [SectionOf(p, i) EXCEPT !.list = ListOf(i)] = SectionOf(p, i)
    BY DEF SectionOf
  <2>3. i \in Of(ListOf(i))
    BY <1>1, <2>2 DEF Members
  <2>4. QED
    BY <2>1, <2>3
<1>3. CardPatch(a) /\ CardPatch(b)
  BY ResetSound
<1> HIDE DEF a, b, Of
<1>4. first \o second \in {<<a>>, <<b>>, <<a, b>>}
  <2>1. /\ <<a>> \in Seq({a, b}) /\ <<b>> \in Seq({a, b})
        /\ << >> \o <<b>> = <<b>> /\ <<a>> \o << >> = <<a>>
    <3>1. <<a>> \in Seq({a, b}) /\ <<b>> \in Seq({a, b})
      OBVIOUS
    <3>2. QED
      BY <3>1, ConcatEmptySeq
  <2>2. <<a>> \o <<b>> = <<a, b>>
    <3> DEFINE A == <<a>>
               B == <<b>>
               c == A \o B
    <3>1. A \in Seq({a, b}) /\ B \in Seq({a, b}) /\ Len(A) = 1 /\ Len(B) = 1
      OBVIOUS
    <3> HIDE DEF A, B
    <3>2. /\ c \in Seq({a, b}) /\ Len(c) = Len(A) + Len(B)
          /\ \A m \in 1..(Len(A) + Len(B)) : c[m] = IF m <= Len(A) THEN A[m] ELSE B[m - Len(A)]
      BY <3>1, ConcatProperties, Zenon
    <3> HIDE DEF c
    <3>3. Len(c) = 2 /\ c[1] = a /\ c[2] = b
      BY <3>1, <3>2 DEF A, B
    <3> DEFINE d == <<a, b>>
    <3>4. d \in Seq({a, b}) /\ Len(d) = 2 /\ d[1] = a /\ d[2] = b
      OBVIOUS
    <3> HIDE DEF d
    <3>5. Len(c) = Len(d) /\ \A m \in 1..Len(c) : c[m] = d[m]
      BY <3>3, <3>4
    <3>6. c = d
      BY <3>2, <3>4, <3>5, SeqEqual, Zenon
    <3>7. QED
      BY <3>6 DEF c, d, A, B
  <2>3. QED
    BY <1>2, <2>1, <2>2, Zenon
<1>5. QED
  BY <1>1, <1>3, <1>4

LEMMA ResetsSound ==
  ASSUME TypeOK, TasksSound, NEW t \in Tabs, NEW k \in Slots,
         \/ ResetPage(t, k)
         \/ \E i \in Services \cup Links : ResetSource(t, i, k) \/ ResetGroup(t, i, k)
  PROVE  TasksSound'
<1>1. CASE ResetPage(t, k)
  <2> DEFINE x == [pc |-> "fetch", tab |-> t, list |-> "services", ids |-> {}, flat |-> TRUE,
                   az |-> TRUE]
  <2>1. TaskSound(x)
    BY DEF TaskSound, FetchSound
  <2>2. Go(k, x)
    BY <1>1 DEF ResetPage
  <2> HIDE DEF x
  <2>3. QED
    BY <2>1, <2>2, GoSound
<1>2. ASSUME NEW i, ResetSource(t, i, k) PROVE TasksSound'
  <2> DEFINE y == ResetOf("services", Members(pages[t], SectionOf(pages[t], i)))
  <2>1. Go(k, Sending(t, <<y>>))
    BY <1>2 DEF ResetSource
  <2>2. CardPatch(y)
    BY ResetSound
  <2> HIDE DEF y
  <2>3. QED
    BY <2>1, <2>2, SendingSound, GoSound
<1>3. ASSUME NEW i \in Services \cup Links, ResetGroup(t, i, k) PROVE TasksSound'
  <2>1. PICK a, b : /\ CardPatch(a) /\ CardPatch(b)
                    /\ \E queue \in {<<a>>, <<b>>, <<a, b>>} : Go(k, Sending(t, queue))
    BY <1>3, ResetGroupSends
  <2>2. \A queue \in {<<a>>, <<b>>, <<a, b>>} : TaskSound(Sending(t, queue))
    BY <2>1, SendingSound
  <2>3. QED
    BY <2>1, <2>2, GoSound
<1>4. QED
  BY <1>1, <1>2, <1>3

(* The two requests of a move: of two groups, each the other's order.      *)
LEMMA MoveGroupSends ==
  ASSUME TypeOK, NEW t \in Tabs, NEW g, NEW k \in Slots, MoveGroup(t, g, k)
  PROVE  LET list == pages[t].groups IN
         \E h \in DOMAIN list :
           /\ g \in DOMAIN list /\ g # h /\ list[g] \in Nat /\ list[h] \in Nat
           /\ Go(k, Updating(t, <<GroupFields(g, list[h]), GroupFields(h, list[g])>>))
<1> DEFINE list == pages[t].groups
           then == [a \in DOMAIN list |-> a]
           seq  == Ranked(DOMAIN list, list, then)
           c    == Cardinality(DOMAIN list)
<1>1. list \in GroupTables
  BY DEF TypeOK, Pages
<1>2. DOMAIN list \subseteq 1..MaxGroup /\ \A a \in DOMAIN list : list[a] \in Nat
  BY <1>1, TablesOf
<1>3. IsFiniteSet(DOMAIN list)
  <2>1. IsFiniteSet(1..MaxGroup)
    <3>1. 1 \in Int /\ MaxGroup \in Int
      BY DashboardAssumption
    <3>2. QED
      BY <3>1, FS_Interval, Zenon
  <2>2. QED
    BY <1>2, <2>1, FS_Subset
<1>4. Keys(DOMAIN list, list, then)
  BY <1>2, DashboardAssumption DEF Keys
<1>5. g \in DOMAIN list
  BY DEF MoveGroup
<1>6. PICK n \in {PlaceOf(seq, g) - 1, PlaceOf(seq, g) + 1} \cap DOMAIN seq :
        Go(k, Updating(t, <<GroupFields(g, list[seq[n]]), GroupFields(seq[n], list[g])>>))
  BY DEF MoveGroup
<1> HIDE DEF list, then
<1>7. /\ c \in Nat /\ DOMAIN seq = 1..c
      /\ PlaceOf(seq, g) \in 1..c /\ seq[PlaceOf(seq, g)] = g
      /\ seq[n] \in DOMAIN list
      /\ \A m \in 1..c : seq[m] = seq[n] => m = n
  <2>1. seq = Ranked(DOMAIN list, list, then) /\ c = Cardinality(DOMAIN list)
    OBVIOUS
  <2> HIDE DEF seq, c
  <2>2. /\ c \in Nat /\ DOMAIN seq = 1..c
        /\ \A i \in DOMAIN list : PlaceOf(seq, i) \in 1..c /\ seq[PlaceOf(seq, i)] = i
        /\ \A m \in 1..c : seq[m] \in DOMAIN list
        /\ \A l, m \in 1..c : seq[l] = seq[m] => l = m
    BY <1>3, <1>4, <2>1, RankedRow
  <2>3. QED
    BY <1>5, <1>6, <2>2
<1> HIDE DEF seq, c
<1>8. seq[n] # g
  BY <1>6, <1>7
<1>9. QED
  BY <1>2, <1>5, <1>6, <1>7, <1>8 DEF list

LEMMA PutsStart ==
  ASSUME TypeOK, TasksSound, NEW t \in Tabs, NEW k \in Slots,
         \/ \E g : RenameGroup(t, g, k) \/ MoveGroup(t, g, k)
         \/ \E i \in Services \cup Links, g \in 1..MaxGroup \cup {None} : Edited(t, i, g, k)
  PROVE  TasksSound'
<1>1. ASSUME NEW g, RenameGroup(t, g, k) PROVE TasksSound'
  <2> DEFINE p == GroupFields(g, None)
  <2>1. Go(k, Updating(t, <<p>>))
    BY <1>1 DEF RenameGroup
  <2>2. NamePut(p)
    BY DEF NamePut, GroupFields
  <2> HIDE DEF p
  <2>3. QED
    BY <2>1, <2>2, UpdatingSound, GoSound
<1>2. ASSUME NEW g, MoveGroup(t, g, k) PROVE TasksSound'
  <2> DEFINE list == pages[t].groups
             P(h) == GroupFields(g, list[h])
             Q(h) == GroupFields(h, list[g])
  <2>1. PICK h \in DOMAIN list :
          list[g] \in Nat /\ list[h] \in Nat /\ Go(k, Updating(t, <<P(h), Q(h)>>))
    BY <1>2, MoveGroupSends
  <2>2. MovePut(P(h)) /\ MovePut(Q(h))
    BY <2>1 DEF MovePut, GroupFields
  <2> HIDE DEF P, Q
  <2>3. QED
    BY <2>1, <2>2, UpdatingSound, GoSound
<1>3. ASSUME NEW i \in Services \cup Links, NEW g \in 1..MaxGroup \cup {None}, Edited(t, i, g, k)
      PROVE  TasksSound'
  <2> DEFINE p == CardFields(i, g)
  <2>1. Go(k, Updating(t, <<p>>))
    BY <1>3 DEF Edited
  <2>2. CardPut(p)
    BY DEF CardPut, CardFields, ListOf
  <2> HIDE DEF p
  <2>3. QED
    BY <2>1, <2>2, UpdatingSound, GoSound
<1>4. QED
  BY <1>1, <1>2, <1>3

(* What is left to send.                                                   *)
LEMMA SentSound ==
  ASSUME TypeOK, TasksSound, NEW k \in Slots, SendOrder(k)
  PROVE  CardPatch(Head(tasks[k].queue)) /\ TasksSound'
<1> DEFINE x == tasks[k]
           t == x.tab
           q == x.queue[2]
<1>1. SendSound(x)
  BY DEF SendOrder, TasksSound, TaskSound, FetchSound, PutSound, Idle
<1>2. /\ Head(x.queue) = x.queue[1] /\ 1 \in DOMAIN x.queue
      /\ \/ Len(x.queue) = 1
         \/ Len(x.queue) = 2 /\ 2 \in DOMAIN x.queue /\ Tail(x.queue) = <<q>>
  BY <1>1, QueueHead DEF SendSound
<1>3. CardPatch(Head(x.queue))
  BY <1>1, <1>2 DEF SendSound
<1>4. Go(k, IF Len(x.queue) = 1 THEN Idle ELSE Sending(t, Tail(x.queue)))
  BY DEF SendOrder
<1>5. CASE Len(x.queue) = 1
  <2>1. Go(k, Idle)
    BY <1>4, <1>5
  <2>2. QED
    BY <1>3, <2>1, GoSound DEF TaskSound
<1>6. CASE Len(x.queue) # 1
  <2>1. CardPatch(q) /\ Go(k, Sending(t, <<q>>))
    BY <1>1, <1>2, <1>4, <1>6 DEF SendSound
  <2> HIDE DEF q
  <2>2. TaskSound(Sending(t, <<q>>))
    BY <2>1, SendingSound
  <2>3. QED
    BY <1>3, <2>1, <2>2, GoSound
<1>7. QED
  BY <1>5, <1>6

(* What is left to PUT: nothing, or the second half of a move.             *)
LEMMA AnsweredLeaves ==
  ASSUME TypeOK, TasksSound, NEW k \in Slots, tasks[k].pc \in {"read", "write"}, Answered(k)
  PROVE  LET x == tasks[k] IN
         \/ Len(x.queue) = 1 /\ Go(k, Idle)
         \/ /\ Len(x.queue) = 2 /\ MovePut(x.queue[1]) /\ MovePut(x.queue[2])
            /\ Go(k, Updating(x.tab, <<x.queue[2]>>))
<1> DEFINE queue == tasks[k].queue
<1>1. PutSound(tasks[k]) /\ Pair(queue)
  BY PutOf
<1>2. /\ 1 \in DOMAIN queue
      /\ \/ Len(queue) = 1
         \/ Len(queue) = 2 /\ 2 \in DOMAIN queue /\ Tail(queue) = <<queue[2]>>
  BY <1>1, QueueHead
<1>3. Len(queue) = 2 => \A n \in DOMAIN queue : MovePut(queue[n])
  <2>1. queue = <<queue[1]>> => Len(queue) = 1
    <3> DEFINE p == queue[1]
               y == queue
    <3> HIDE DEF p, y
    <3>1. y = <<p>> => Len(y) = 1
      OBVIOUS
    <3>2. QED
      BY <3>1 DEF p, y
  <2>2. QED
    BY <1>1, <2>1 DEF PutSound
<1>4. \/ Len(queue) = 1 /\ Go(k, Idle)
      \/ Len(queue) = 2 /\ Go(k, Updating(tasks[k].tab, Tail(queue)))
  BY DEF Answered
<1>5. CASE Len(queue) = 1
  BY <1>4, <1>5
<1>6. CASE Len(queue) # 1
  <2>1. /\ Len(queue) = 2
        /\ MovePut(queue[1])
        /\ MovePut(queue[2])
        /\ Tail(queue) = <<queue[2]>>
        /\ Go(k, Updating(tasks[k].tab, Tail(queue)))
    BY <1>2, <1>3, <1>4, <1>6
  <2>2. Go(k, Updating(tasks[k].tab, <<queue[2]>>))
    BY <2>1
  <2>3. QED
    BY <2>1, <2>2
<1>7. QED
  BY <1>5, <1>6

LEMMA AnsweredSound ==
  ASSUME TypeOK, TasksSound, NEW k \in Slots, tasks[k].pc \in {"read", "write"}, Answered(k)
  PROVE  TasksSound'
<1>1. CASE Go(k, Idle)
  BY <1>1, GoSound DEF TaskSound
<1>2. ASSUME NEW t, NEW q, MovePut(q), Go(k, Updating(t, <<q>>)) PROVE TasksSound'
  BY <1>2, UpdatingSound, GoSound
<1>3. QED
  BY <1>1, <1>2, AnsweredLeaves

(* The order that was read is a number.                                    *)
LEMMA SelectedSound ==
  ASSUME TypeOK, TasksSound, NEW k \in Slots, tasks[k].pc = "read",
         NEW order, \A i \in DOMAIN order : order[i] \in Nat, Selected(k, order)
  PROVE  TasksSound'
<1> DEFINE n == order[Head(tasks[k].queue).id]
           x == [pc |-> "write", tab |-> tasks[k].tab, queue |-> tasks[k].queue, row |-> n]
<1>1. CASE n \in Nat /\ Go(k, x)
  <2>1. PutSound(tasks[k])
    BY PutOf
  <2>2. x.pc = "write" /\ x.queue = tasks[k].queue /\ x.row \in Nat
    BY <1>1
  <2> HIDE DEF x
  <2>3. PutSound(x)
    BY <2>1, <2>2 DEF PutSound
  <2>4. QED
    BY <1>1, <2>3, GoSound DEF TaskSound
<1>2. QED
  BY <1>1, AnsweredSound DEF Selected

LEMMA PutsSound ==
  ASSUME TypeOK, TasksSound, NEW k \in Slots,
         ReadCard(k) \/ WriteCard(k) \/ ReadGroup(k) \/ WriteGroup(k)
  PROVE  TasksSound'
<1>1. CASE ReadCard(k)
  <2> DEFINE order == Orders(cards, DOMAIN cards)
  <2>1. cards \in [DOMAIN cards -> Card]
    BY TablesOf DEF TypeOK
  <2>2. \A i \in DOMAIN order : order[i] \in Nat
    BY <2>1 DEF Orders, Card
  <2>3. Selected(k, order) /\ tasks[k].pc = "read"
    BY <1>1 DEF ReadCard
  <2> HIDE DEF order
  <2>4. QED
    BY <2>2, <2>3, SelectedSound
<1>2. CASE ReadGroup(k)
  <2>1. \A g \in DOMAIN groups : groups[g] \in Nat
    BY TablesOf DEF TypeOK
  <2>2. Selected(k, groups) /\ tasks[k].pc = "read"
    BY <1>2 DEF ReadGroup
  <2>3. QED
    BY <2>1, <2>2, SelectedSound
<1>3. CASE WriteCard(k) \/ WriteGroup(k)
  <2>1. tasks[k].pc = "write" /\ Answered(k)
    BY <1>3 DEF WriteCard, WriteGroup
  <2>2. QED
    BY <2>1, AnsweredSound
<1>4. QED
  BY <1>1, <1>2, <1>3

LEMMA TasksStep ==
  ASSUME TypeOK, TasksSound, DragsSound, [Next]_vars
  PROVE  TasksSound'
<1>1. CASE UNCHANGED tasks
  BY <1>1 DEF TasksSound
<1>2. ASSUME NEW t \in Tabs, NEW i \in Services \cup Links, OnCard(t, i) PROVE TasksSound'
  <2>1. ASSUME NEW k \in Slots,
               \/ DropInPage(t, i, k) \/ DropInSource(t, i, k) \/ DropInGroup(t, i, k)
               \/ DropLink(t, i, k) \/ DropGroupLink(t, i, k)
        PROVE  TasksSound'
    BY <2>1, DroppedSound DEF DropInPage, DropInSource, DropInGroup, DropLink, DropGroupLink
  <2>2. CASE \/ DragStart(t, i)
             \/ DeleteService(t, i) \/ DeleteLink(t, i)
             \/ \E g \in 1..MaxGroup \cup {None} : AddService(t, i, g) \/ AddLink(t, i, g)
    BY <1>1, <2>2
       DEF DragStart, DeleteService, DeleteLink, Deleted, AddService, AddLink, Added
  <2>3. QED
    BY <1>2, <2>1, <2>2, ResetsSound, PutsStart DEF OnCard, EditService, EditLink
<1>3. ASSUME NEW t \in Tabs, User(t) PROVE TasksSound'
  <2>1. CASE DragEnd(t) \/ CreateGroup(t) \/ \E g \in 1..MaxGroup : DeleteGroup(t, g)
    BY <1>1, <2>1 DEF DragEnd, CreateGroup, DeleteGroup
  <2>2. QED
    BY <1>2, <1>3, <2>1, ResetsSound, PutsStart DEF User
<1>4. ASSUME NEW t \in Tabs, ListServices(t) \/ ListLinks(t) \/ ListGroups(t) PROVE TasksSound'
  BY <1>1, <1>4 DEF ListServices, ListLinks, ListGroups, RefetchCards
<1>5. ASSUME NEW k \in Slots, Task(k) PROVE TasksSound'
  BY <1>5, FetchForDropSound, SentSound, PutsSound DEF Task
<1>6. QED
  BY <1>1, <1>3, <1>4, <1>5 DEF Next, vars

-----------------------------------------------------------------------------
(* Drags                                                                   *)

LEMMA DragsStep ==
  ASSUME TypeOK, DragsSound, [Next]_vars
  PROVE  DragsSound'
<1>1. CASE UNCHANGED drags
  BY <1>1 DEF DragsSound
<1>2. ASSUME NEW t \in Tabs, drags' = [drags EXCEPT ![t] = None] PROVE DragsSound'
  <2>1. \A u \in Tabs : drags'[u] # None => drags'[u] = drags[u]
    BY <1>2 DEF TypeOK
  <2>2. QED
    BY <2>1 DEF DragsSound
<1>3. ASSUME NEW t \in Tabs, NEW i, DragStart(t, i) PROVE DragsSound'
  <2> DEFINE p == pages[t]
             s == SectionOf(p, i)
             d == [section |-> s, page |-> p, src |-> PlaceOf(Row(p, s), i)]
  <2>1. drags' = [drags EXCEPT ![t] = d] /\ i \in DOMAIN p.cards
    BY <1>3 DEF DragStart
  <2>2. p \in Pages /\ i \in Members(p, s)
    BY <2>1 DEF TypeOK, Members
  <2>3. PlaceOf(Row(p, s), i) \in 1..Len(Row(p, s))
    BY <2>2, RowHolds
  <2>4. d.page \in Pages /\ d.src \in 1..Len(Row(d.page, d.section))
    BY <2>2, <2>3
  <2> HIDE DEF d
  <2>5. \A u \in Tabs : drags'[u] = IF u = t THEN d ELSE drags[u]
    BY <2>1 DEF TypeOK
  <2>6. QED
    BY <2>4, <2>5 DEF DragsSound
<1>4. ASSUME NEW t \in Tabs, NEW i \in Services \cup Links, OnCard(t, i) PROVE DragsSound'
  <2>1. ASSUME NEW k \in Slots, Dropped(t, i, k) PROVE DragsSound'
    BY <1>2, <2>1 DEF Dropped
  <2>2. ASSUME NEW k \in Slots, ResetSource(t, i, k) \/ ResetGroup(t, i, k) PROVE DragsSound'
    BY <1>1, <2>2 DEF ResetSource, ResetGroup
  <2>3. CASE \/ DeleteService(t, i) \/ DeleteLink(t, i)
             \/ \E g \in 1..MaxGroup \cup {None} :
                  \/ AddService(t, i, g) \/ AddLink(t, i, g)
                  \/ \E k \in Slots : EditService(t, i, g, k) \/ EditLink(t, i, g, k)
    BY <1>1, <2>3
       DEF DeleteService, DeleteLink, Deleted, AddService, AddLink, Added,
           EditService, EditLink, Edited
  <2>4. QED
    BY <1>3, <1>4, <2>1, <2>2, <2>3
       DEF OnCard, DropInPage, DropInSource, DropInGroup, DropLink, DropGroupLink
<1>5. ASSUME NEW t \in Tabs, User(t) PROVE DragsSound'
  <2>1. CASE DragEnd(t)
    BY <1>2, <2>1 DEF DragEnd
  <2>2. QED
    BY <1>1, <1>4, <1>5, <2>1 DEF User, CreateGroup, DeleteGroup, RenameGroup, MoveGroup, ResetPage
<1>6. ASSUME NEW t \in Tabs, ListServices(t) \/ ListLinks(t) \/ ListGroups(t) PROVE DragsSound'
  BY <1>1, <1>6 DEF ListServices, ListLinks, ListGroups, RefetchCards
<1>7. ASSUME NEW k \in Slots, Task(k) PROVE DragsSound'
  BY <1>1, <1>7 DEF Task, FetchForDrop, SendOrder, ReadCard, WriteCard, ReadGroup, WriteGroup
<1>8. QED
  BY <1>1, <1>5, <1>6, <1>7 DEF Next, vars

-----------------------------------------------------------------------------
(* Groups                                                                  *)

LEMMA OthersKeepGroups ==
  ASSUME GroupsSound, UNCHANGED groups, raced => raced',
         \A k \in Slots : IsMove(tasks'[k]) <=> IsMove(tasks[k]),
         \A k \in Slots : IsMove(tasks[k]) => tasks'[k].queue = tasks[k].queue
  PROVE  GroupsSound'
BY DEF GroupsSound

(* A task that begins, goes on or ends, and no move.                       *)
LEMMA StillTask ==
  ASSUME TypeOK, GroupsSound, UNCHANGED groups, raced => raced', NEW k \in Slots, NEW x,
         ~IsMove(tasks[k]), ~IsMove(x), Go(k, x)
  PROVE  GroupsSound'
<1>1. \A l \in Slots : tasks'[l] = IF l = k THEN x ELSE tasks[l]
  BY DEF Go, TypeOK
<1>2. QED
  BY <1>1, OthersKeepGroups

LEMMA NoMove ==
  /\ ~IsMove(Idle)
  /\ \A t, queue : ~IsMove(Sending(t, queue))
  /\ \A x : x.pc = "fetch" => ~IsMove(x)
BY DEF IsMove, Idle, Sending

(* A PUT that is no move's.                                                *)
LEMMA PutMoves ==
  ASSUME TasksSound, NEW k \in Slots, tasks[k].pc \in {"read", "write"}
  PROVE  LET q == Head(tasks[k].queue) IN
         /\ q = tasks[k].queue[1]
         /\ IsMove(tasks[k]) <=> q.list = "groups" /\ q.order # None
         /\ IsMove(tasks[k]) <=> MovePut(q)
BY PutOf, DashboardAssumption DEF IsMove, CardPut, NamePut, MovePut

LEMMA CreateGroupSound ==
  ASSUME TypeOK, GroupsSound, NEW t \in Tabs, CreateGroup(t)
  PROVE  GroupsSound'
<1> DEFINE new  == serial + 1
           last == NextOrder(groups)
<1> SUFFICES ASSUME ~raced' PROVE GroupsSound'
  BY DEF GroupsSound
<1>1. /\ ~raced /\ pages[t].groups = groups
      /\ \A k \in Slots : ~IsMove(tasks[k])
  BY DEF CreateGroup, Racing, Moving, IsMove
<1>2. groups' = Put(groups, new, last) /\ UNCHANGED tasks
  BY <1>1 DEF CreateGroup
<1>3. Apart(groups) /\ groups \in GroupTables
  BY <1>1 DEF GroupsSound, TypeOK
<1>4. last \in Nat /\ \A g \in DOMAIN groups : groups[g] < last /\ groups[g] \in Nat
  BY <1>3, NextOrderLast, TablesOf
<1>5. new \notin DOMAIN groups
  BY DashboardAssumption DEF TypeOK
<1> HIDE DEF new, last
<1>6. Apart(groups')
  BY <1>2, <1>3, <1>4, <1>5 DEF Apart, Put
<1>7. QED
  BY <1>1, <1>2, <1>6 DEF GroupsSound

LEMMA DeleteGroupSound ==
  ASSUME GroupsSound, NEW t \in Tabs, NEW g, DeleteGroup(t, g)
  PROVE  GroupsSound'
<1>1. groups' = Without(groups, g) /\ UNCHANGED <<tasks, raced>>
  BY DEF DeleteGroup
<1>2. DOMAIN groups' \subseteq DOMAIN groups /\ \A a \in DOMAIN groups' : groups'[a] = groups[a]
  BY <1>1 DEF Without
<1>3. ASSUME NEW f, NEW h, DOMAIN h \subseteq DOMAIN f, \A a \in DOMAIN h : h[a] = f[a]
      PROVE  /\ Apart(f) => Apart(h)
             /\ \A q : /\ DOMAIN Overlaid(h, q) \subseteq DOMAIN Overlaid(f, q)
                       /\ \A a \in DOMAIN Overlaid(h, q) :
                            Overlaid(h, q)[a] = Overlaid(f, q)[a]
  BY <1>3 DEF Apart, Overlaid
<1>4. ASSUME NEW queue, Apart(After(groups, queue))
      PROVE  Apart(After(groups', queue))
  <2> DEFINE f == Overlaid(groups, queue[1])
             h == Overlaid(groups', queue[1])
             ff == Overlaid(f, queue[2])
             hh == Overlaid(h, queue[2])
  <2>1. DOMAIN h \subseteq DOMAIN f /\ \A a \in DOMAIN h : h[a] = f[a]
    BY <1>2, <1>3
  <2> HIDE DEF f, h
  <2>2. DOMAIN hh \subseteq DOMAIN ff /\ \A a \in DOMAIN hh : hh[a] = ff[a]
    BY <1>3, <2>1
  <2> HIDE DEF ff, hh
  <2>3. (Apart(f) => Apart(h)) /\ (Apart(ff) => Apart(hh))
    BY <1>3, <2>1, <2>2
  <2>4. QED
    BY <1>4, <2>3 DEF After, f, h, ff, hh
<1>5. Apart(groups) => Apart(groups')
  BY <1>2, <1>3
<1>6. QED
  BY <1>1, <1>4, <1>5 DEF GroupsSound

LEMMA MoveGroupApart ==
  ASSUME TypeOK, GroupsSound, NEW t \in Tabs, NEW g, NEW k \in Slots, MoveGroup(t, g, k)
  PROVE  GroupsSound'
<1> SUFFICES ASSUME ~raced' PROVE GroupsSound'
  BY DEF GroupsSound
<1>1. /\ ~raced /\ pages[t].groups = groups /\ UNCHANGED groups
      /\ \A l \in Slots : ~IsMove(tasks[l])
  BY DEF MoveGroup, Racing, Moving, tables
<1>2. PICK h \in DOMAIN groups :
        /\ g \in DOMAIN groups /\ g # h /\ groups[h] \in Nat
        /\ Go(k, Updating(t, <<GroupFields(g, groups[h]), GroupFields(h, groups[g])>>))
  BY <1>1, MoveGroupSends
<1> DEFINE one == GroupFields(g, groups[h])
           two == GroupFields(h, groups[g])
           queue == <<one, two>>
           x == Updating(t, queue)
<1>3. \A l \in Slots : tasks'[l] = IF l = k THEN x ELSE tasks[l]
  BY <1>2 DEF Go, TypeOK
<1>4. x.queue = queue /\ x.pc = "read"
  BY DEF Updating
<1>5. Len(queue) = 2 /\ queue[1] = one /\ queue[2] = two /\ Head(queue) = one
  OBVIOUS
<1>6. Apart(groups)
  BY <1>1 DEF GroupsSound
<1>7. /\ one.list = "groups" /\ one.id = g /\ one.order = groups[h]
      /\ two.id = h /\ two.order = groups[g]
  BY DEF GroupFields
<1> HIDE DEF one, two, queue, x
<1>8. After(groups, queue) = [a \in DOMAIN groups |-> CASE a = g -> groups[h]
                                                        [] a = h -> groups[g]
                                                        [] OTHER -> groups[a]]
  <2>1. After(groups, queue) = Overlaid(Overlaid(groups, one), two)
    BY <1>5 DEF After
  <2>2. QED
    BY <1>2, <1>7, <2>1 DEF Overlaid
<1>9. Apart(After(groups, queue))
  BY <1>2, <1>6, <1>8 DEF Apart
<1>10. \A l \in Slots : IsMove(tasks'[l]) => l = k
  BY <1>1, <1>3
<1>11. IsMove(x)
  BY <1>2, <1>4, <1>5, <1>7, DashboardAssumption DEF IsMove
<1>12. QED
  BY <1>1, <1>3, <1>4, <1>9, <1>10, <1>11 DEF GroupsSound

(* An answer leaves what the groups come to as it was, if the request has  *)
(* done what it was to do.                                                 *)
LEMMA AnsweredGroups ==
  ASSUME TypeOK, TasksSound, GroupsSound, NEW k \in Slots, tasks[k].pc \in {"read", "write"},
         Answered(k), ~raced,
         groups' = IF IsMove(tasks[k]) THEN Overlaid(groups, Head(tasks[k].queue)) ELSE groups
  PROVE  GroupsSound'
<1> DEFINE x == tasks[k]
           q == x.queue[1]
           p == x.queue[2]
<1>1. Head(x.queue) = q /\ (IsMove(x) <=> MovePut(q))
  BY PutMoves
<1>2. CASE ~IsMove(x)
  <2>1. Go(k, Idle)
    BY <1>1, <1>2, AnsweredLeaves
  <2>2. QED
    BY <1>2, <2>1, StillTask, NoMove
<1>3. CASE IsMove(x)
  <2>1. groups' = Overlaid(groups, q)
    BY <1>1, <1>3
  <2>2. Apart(After(groups, x.queue)) /\ \A l \in Slots : IsMove(tasks[l]) => l = k
    BY <1>3 DEF GroupsSound
  <2>3. CASE Len(x.queue) = 1 /\ Go(k, Idle)
    <3>1. \A l \in Slots : tasks'[l] = IF l = k THEN Idle ELSE tasks[l]
      BY <2>3 DEF Go, TypeOK
    <3>2. \A l \in Slots : ~IsMove(tasks'[l])
      BY <2>2, <3>1, NoMove
    <3>3. Apart(groups')
      BY <2>1, <2>2, <2>3 DEF After
    <3>4. QED
      BY <3>2, <3>3 DEF GroupsSound
  <2>4. CASE Len(x.queue) = 2 /\ MovePut(p) /\ Go(k, Updating(x.tab, <<p>>))
    <3> DEFINE y == Updating(x.tab, <<p>>)
    <3>1. \A l \in Slots : tasks'[l] = IF l = k THEN y ELSE tasks[l]
      BY <2>4 DEF Go, TypeOK
    <3>2. y.queue = <<p>> /\ y.pc = "read"
      BY DEF Updating
    <3> HIDE DEF y, p
    <3>3. Len(y.queue) = 1 /\ y.queue[1] = p /\ Head(y.queue) = p
      BY <3>2
    <3>4. After(groups', y.queue) = After(groups, x.queue)
      BY <2>1, <2>4, <3>3 DEF After, p
    <3>5. IsMove(y)
      BY <2>4, <3>2, <3>3, DashboardAssumption DEF IsMove, MovePut
    <3>6. \A l \in Slots : IsMove(tasks'[l]) => l = k
      BY <2>2, <3>1
    <3>7. QED
      BY <2>2, <3>1, <3>4, <3>5, <3>6 DEF GroupsSound
  <2>5. QED
    BY <2>3, <2>4, AnsweredLeaves
<1>4. QED
  BY <1>2, <1>3

(* The SELECT keeps the queue.                                             *)
LEMMA SelectedGroups ==
  ASSUME TypeOK, TasksSound, GroupsSound, NEW k \in Slots, tasks[k].pc = "read",
         UNCHANGED groups, raced => raced', NEW n,
         Go(k, [pc |-> "write", tab |-> tasks[k].tab, queue |-> tasks[k].queue, row |-> n])
  PROVE  GroupsSound'
<1> DEFINE x == [pc |-> "write", tab |-> tasks[k].tab, queue |-> tasks[k].queue, row |-> n]
<1>1. \A l \in Slots : tasks'[l] = IF l = k THEN x ELSE tasks[l]
  BY DEF Go, TypeOK
<1>2. x.queue = tasks[k].queue /\ x.pc = "write"
  OBVIOUS
<1> HIDE DEF x
<1>3. IsMove(x) <=> IsMove(tasks[k])
  BY <1>2 DEF IsMove
<1>4. QED
  BY <1>1, <1>2, <1>3, OthersKeepGroups

LEMMA PutCardGroups ==
  ASSUME TypeOK, TasksSound, GroupsSound, NEW k \in Slots, ReadCard(k) \/ WriteCard(k)
  PROVE  GroupsSound'
<1>1. /\ tasks[k].pc \in {"read", "write"} /\ Head(tasks[k].queue).list # "groups"
      /\ UNCHANGED <<groups, raced>>
  BY DEF ReadCard, WriteCard, tables
<1>2. ~IsMove(tasks[k])
  BY <1>1 DEF IsMove
<1>3. CASE Answered(k)
  <2>1. CASE ~raced
    BY <1>1, <1>2, <1>3, <2>1, AnsweredGroups
  <2>2. CASE raced
    BY <1>1, <2>2 DEF GroupsSound
  <2>3. QED
    BY <2>1, <2>2
<1>4. CASE tasks[k].pc = "read" /\ \E n :
             Go(k, [pc |-> "write", tab |-> tasks[k].tab, queue |-> tasks[k].queue, row |-> n])
  BY <1>1, <1>4, SelectedGroups
<1>5. QED
  BY <1>3, <1>4 DEF ReadCard, WriteCard, Selected

(* A PUT of an order does what the move was to do; one of a name leaves    *)
(* the order that it read, which is still there.                           *)
LEMMA PutGroupSound ==
  ASSUME TypeOK, TasksSound, GroupsSound, NEW k \in Slots, ReadGroup(k) \/ WriteGroup(k)
  PROVE  GroupsSound'
<1> DEFINE x == tasks[k]
           q == Head(x.queue)
<1> SUFFICES ASSUME ~raced' PROVE GroupsSound'
  BY DEF GroupsSound
<1>1. x.pc \in {"read", "write"} /\ q.list = "groups" /\ ~raced
  BY DEF ReadGroup, WriteGroup
<1>2. IsMove(x) <=> q.order # None
  BY <1>1, PutMoves
<1>3. groups \in [DOMAIN groups -> Nat]
  BY TablesOf DEF TypeOK
<1>4. q.id \notin DOMAIN groups => Overlaid(groups, q) = groups
  BY <1>3 DEF Overlaid
<1>5. q.id \in DOMAIN groups => Overlaid(groups, q) = Put(groups, q.id, q.order)
  <2>1. q.id \in DOMAIN groups => DOMAIN groups \cup {q.id} = DOMAIN groups
    OBVIOUS
  <2>2. QED
    BY <2>1 DEF Overlaid, Put
<1>6. CASE ReadGroup(k)
  <2>1. UNCHANGED groups /\ Selected(k, groups) /\ x.pc = "read" /\ (faults' # faults => q.order = None)
    BY <1>6 DEF ReadGroup, tables
  <2>2. CASE Fault /\ Answered(k)
    <3>1. faults' # faults
      BY <2>2 DEF Fault, TypeOK
    <3>2. QED
      BY <1>1, <1>2, <2>1, <2>2, <3>1, AnsweredGroups
  <2>3. CASE q.id \notin DOMAIN groups /\ Answered(k)
    BY <1>1, <1>4, <2>1, <2>3, AnsweredGroups
  <2>4. CASE \E n : Go(k, [pc |-> "write", tab |-> x.tab, queue |-> x.queue, row |-> n])
    BY <1>1, <2>1, <2>4, SelectedGroups
  <2>5. QED
    BY <2>1, <2>2, <2>3, <2>4 DEF Selected
<1>7. CASE WriteGroup(k)
  <2>1. Answered(k) /\ x.pc = "write"
    BY <1>7 DEF WriteGroup
  <2>2. CASE q.order = None
    <3>1. \/ UNCHANGED groups
          \/ q.id \in DOMAIN groups /\ groups' = Put(groups, q.id, x.row) /\ groups[q.id] = x.row
      BY <1>7, <2>2 DEF WriteGroup
    <3>2. groups' = groups
      BY <1>3, <3>1 DEF Put
    <3>3. QED
      BY <1>1, <1>2, <2>1, <2>2, <3>2, AnsweredGroups
  <2>3. CASE q.order # None
    <3>1. groups' = IF q.id \in DOMAIN groups THEN Put(groups, q.id, q.order) ELSE groups
      BY <1>7, <2>3 DEF WriteGroup
    <3>2. groups' = Overlaid(groups, q)
      BY <1>4, <1>5, <3>1
    <3>3. QED
      BY <1>1, <1>2, <2>1, <2>3, <3>2, AnsweredGroups
  <2>4. QED
    BY <2>2, <2>3
<1>8. QED
  BY <1>6, <1>7

(* What begins a task that moves no group.                                 *)
LEMMA CardTasksGroups ==
  ASSUME TypeOK, TasksSound, GroupsSound, NEW t \in Tabs, NEW k \in Slots,
         \/ ResetPage(t, k)
         \/ \E g : RenameGroup(t, g, k)
         \/ \E i \in Services \cup Links :
              \/ Dropped(t, i, k) \/ ResetSource(t, i, k) \/ ResetGroup(t, i, k)
              \/ \E g : Edited(t, i, g, k)
  PROVE  GroupsSound'
<1>1. UNCHANGED <<groups, raced>> /\ tasks[k] = Idle
  BY DEF ResetPage, Dropped, ResetSource, ResetGroup, RenameGroup, Edited, Free, tables
<1>2. ~IsMove(tasks[k])
  BY <1>1, NoMove
<1>3. ASSUME NEW x, ~IsMove(x), Go(k, x) PROVE GroupsSound'
  BY <1>1, <1>2, <1>3, StillTask
<1>4. ASSUME NEW x, x.pc = "fetch", Go(k, x) PROVE GroupsSound'
  BY <1>3, <1>4, NoMove
<1>5. ASSUME NEW u, NEW queue, Go(k, Sending(u, queue)) PROVE GroupsSound'
  BY <1>3, <1>5, NoMove
<1>6. ASSUME NEW q, q.list # "groups" \/ q.order = None, Go(k, Updating(t, <<q>>)) PROVE GroupsSound'
  <2>1. Head(<<q>>) = q
    OBVIOUS
  <2>2. ~IsMove(Updating(t, <<q>>))
    BY <1>6, <2>1 DEF IsMove, Updating
  <2>3. QED
    BY <1>3, <1>6, <2>2
<1>7. CASE ResetPage(t, k)
  <2> DEFINE x == [pc |-> "fetch", tab |-> t, list |-> "services", ids |-> {}, flat |-> TRUE,
                   az |-> TRUE]
  <2>1. x.pc = "fetch" /\ Go(k, x)
    BY <1>7 DEF ResetPage
  <2> HIDE DEF x
  <2>2. QED
    BY <1>4, <2>1
<1>8. ASSUME NEW i, Dropped(t, i, k) PROVE GroupsSound'
  <2>1. CASE UNCHANGED tasks
    BY <1>1, <2>1, OthersKeepGroups
  <2>2. CASE \E x : x.pc = "fetch" /\ Go(k, x)
    BY <1>4, <2>2
  <2>3. QED
    BY <1>8, <2>1, <2>2 DEF Dropped
<1>9. ASSUME NEW i, ResetSource(t, i, k) \/ ResetGroup(t, i, k) PROVE GroupsSound'
  <2>1. \E u, queue : Go(k, Sending(u, queue))
    BY <1>9 DEF ResetSource, ResetGroup
  <2>2. QED
    BY <1>5, <2>1
<1>10. ASSUME NEW i, NEW g, Edited(t, i, g, k) PROVE GroupsSound'
  <2> DEFINE q == CardFields(i, g)
  <2>1. q.list # "groups" /\ Go(k, Updating(t, <<q>>))
    BY <1>10 DEF Edited, CardFields, ListOf
  <2> HIDE DEF q
  <2>2. QED
    BY <1>6, <2>1
<1>11. ASSUME NEW g, RenameGroup(t, g, k) PROVE GroupsSound'
  <2> DEFINE q == GroupFields(g, None)
  <2>1. q.order = None /\ Go(k, Updating(t, <<q>>))
    BY <1>11 DEF RenameGroup, GroupFields
  <2> HIDE DEF q
  <2>2. QED
    BY <1>6, <2>1
<1>12. QED
  BY <1>7, <1>8, <1>9, <1>10, <1>11

LEMMA GroupsStep ==
  ASSUME TypeOK, TasksSound, GroupsSound, [Next]_vars
  PROVE  GroupsSound'
<1>1. CASE UNCHANGED <<groups, raced, tasks>>
  BY <1>1, OthersKeepGroups
<1>2. ASSUME NEW t \in Tabs, NEW i \in Services \cup Links, OnCard(t, i) PROVE GroupsSound'
  <2>1. CASE \/ DragStart(t, i)
             \/ DeleteService(t, i) \/ DeleteLink(t, i)
             \/ \E g \in 1..MaxGroup \cup {None} : AddService(t, i, g) \/ AddLink(t, i, g)
    BY <1>1, <2>1
       DEF DragStart, DeleteService, DeleteLink, Deleted, AddService, AddLink, Added, tables
  <2>2. QED
    BY <1>2, <2>1, CardTasksGroups
       DEF OnCard, DropInPage, DropInSource, DropInGroup, DropLink, DropGroupLink,
           EditService, EditLink
<1>3. ASSUME NEW t \in Tabs, User(t) PROVE GroupsSound'
  <2>1. CASE DragEnd(t)
    BY <1>1, <2>1 DEF DragEnd, tables
  <2>2. QED
    BY <1>2, <1>3, <2>1, CardTasksGroups, CreateGroupSound, DeleteGroupSound, MoveGroupApart
       DEF User
<1>4. ASSUME NEW t \in Tabs, ListServices(t) \/ ListLinks(t) \/ ListGroups(t) PROVE GroupsSound'
  BY <1>1, <1>4 DEF ListServices, ListLinks, ListGroups, RefetchCards, tables
<1>5. ASSUME NEW k \in Slots, Task(k) PROVE GroupsSound'
  <2>1. ASSUME SendOrder(k) \/ FetchForDrop(k) PROVE GroupsSound'
    <3>1. UNCHANGED <<groups, raced>> /\ tasks[k].pc \in {"send", "fetch"}
      BY <2>1 DEF SendOrder, FetchForDrop, tables
    <3>2. Go(k, Idle) \/ \E u, queue : Go(k, Sending(u, queue))
      BY <2>1 DEF SendOrder, FetchForDrop
    <3>3. ~IsMove(tasks[k])
      BY <3>1 DEF IsMove
    <3>4. QED
      BY <3>1, <3>2, <3>3, StillTask, NoMove
  <2>2. QED
    BY <1>5, <2>1, PutCardGroups, PutGroupSound DEF Task
<1>6. QED
  BY <1>1, <1>3, <1>4, <1>5 DEF Next, vars, tables

-----------------------------------------------------------------------------
(* The invariant                                                           *)

LEMMA InitInv ==
  ASSUME Init
  PROVE  IInv
<1>1. PICK s \in Stored : cards = s.cards /\ groups = s.groups
  BY DEF Init
<1>2. cards \in CardTables
  BY <1>1, TablesOf, DashboardAssumption DEF Card
<1>3. PICK n \in 0..MaxGroup : groups \in [1..n -> Nat]
  BY <1>1, DashboardAssumption
<1>4. groups \in GroupTables /\ DOMAIN groups = 1..n /\ serial = n
  <2>1. DOMAIN groups = 1..n /\ 1..n \subseteq 1..MaxGroup /\ n \in Nat
    BY <1>3, DashboardAssumption
  <2>2. Cardinality(1..n) = n
    BY <2>1, FS_Interval
  <2>3. QED
    BY <1>3, <2>1, <2>2, TablesOf DEF Init
<1>5. pages \in [Tabs -> Pages]
  BY <1>2, <1>4 DEF Init, Pages, ModeNames
<1>6. TypeOK
  BY <1>2, <1>4, <1>5 DEF Init, TypeOK
<1>7. TasksSound
  BY DEF Init, TasksSound, TaskSound
<1>8. DragsSound
  BY DEF Init, DragsSound
<1>9. GroupsSound
  <2>1. raced \/ Apart(groups)
    BY DEF Init
  <2>2. \A k \in Slots : ~IsMove(tasks[k])
    BY NoMove DEF Init
  <2>3. QED
    BY <2>1, <2>2 DEF GroupsSound
<1>10. QED
  BY <1>6, <1>7, <1>8, <1>9 DEF IInv

LEMMA StepInv ==
  ASSUME IInv, [Next]_vars
  PROVE  IInv'
BY TypesStep, TasksStep, DragsStep, GroupsStep DEF IInv

(* No two groups have one order when no move is under way, whichever are   *)
(* made, renamed, moved and deleted, if none had at first, no PUT of a     *)
(* move has failed, no page has changed groups by a list that was not      *)
(* theirs, and no PUT of a name has written back an order that was moved   *)
(* after the PUT had read it (modal_groups.rs:83, 136; groups.rs:172).     *)
THEOREM GroupsApart == Spec => []GroupsDistinct
<1>1. IInv => GroupsDistinct
  BY DEF IInv, GroupsSound, GroupsDistinct, Moving
<1>2. Init => IInv
  BY InitInv
<1>3. IInv /\ [Next]_vars => IInv'
  BY StepInv
<1>4. QED
  BY <1>1, <1>2, <1>3, PTL DEF Spec

(* Only a task itself goes on; a free slot is taken by a new one.          *)
LEMMA OwnSteps ==
  ASSUME TypeOK, [Next]_vars, NEW k \in Slots, tasks'[k] # tasks[k]
  PROVE  tasks[k] = Idle \/ Task(k)
<1>1. \A l \in Slots : \A x : Go(l, x) => l = k
  BY DEF Go, TypeOK
<1>2. ~UNCHANGED tasks
  OBVIOUS
<1>3. ASSUME NEW t \in Tabs, NEW i, NEW l \in Slots,
             \/ Dropped(t, i, l) \/ ResetSource(t, i, l) \/ ResetGroup(t, i, l)
             \/ \E g : Edited(t, i, g, l)
      PROVE  tasks[k] = Idle
  BY <1>1, <1>2, <1>3 DEF Dropped, ResetSource, ResetGroup, Edited, Free
<1>4. ASSUME NEW t \in Tabs, NEW i \in Services \cup Links, OnCard(t, i) PROVE tasks[k] = Idle
  <2>1. CASE \/ DragStart(t, i)
             \/ DeleteService(t, i) \/ DeleteLink(t, i)
             \/ \E g \in 1..MaxGroup \cup {None} : AddService(t, i, g) \/ AddLink(t, i, g)
    BY <1>2, <2>1
       DEF DragStart, DeleteService, DeleteLink, Deleted, AddService, AddLink, Added
  <2>2. QED
    BY <1>3, <1>4, <2>1
       DEF OnCard, DropInPage, DropInSource, DropInGroup, DropLink, DropGroupLink,
           EditService, EditLink
<1>5. ASSUME NEW t \in Tabs, User(t) PROVE tasks[k] = Idle
  <2>1. ASSUME NEW l \in Slots,
               ResetPage(t, l) \/ \E g : RenameGroup(t, g, l) \/ MoveGroup(t, g, l)
        PROVE  tasks[k] = Idle
    BY <1>1, <2>1 DEF ResetPage, RenameGroup, MoveGroup, Free
  <2>2. CASE DragEnd(t) \/ CreateGroup(t) \/ \E g : DeleteGroup(t, g)
    BY <1>2, <2>2 DEF DragEnd, CreateGroup, DeleteGroup
  <2>3. QED
    BY <1>4, <1>5, <2>1, <2>2 DEF User
<1>6. ASSUME NEW l \in Slots, Task(l) PROVE Task(k)
  <2>1. \E x : Go(l, x)
    BY <1>6 DEF Task, FetchForDrop, SendOrder, ReadCard, WriteCard, ReadGroup, WriteGroup,
                Selected, Answered
  <2>2. QED
    BY <1>1, <1>6, <2>1
<1>7. QED
  BY <1>2, <1>5, <1>6 DEF Next, vars, ListServices, ListLinks, ListGroups, RefetchCards

(* A drop that is sent while the page showed what the server has leaves    *)
(* its cards as the page showed them with the dragged one in its new       *)
(* place, and a reset from A to Z, however many change what meanwhile      *)
(* (service_grid.rs:313, group_section.rs:253).                            *)
THEOREM DropsLand == Spec => DropLands
<1>1. ASSUME IInv, [Next]_vars, NEW k \in Slots,
             tasks[k].pc = "send", tasks'[k] # tasks[k],
             Head(tasks[k].queue).want # None, faults' = faults
      PROVE  LET q    == Head(tasks[k].queue)
                 left == DOMAIN q.orders \cap DOMAIN cards
             IN  Sorted(cards', left) = Ranked(left, [i \in left |-> PlaceOf(q.want, i)], Title)
  <2> DEFINE q    == Head(tasks[k].queue)
             left == DOMAIN q.orders \cap DOMAIN cards
  <2>1. SendOrder(k)
    <3>1. TypeOK
      BY <1>1 DEF IInv
    <3>2. tasks[k] # Idle
      BY <1>1 DEF Idle
    <3>3. Task(k)
      BY <1>1, <3>1, <3>2, OwnSteps
    <3>4. ~FetchForDrop(k) /\ ~ReadCard(k) /\ ~WriteCard(k) /\ ~ReadGroup(k) /\ ~WriteGroup(k)
      BY <1>1 DEF FetchForDrop, ReadCard, WriteCard, ReadGroup, WriteGroup
    <3>5. QED
      BY <3>3, <3>4 DEF Task
  <2>2. CardPatch(q)
    BY <1>1, <2>1, SentSound DEF IInv
  <2>3. cards' = [i \in DOMAIN cards |->
                    IF i \in DOMAIN q.orders THEN [cards[i] EXCEPT !.order = q.orders[i]]
                                             ELSE cards[i]]
    BY <1>1, <2>1 DEF SendOrder, Fault, IInv, TypeOK
  <2>4. q.orders = Payload(q.want) /\ DOMAIN q.want \subseteq Nat
    BY <1>1, <2>2 DEF CardPatch
  <2>5. cards \in [DOMAIN cards -> Card]
    BY <1>1, TablesOf DEF IInv, TypeOK
  <2> HIDE DEF q
  <2>6. \A i \in left : cards'[i].order = PlaceOf(q.want, i) - 1 /\ PlaceOf(q.want, i) \in Nat
    <3> SUFFICES ASSUME NEW i \in left
                 PROVE  cards'[i].order = PlaceOf(q.want, i) - 1 /\ PlaceOf(q.want, i) \in Nat
      OBVIOUS
    <3>1. cards'[i] = [cards[i] EXCEPT !.order = q.orders[i]] /\ cards[i] \in Card
      BY <2>3, <2>5
    <3>2. cards'[i].order = q.orders[i]
      BY <3>1 DEF Card
    <3>3. q.orders[i] = PlaceOf(q.want, i) - 1 /\ i \in ToSet(q.want)
      BY <2>4 DEF Payload
    <3>4. PlaceOf(q.want, i) \in DOMAIN q.want
      BY <3>3 DEF PlaceOf, ToSet
    <3>5. QED
      BY <2>4, <3>2, <3>3, <3>4
  <2> DEFINE key == Orders(cards', left)
             place == [i \in left |-> PlaceOf(q.want, i)]
  <2>7. \A i, j \in left : Before(key, Title, j, i) <=> Before(place, Title, j, i)
    <3>1. \A i \in left : key[i] = place[i] - 1 /\ place[i] \in Nat
      BY <2>6 DEF Orders
    <3> HIDE DEF key, place
    <3>2. QED
      BY <3>1 DEF Before
  <2>8. IsFiniteSet(left) /\ Keys(left, key, Title) /\ Keys(left, place, Title)
    <3>1. TypeOK' /\ DOMAIN cards' = DOMAIN cards
      BY <1>1, <2>3, StepInv DEF IInv
    <3>2. cards' \in CardTables /\ left \in SUBSET DOMAIN cards'
      BY <3>1 DEF TypeOK
    <3> HIDE DEF key, left
    <3>3. IsFiniteSet(left) /\ Keys(left, Orders(cards', left), Title)
      BY <3>2, TableKeys
    <3>4. Keys(left, place, Title)
      BY <2>6, <3>3 DEF Keys
    <3>5. QED
      BY <3>3, <3>4 DEF key
  <2> HIDE DEF key, place
  <2>9. Ranked(left, key, Title) = Ranked(left, place, Title)
    <3> HIDE DEF left
    <3>1. QED
      BY <2>7, <2>8, RankedSame
  <2>10. QED
    BY <2>9 DEF Sorted, q, key, place
<1>2. IInv /\ [Next]_vars =>
        [\A k \in Slots :
           LET x    == tasks[k]
               q    == Head(x.queue)
               left == DOMAIN q.orders \cap DOMAIN cards
               Wanted == Ranked(left, [i \in left |-> PlaceOf(q.want, i)], Title)
           IN  x.pc = "send" /\ tasks'[k] # x /\ q.want # None /\ faults' = faults =>
                 Sorted(cards', left) = Wanted]_vars
  BY <1>1
<1>3. Init => IInv
  BY InitInv
<1>4. IInv /\ [Next]_vars => IInv'
  BY StepInv
<1>5. QED
  BY <1>2, <1>3, <1>4, PTL DEF Spec, DropLands

(* A drop ends in a panic only when the section it fetches has fewer cards *)
(* than the page had in it as the drag began or as it ended                *)
(* (service_grid.rs:315).                                                  *)
THEOREM PanicsExplained == Spec => PanicOnlyIfShrunk
<1>1. ASSUME IInv, [Next]_vars, NEW k \in Slots,
             tasks[k].pc = "fetch", tasks'[k] = Idle, faults' = faults
      PROVE  Cardinality(FreshIds(tasks[k])) < tasks[k].had
  <2> DEFINE x   == tasks[k]
             ids == FreshIds(x)
             n   == Cardinality(ids)
  <2>1. FetchForDrop(k)
    <3>1. TypeOK
      BY <1>1 DEF IInv
    <3>2. tasks[k] # Idle /\ tasks'[k] # tasks[k]
      BY <1>1 DEF Idle
    <3>3. Task(k)
      BY <1>1, <3>1, <3>2, OwnSteps
    <3>4. ~SendOrder(k) /\ ~ReadCard(k) /\ ~WriteCard(k) /\ ~ReadGroup(k) /\ ~WriteGroup(k)
      BY <1>1 DEF SendOrder, ReadCard, WriteCard, ReadGroup, WriteGroup
    <3>5. QED
      BY <3>3, <3>4 DEF Task
  <2>2. \A y, t, q : Go(k, y) => tasks'[k] = y
    BY <1>1 DEF Go, IInv, TypeOK
  <2>3. \A t, q : Sending(t, q) # Idle
    <3>1. Idle.pc = "idle" /\ \A t, q : Sending(t, q).pc = "send"
      BY DEF Idle, Sending
    <3>2. QED
      BY <3>1
  <2>4. ~x.az /\ ~InBounds(x, Len(Fresh(x, ids)))
    BY <1>1, <2>1, <2>2, <2>3 DEF FetchForDrop, Fault, IInv, TypeOK
  <2>5. FetchSound(x)
    BY <1>1 DEF IInv, TasksSound, TaskSound, SendSound, PutSound, Idle
  <2>6. n \in Nat /\ Len(Fresh(x, ids)) = n
    <3>1. ids \in SUBSET DOMAIN cards /\ cards \in CardTables
      BY <1>1 DEF FreshIds, IInv, TypeOK
    <3> HIDE DEF ids
    <3>2. QED
      BY <3>1, TableRows DEF Fresh
  <2>7. x.had \in Nat /\ x.src \in 1..x.had /\ x.dst \in 1..x.had
    BY <2>4, <2>5 DEF FetchSound
  <2>8. ~(x.src <= n /\ x.dst <= n)
    BY <2>4, <2>6 DEF InBounds
  <2> HIDE DEF x, n
  <2>9. n < x.had
    BY <2>6, <2>7, <2>8
  <2>10. QED
    BY <2>9 DEF x, n
<1>2. IInv /\ [Next]_vars =>
        [\A k \in Slots :
           LET x == tasks[k] IN
           x.pc = "fetch" /\ tasks'[k] = Idle /\ faults' = faults =>
             Cardinality(FreshIds(x)) < x.had]_vars
  BY <1>1
<1>3. Init => IInv
  BY InitInv
<1>4. IInv /\ [Next]_vars => IInv'
  BY StepInv
<1>5. QED
  BY <1>2, <1>3, <1>4, PTL DEF Spec, PanicOnlyIfShrunk
=============================================================================
