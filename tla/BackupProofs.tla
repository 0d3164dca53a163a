---------------------------- MODULE BackupProofs ----------------------------
(***************************************************************************)
(* Proofs about the catalog with exports and imports, for any number of    *)
(* requests, any catalog a server may start from and any requests of the   *)
(* clients.                                                                *)
(*                                                                         *)
(* The tables are sound whatever the requests hold (Stable).  What a       *)
(* request holds is old when it is used, so what is kept of it (Knows)     *)
(* says that it is still so, unless the row is one that others have        *)
(* written since.                                                          *)
(***************************************************************************)
EXTENDS Backup, TLAPS

(* Ids are numbers, and the next one is new.                               *)
Numbered ==
  /\ DOMAIN serial = Tables
  /\ \A t \in Tables :
       serial[t] \in Nat /\ \A i \in DOMAIN db[t] : i \in Nat /\ i <= serial[t]

Stable == Shaped(db) /\ Numbered /\ Integrity /\ CredentialHeld

(* The bundle last exported, as far as imports rely on it.                 *)
SavedShaped == saved # None => Shaped(saved.bundle)

-----------------------------------------------------------------------------
(* What a request holds                                                    *)

RowsShaped(table, t) == \A i \in DOMAIN table : DOMAIN table[i] = Columns[t]

WriteForm(x) ==
  /\ x.pc = "write" /\ DOMAIN x = {"pc", "ask", "row", "since"}
  /\ x.ask.table \in Tables /\ DOMAIN x.row = Columns[x.ask.table]

InsertForm(x) ==
  /\ x.pc = "insert" /\ DOMAIN x = {"pc", "ask", "row", "since"}
  /\ DOMAIN x.ask.row = Columns.services

ExportForm(x) ==
  /\ x.pc = "export" /\ DOMAIN x = {"pc", "bundle", "since"}
  /\ DOMAIN x.bundle = Tables
  /\ RowsShaped(x.bundle.groups, "groups")
  /\ x.bundle.services = None \/ RowsShaped(x.bundle.services, "services")
  /\ x.bundle.links = None \/ RowsShaped(x.bundle.links, "links")

(* The row that is about to be inserted has not been dealt with, and the   *)
(* groups are dealt with before they are read.                             *)
ImportForm(x) ==
  /\ x.pc \in {"import", "add"}
  /\ DOMAIN x = {"pc", "bundle", "todo", "item", "ids", "since"}
  /\ Shaped(x.bundle)
  /\ DOMAIN x.todo = Tables /\ \A t \in Tables : x.todo[t] \subseteq DOMAIN x.bundle[t]
  /\ x.ids # None => x.todo.groups = {}
  /\ x.pc = "add" => x.item \in x.todo[IF x.ids = None THEN "groups" ELSE "services"]

Form(x) == x = Idle \/ WriteForm(x) \/ InsertForm(x) \/ ExportForm(x) \/ ImportForm(x)

(* The row that an update has read is the row that there is.               *)
Current(r) ==
  LET x == reqs[r] IN
  x.pc = "write" /\ x.ask.id \in DOMAIN db[x.ask.table]
    /\ <<x.ask.table, x.ask.id>> \notin x.since
  => db[x.ask.table][x.ask.id] = x.row

(* The groups that an export has read are the groups that there are, and   *)
(* what it has read after them names no other.                             *)
Snapshot(r) ==
  LET x == reqs[r] IN
  x.pc = "export" /\ ~(\E w \in x.since : w[1] = "groups") =>
    /\ \A g \in DOMAIN db.groups :
         g \in DOMAIN x.bundle.groups /\ x.bundle.groups[g].name = db.groups[g].name
    /\ \A t \in {"services", "links"} :
         x.bundle[t] # None =>
           \A i \in DOMAIN x.bundle[t] :
             x.bundle[t][i].group \in NamesOf(x.bundle.groups) \cup {None}

(* The groups that an import has read bear the names it read.              *)
Resolves(r) ==
  LET x == reqs[r] IN
  x.pc \in {"import", "add"} /\ x.ids # None =>
    /\ \A n \in DOMAIN x.ids :
         /\ x.ids[n] \in Nat
         /\ x.ids[n] \in DOMAIN db.groups =>
              db.groups[x.ids[n]].name = n \/ <<"groups", x.ids[n]>> \in x.since
    /\ \/ x.ids = << >>
       \/ \A g \in DOMAIN db.groups :
            db.groups[g].name \in DOMAIN x.ids \/ <<"groups", g>> \in x.since

Knows(r) == Form(reqs[r]) /\ Current(r) /\ Snapshot(r) /\ Resolves(r)

Sound == Stable /\ SavedShaped /\ BundleClosed /\ \A r \in Reqs : Knows(r)

-----------------------------------------------------------------------------
(* One step of a request, and what the others know after it                *)

(* Every row that is not among these is as it was, or gone.                *)
Tracked(rows) ==
  \A t \in Tables : \A i \in DOMAIN db'[t] :
    <<t, i>> \in rows \/ (i \in DOMAIN db[t] /\ db'[t][i] = db[t][i])

LEMMA NotedFields ==
  ASSUME NEW x, NEW rows, Form(x), x # Idle
  PROVE  LET y == Noted(x, rows) IN
         /\ DOMAIN y = DOMAIN x
         /\ \A f \in DOMAIN x \ {"since"} : y[f] = x[f]
         /\ y.since = x.since \cup rows
         /\ y.pc = x.pc /\ "since" \in DOMAIN x
<1>1. "since" \in DOMAIN x /\ "pc" \in DOMAIN x
  BY DEF Form, WriteForm, InsertForm, ExportForm, ImportForm
<1>2. QED
  BY <1>1 DEF Noted

LEMMA NotedForm ==
  ASSUME NEW x, NEW rows, Form(x)
  PROVE  Form(Noted(x, rows))
<1> DEFINE y == Noted(x, rows)
<1>1. CASE x = Idle
  BY <1>1 DEF Form, Noted
<1>2. CASE x # Idle
  <2>1. /\ DOMAIN y = DOMAIN x /\ y.pc = x.pc
        /\ \A f \in DOMAIN x \ {"since"} : y[f] = x[f]
    BY <1>2, NotedFields
  <2> SUFFICES Form(y)
    OBVIOUS
  <2> HIDE DEF y
  <2>2. CASE WriteForm(x)
    BY <2>1, <2>2 DEF WriteForm, Form
  <2>3. CASE InsertForm(x)
    BY <2>1, <2>3 DEF InsertForm, Form
  <2>4. CASE ExportForm(x)
    BY <2>1, <2>4 DEF ExportForm, Form
  <2>5. CASE ImportForm(x)
    BY <2>1, <2>5 DEF ImportForm, Form
  <2>6. QED
    BY <1>2, <2>2, <2>3, <2>4, <2>5 DEF Form
<1>3. QED
  BY <1>1, <1>2

(* Another request has written rows.                                       *)
LEMMA OtherKnows ==
  ASSUME NEW s \in Reqs, NEW rows, Knows(s), Tracked(rows),
         reqs'[s] = Noted(reqs[s], rows)
  PROVE  Knows(s)'
<1> DEFINE x == reqs[s]
           y == reqs'[s]
<1>1. Form(y)
  BY NotedForm DEF Knows
<1>2. CASE x = Idle
  <2>1. y = Idle
    BY <1>2 DEF Noted
  <2>2. QED
    BY <1>1, <2>1 DEF Knows, Current, Snapshot, Resolves, Idle
<1>3. CASE x # Idle
  <2>1. /\ DOMAIN y = DOMAIN x /\ y.pc = x.pc
        /\ \A f \in DOMAIN x \ {"since"} : y[f] = x[f]
        /\ y.since = x.since \cup rows
    BY <1>3, NotedFields DEF Knows
  <2>2. Form(x)
    BY DEF Knows
  <2>3. Current(s)'
    <3>1. CASE x.pc = "write"
      <4>1. WriteForm(x)
        BY <2>2, <3>1 DEF Form, Idle, InsertForm, ExportForm, ImportForm
      <4>2. y.ask = x.ask /\ y.row = x.row /\ x.ask.table \in Tables
        BY <2>1, <4>1 DEF WriteForm
      <4>3. QED
        BY <2>1, <3>1, <4>2 DEF Knows, Current, Tracked
    <3>2. CASE x.pc # "write"
      BY <2>1, <3>2 DEF Current
    <3>3. QED
      BY <3>1, <3>2
  <2>4. Snapshot(s)'
    <3>1. CASE x.pc = "export"
      <4>1. y.bundle = x.bundle
        BY <2>1, <2>2, <3>1 DEF Form, Idle, WriteForm, InsertForm, ExportForm, ImportForm
      <4> SUFFICES ASSUME ~(\E w \in y.since : w[1] = "groups")
                   PROVE  Snapshot(s)'
        BY DEF Snapshot
      <4>2. ~(\E w \in x.since : w[1] = "groups") /\ \A i : <<"groups", i>> \notin rows
        BY <2>1
      <4>3. \A g \in DOMAIN db'.groups : g \in DOMAIN db.groups /\ db'.groups[g] = db.groups[g]
        BY <4>2 DEF Tracked, Tables
      <4>4. QED
        BY <3>1, <4>1, <4>2, <4>3 DEF Knows, Snapshot
    <3>2. CASE x.pc # "export"
      BY <2>1, <3>2 DEF Snapshot
    <3>3. QED
      BY <3>1, <3>2
  <2>5. Resolves(s)'
    <3>1. CASE x.pc \in {"import", "add"}
      <4>1. y.ids = x.ids
        BY <2>1, <2>2, <3>1 DEF Form, Idle, WriteForm, InsertForm, ExportForm, ImportForm
      <4>2. \A g \in DOMAIN db'.groups :
              <<"groups", g>> \in rows \/ (g \in DOMAIN db.groups /\ db'.groups[g] = db.groups[g])
        BY DEF Tracked, Tables
      <4>3. QED
        BY <2>1, <3>1, <4>1, <4>2 DEF Knows, Resolves
    <3>2. CASE x.pc \notin {"import", "add"}
      BY <2>1, <3>2 DEF Resolves
    <3>3. QED
      BY <3>1, <3>2
  <2>6. QED
    BY <1>1, <2>3, <2>4, <2>5 DEF Knows
<1>4. QED
  BY <1>2, <1>3

(* A step of one request, if what that one knows is right.                 *)
LEMMA MoveKnows ==
  ASSUME \A s \in Reqs : Knows(s),
         NEW r \in Reqs, NEW x, NEW rows, Go(r, x, rows), Tracked(rows), Knows(r)'
  PROVE  \A s \in Reqs : Knows(s)'
<1> SUFFICES ASSUME NEW s \in Reqs, s # r PROVE Knows(s)'
  OBVIOUS
<1>1. reqs'[s] = Noted(reqs[s], rows)
  BY DEF Go
<1>2. QED
  BY <1>1, OtherKnows

LEMMA IdleKnows ==
  ASSUME NEW r \in Reqs, NEW rows, Go(r, Idle, rows)
  PROVE  Knows(r)'
<1>1. reqs'[r] = Idle
  BY DEF Go
<1>2. QED
  BY <1>1 DEF Knows, Form, Current, Snapshot, Resolves, Idle

(* Nothing is written.                                                     *)
LEMMA ReadKnows ==
  ASSUME Sound, NEW r \in Reqs, NEW x, Go(r, x, {}), UNCHANGED <<db, serial, saved>>, Knows(r)'
  PROVE  Sound'
<1>1. Tracked({})
  BY DEF Tracked
<1>2. \A s \in Reqs : Knows(s)'
  BY <1>1, MoveKnows DEF Sound
<1>3. QED
  BY <1>2 DEF Sound, Stable, Shaped, Numbered, Integrity, CredentialHeld, SavedShaped, BundleClosed

-----------------------------------------------------------------------------
(* The tables                                                              *)

LEMMA TablesApart ==
  /\ Tables = {"groups", "services", "links", "channels"}
  /\ "groups" # "services" /\ "groups" # "links" /\ "groups" # "channels"
  /\ "services" # "links" /\ "services" # "channels" /\ "links" # "channels"
  BY DEF Tables

(* One table becomes another, which is sound for itself and loses no group *)
(* that is referred to.                                                    *)
LEMMA OneTable ==
  ASSUME Stable, NEW t \in Tables, NEW table,
         db' = [db EXCEPT ![t] = table], RowsShaped(table, t),
         DOMAIN serial' = Tables, \A u \in Tables \ {t} : serial'[u] = serial[u],
         serial'[t] \in Nat, \A i \in DOMAIN table : i \in Nat /\ i <= serial'[t],
         t \in {"groups", "services"} => UniqueIn(db', t),
         t \in {"services", "links"} => Referenced(db', t),
         t = "groups" => DOMAIN db.groups \subseteq DOMAIN table,
         t = "channels" => \A i \in DOMAIN table : HasToken(table[i])
  PROVE  Stable' /\ \A u \in Tables \ {t} : db'[u] = db[u]
<1>1. DOMAIN db = Tables
  BY DEF Stable, Shaped
<1>2. db'[t] = table /\ DOMAIN db' = Tables /\ \A u \in Tables \ {t} : db'[u] = db[u]
  BY <1>1
<1>3. Shaped(db')
  BY <1>2 DEF Stable, Shaped, RowsShaped
<1>4. Numbered'
  BY <1>2 DEF Stable, Numbered
<1>5. UniqueIn(db', "groups") /\ UniqueIn(db', "services")
  BY <1>2, TablesApart DEF Stable, Integrity, Consistent, UniqueIn
<1>6. Referenced(db', "services") /\ Referenced(db', "links")
  <2>1. DOMAIN db.groups \subseteq DOMAIN db'.groups
    BY <1>2, TablesApart
  <2>2. QED
    BY <1>2, <2>1, TablesApart DEF Stable, Integrity, Consistent, Referenced
<1>7. CredentialHeld'
  BY <1>2, TablesApart DEF Stable, CredentialHeld
<1>8. QED
  BY <1>2, <1>3, <1>4, <1>5, <1>6, <1>7 DEF Stable, Integrity, Consistent

(* A row that the schema accepts, in place of row i or after the last.     *)
Puts(t, i, row) == db' = [db EXCEPT ![t] = Put(@, i, row)]

LEMMA PutStable ==
  ASSUME Stable, NEW t \in Tables, NEW i \in Nat, NEW row, Puts(t, i, row),
         DOMAIN serial' = Tables, \A u \in Tables \ {t} : serial'[u] = serial[u],
         serial'[t] \in Nat, serial[t] <= serial'[t], i <= serial'[t],
         DOMAIN row = Columns[t], t = "channels" => HasToken(row), ~Refused(t, i, row)
  PROVE  /\ Stable' /\ \A u \in Tables \ {t} : db'[u] = db[u]
         /\ DOMAIN db'[t] = DOMAIN db[t] \cup {i} /\ db'[t][i] = row
         /\ \A j \in DOMAIN db[t] : j # i => db'[t][j] = db[t][j]
         /\ Tracked({<<t, i>>})
<1> DEFINE table == Put(db[t], i, row)
<1>1. DOMAIN db = Tables /\ db'[t] = table /\ db' = [db EXCEPT ![t] = table]
  BY DEF Stable, Shaped, Puts
<1>2. /\ DOMAIN table = DOMAIN db[t] \cup {i} /\ table[i] = row
      /\ \A j \in DOMAIN db[t] : j # i => table[j] = db[t][j]
  BY DEF Put
<1> HIDE DEF table
<1>3. RowsShaped(table, t)
  BY <1>2 DEF RowsShaped, Stable, Shaped
<1>4. \A j \in DOMAIN table : j \in Nat /\ j <= serial'[t]
  <2>1. serial[t] \in Nat /\ \A j \in DOMAIN db[t] : j \in Nat /\ j <= serial[t]
    BY DEF Stable, Numbered
  <2>2. QED
    BY <1>2, <2>1
<1>5. t \in {"groups", "services"} => UniqueIn(db', t)
  BY <1>1, <1>2 DEF UniqueIn, Refused, Taken, Stable, Integrity, Consistent
<1>6. t \in {"services", "links"} => Referenced(db', t)
  <2>1. t \in {"services", "links"} => db'.groups = db.groups
    BY <1>1, TablesApart
  <2>2. QED
    BY <1>1, <1>2, <2>1 DEF Referenced, Refused, Dangling, Stable, Integrity, Consistent
<1>7. t = "channels" => \A j \in DOMAIN table : HasToken(table[j])
  BY <1>2 DEF Stable, CredentialHeld
<1>8. Stable' /\ \A u \in Tables \ {t} : db'[u] = db[u]
  BY <1>1, <1>2, <1>3, <1>4, <1>5, <1>6, <1>7, OneTable
<1>9. QED
  BY <1>1, <1>2, <1>8 DEF Tracked

(* An INSERT adds a row or none.                                           *)
LEMMA InsertStable ==
  ASSUME Stable, NEW t \in Tables, NEW row, NEW r, NEW x, Insert(r, t, row, x),
         DOMAIN row = Columns[t], t = "channels" => HasToken(row)
  PROVE  /\ Stable' /\ \A u \in Tables \ {t} : db'[u] = db[u]
         /\ \A i \in DOMAIN db[t] : i \in DOMAIN db'[t] /\ db'[t][i] = db[t][i]
         /\ \A i \in DOMAIN db'[t] \ DOMAIN db[t] : db'[t][i] = row /\ ~Dangling(t, row)
         /\ \E rows : Go(r, x, rows) /\ Tracked(rows)
<1> DEFINE i == serial[t] + 1
<1>1. /\ DOMAIN serial = Tables /\ serial[t] \in Nat
      /\ \A j \in DOMAIN db[t] : j \in Nat /\ j <= serial[t]
  BY DEF Stable, Numbered
<1>2. i \in Nat /\ i \notin DOMAIN db[t] /\ serial[t] <= i
  BY <1>1
<1>3. CASE /\ ~Refused(t, i, row)
           /\ db' = [db EXCEPT ![t] = Put(@, i, row)]
           /\ serial' = [serial EXCEPT ![t] = i]
           /\ Go(r, x, {<<t, i>>})
  <2>1. DOMAIN serial' = Tables /\ serial'[t] = i /\ \A u \in Tables \ {t} : serial'[u] = serial[u]
    BY <1>1, <1>3
  <2> HIDE DEF i
  <2> Puts(t, i, row)
    BY <1>3 DEF Puts
  <2>2. /\ Stable' /\ \A u \in Tables \ {t} : db'[u] = db[u]
        /\ DOMAIN db'[t] = DOMAIN db[t] \cup {i} /\ db'[t][i] = row
        /\ \A j \in DOMAIN db[t] : j # i => db'[t][j] = db[t][j]
        /\ Tracked({<<t, i>>})
    BY <1>2, <1>3, <2>1, PutStable
  <2>3. ~Dangling(t, row)
    BY <1>3 DEF Refused
  <2>4. \E rows : Go(r, x, rows) /\ Tracked(rows)
    BY <1>3, <2>2
  <2>5. QED
    BY <1>2, <2>2, <2>3, <2>4
<1>4. CASE Refused(t, i, row) /\ Go(r, x, {}) /\ UNCHANGED <<db, serial>>
  <2>1. Stable'
    BY <1>4 DEF Stable, Numbered, Integrity, CredentialHeld
  <2>2. Tracked({})
    BY <1>4 DEF Tracked
  <2>3. QED
    BY <1>4, <2>1, <2>2
<1>5. QED
  BY <1>3, <1>4 DEF Insert

(* The UPDATE of an update, or nothing.                                    *)
LEMMA OverwriteStable ==
  ASSUME Stable, NEW t \in Tables, NEW row, NEW r \in Reqs, Overwrite(r, t, row),
         DOMAIN row = Columns[t], t = "channels" => HasToken(row)
  PROVE  /\ Stable' /\ \A u \in Tables \ {t} : db'[u] = db[u]
         /\ \E rows : Go(r, Idle, rows) /\ Tracked(rows)
         /\ db' # db => reqs[r].ask.id \in DOMAIN db[t] /\ db'[t][reqs[r].ask.id] = row
<1> DEFINE i == reqs[r].ask.id
<1>1. CASE /\ i \in DOMAIN db[t] /\ ~Refused(t, i, row)
           /\ db' = [db EXCEPT ![t] = Put(@, i, row)]
           /\ Go(r, Idle, {<<t, i>>})
  <2>1. /\ DOMAIN serial' = Tables /\ \A u \in Tables \ {t} : serial'[u] = serial[u]
        /\ serial'[t] \in Nat /\ serial[t] <= serial'[t] /\ i \in Nat /\ i <= serial'[t]
    BY <1>1 DEF Stable, Numbered, Overwrite
  <2> HIDE DEF i
  <2>2. Puts(t, i, row) /\ ~Refused(t, i, row)
    BY <1>1 DEF Puts
  <2>3. Stable' /\ (\A u \in Tables \ {t} : db'[u] = db[u]) /\ db'[t][i] = row /\ Tracked({<<t, i>>})
    BY <2>1, <2>2, PutStable
  <2>4. \E rows : Go(r, Idle, rows) /\ Tracked(rows)
    BY <1>1, <2>3
  <2>5. QED
    BY <1>1, <2>3, <2>4 DEF i
<1>2. CASE Go(r, Idle, {}) /\ UNCHANGED db
  <2>1. Stable'
    BY <1>2 DEF Stable, Numbered, Integrity, CredentialHeld, Overwrite
  <2>2. Tracked({})
    BY <1>2 DEF Tracked
  <2>3. QED
    BY <1>2, <2>1, <2>2
<1>3. QED
  BY <1>1, <1>2 DEF Overwrite

-----------------------------------------------------------------------------
(* The requests of Catalog                                                 *)

LEMMA TurnSound ==
  ASSUME Sound, NEW r \in Reqs, NEW x, \E rows : Go(r, x, rows) /\ Tracked(rows),
         Stable', Knows(r)', UNCHANGED saved
  PROVE  Sound'
<1>1. \A s \in Reqs : Knows(s)'
  BY MoveKnows DEF Sound
<1>2. SavedShaped' /\ BundleClosed'
  BY DEF Sound, SavedShaped, BundleClosed
<1>3. QED
  BY <1>1, <1>2 DEF Sound

LEMMA EndSound ==
  ASSUME Sound, NEW r \in Reqs, \E rows : Go(r, Idle, rows) /\ Tracked(rows),
         Stable', UNCHANGED saved
  PROVE  Sound'
<1>1. Knows(r)'
  BY IdleKnows
<1>2. QED
  BY <1>1, TurnSound

LEMMA CreateSound ==
  ASSUME Sound, NEW r \in Reqs, NEW q, UNCHANGED saved,
         CreateGroup(r, q) \/ CreateLink(r, q) \/ CreateChannel(r, q)
  PROVE  Sound'
<1>1. /\ q.table \in Tables /\ DOMAIN q.row = Columns[q.table]
      /\ Insert(r, q.table, q.row, Idle)
      /\ q.table = "channels" => Acceptable(q.row)
  BY AsksAssumption, TablesApart DEF CreateGroup, CreateLink, CreateChannel, Asking
<1>2. q.table = "channels" => HasToken(q.row)
  BY <1>1 DEF Acceptable, HasToken
<1>3. Stable' /\ \E rows : Go(r, Idle, rows) /\ Tracked(rows)
  BY <1>1, <1>2, InsertStable DEF Sound
<1>4. QED
  BY <1>3, EndSound

LEMMA ReadSound ==
  ASSUME Sound, NEW r \in Reqs, NEW q, UNCHANGED saved,
         ReadGroup(r, q) \/ ReadService(r, q) \/ ReadLink(r, q) \/ ReadChannel(r, q)
  PROVE  Sound'
<1> DEFINE x == Reading("write", q, db[q.table][q.id])
<1>1. /\ q.table \in Tables /\ q.id \in DOMAIN db[q.table]
      /\ Go(r, x, {}) /\ UNCHANGED <<db, serial>>
  BY TablesApart DEF ReadGroup, ReadService, ReadLink, ReadChannel, Read
<1>2. DOMAIN db[q.table][q.id] = Columns[q.table]
  BY <1>1 DEF Sound, Stable, Shaped
<1>3. reqs'[r] = x
  BY <1>1 DEF Go
<1>4. WriteForm(x)
  BY <1>1, <1>2 DEF WriteForm, Reading
<1>5. reqs'[r].pc = "write" /\ reqs'[r].ask = q /\ reqs'[r].row = db'[q.table][q.id]
  BY <1>1, <1>3 DEF Reading
<1>6. Knows(r)'
  BY <1>3, <1>4, <1>5 DEF Knows, Form, Current, Snapshot, Resolves
<1>7. QED
  BY <1>1, <1>6, ReadKnows

(* Whatever was read and sent, what is written has the columns.            *)
LEMMA WriteShape ==
  ASSUME NEW r \in Reqs, Knows(r), reqs[r].pc = "write"
  PROVE  /\ reqs[r].ask.table \in Tables
         /\ \A sent : DOMAIN Merged(reqs[r].row, sent) = Columns[reqs[r].ask.table]
<1>1. WriteForm(reqs[r])
  BY DEF Knows, Form, Idle, InsertForm, ExportForm, ImportForm
<1>2. QED
  BY <1>1 DEF WriteForm, Merged

LEMMA WriteSound ==
  ASSUME Sound, NEW r \in Reqs, UNCHANGED saved,
         WriteGroup(r) \/ WriteService(r) \/ WriteLink(r)
  PROVE  Sound'
<1> DEFINE t == reqs[r].ask.table
<1>1. PICK sent : /\ reqs[r].pc = "write" /\ t # "channels"
                  /\ Overwrite(r, t, Merged(reqs[r].row, sent))
  BY TablesApart DEF WriteGroup, WriteService, WriteLink
<1>2. t \in Tables /\ DOMAIN Merged(reqs[r].row, sent) = Columns[t]
  BY <1>1, WriteShape DEF Sound
<1> HIDE DEF t
<1>3. Stable' /\ \E rows : Go(r, Idle, rows) /\ Tracked(rows)
  BY <1>1, <1>2, OverwriteStable DEF Sound
<1>4. QED
  BY <1>3, EndSound

(* The row that WriteChannel judges and writes.                            *)
Judged(r) == [Merged(reqs[r].row, reqs[r].ask.sent) EXCEPT !.imported = FALSE]

LEMMA WriteChannelSound ==
  ASSUME Sound, NEW r \in Reqs, UNCHANGED saved, WriteChannel(r)
  PROVE  Sound'
<1>1. reqs[r].pc = "write" /\ reqs[r].ask.table = "channels"
  BY DEF WriteChannel
<1>2. DOMAIN Judged(r) = Columns["channels"]
  BY <1>1, WriteShape DEF Sound, Judged
<1>3. CASE Acceptable(Judged(r)) /\ Overwrite(r, "channels", Judged(r))
  <2>1. HasToken(Judged(r)) /\ "channels" \in Tables
    BY <1>3 DEF Acceptable, HasToken, Tables
  <2>2. Stable' /\ \E rows : Go(r, Idle, rows) /\ Tracked(rows)
    BY <1>2, <1>3, <2>1, OverwriteStable DEF Sound
  <2>3. QED
    BY <2>2, EndSound
<1>4. CASE Go(r, Idle, {}) /\ UNCHANGED <<db, serial>>
  BY <1>4, IdleKnows, ReadKnows
<1>5. QED
  BY <1>3, <1>4 DEF WriteChannel, Judged

LEMMA DeleteSound ==
  ASSUME Sound, NEW r \in Reqs, NEW q, UNCHANGED saved,
         DeleteService(r, q) \/ DeleteLink(r, q) \/ DeleteChannel(r, q)
  PROVE  Sound'
<1>1. PICK t \in {"services", "links", "channels"} :
        db' = [db EXCEPT ![t] = Without(@, q.id)] /\ Go(r, Idle, {}) /\ UNCHANGED serial
  BY DEF DeleteService, DeleteLink, DeleteChannel
<1> DEFINE table == Without(db[t], q.id)
<1>2. /\ DOMAIN table \subseteq DOMAIN db[t]
      /\ \A i \in DOMAIN table : table[i] = db[t][i]
  BY DEF Without
<1>3. t \in Tables /\ DOMAIN db = Tables /\ db' = [db EXCEPT ![t] = table]
  BY <1>1, TablesApart DEF Sound, Stable, Shaped
<1>4. db'[t] = table /\ db'.groups = db.groups
  BY <1>3, TablesApart
<1> HIDE DEF table
<1>5. RowsShaped(table, t) /\ (t = "channels" => \A i \in DOMAIN table : HasToken(table[i]))
  BY <1>2, <1>3 DEF RowsShaped, Sound, Stable, Shaped, CredentialHeld
<1>6. t \in {"groups", "services"} => UniqueIn(db', t)
  BY <1>2, <1>4, TablesApart DEF UniqueIn, Sound, Stable, Integrity, Consistent
<1>7. t \in {"services", "links"} => Referenced(db', t)
  BY <1>2, <1>4 DEF Referenced, Sound, Stable, Integrity, Consistent
<1>8. /\ DOMAIN serial' = Tables /\ serial'[t] \in Nat
      /\ \A u \in Tables \ {t} : serial'[u] = serial[u]
      /\ \A i \in DOMAIN table : i \in Nat /\ i <= serial'[t]
  BY <1>1, <1>2, <1>3 DEF Sound, Stable, Numbered
<1>9. t # "groups"
  BY TablesApart
<1>10. Stable' /\ \A u \in Tables \ {t} : db'[u] = db[u]
  BY <1>3, <1>5, <1>6, <1>7, <1>8, <1>9, OneTable DEF Sound
<1>11. Tracked({})
  BY <1>2, <1>4, <1>10 DEF Tracked
<1>12. QED
  BY <1>1, <1>10, <1>11, EndSound

(* The rows that were in the group are in none.                            *)
LEMMA DeleteGroupSound ==
  ASSUME Sound, NEW r \in Reqs, NEW q, UNCHANGED saved, DeleteGroup(r, q)
  PROVE  Sound'
<1> DEFINE g == q.id
           rows == UNION {{t} \X {i \in DOMAIN db[t] : db[t][i].group = g} :
                            t \in {"services", "links"}}
<1>1. /\ DOMAIN db = Tables /\ DOMAIN db' = Tables /\ serial' = serial
      /\ db'.groups = Without(db.groups, g)
      /\ db'.services = Ungrouped(db.services, g)
      /\ db'.links = Ungrouped(db.links, g)
      /\ db'.channels = db.channels
      /\ Go(r, Idle, rows)
  BY TablesApart DEF DeleteGroup, Sound, Stable, Shaped
<1>2. /\ DOMAIN db'.groups = DOMAIN db.groups \ {g}
      /\ \A i \in DOMAIN db'.groups : db'.groups[i] = db.groups[i]
  BY <1>1 DEF Without
<1>3. ASSUME NEW t \in {"services", "links"}
      PROVE  /\ DOMAIN db'[t] = DOMAIN db[t]
             /\ \A i \in DOMAIN db[t] :
                  /\ DOMAIN db'[t][i] = DOMAIN db[t][i]
                  /\ \A f \in DOMAIN db[t][i] \ {"group"} : db'[t][i][f] = db[t][i][f]
                  /\ "group" \in DOMAIN db[t][i]
                  /\ IF db[t][i].group = g THEN db'[t][i].group = None
                                           ELSE db'[t][i] = db[t][i]
  <2>1. db'[t] = Ungrouped(db[t], g)
    BY <1>1
  <2>2. \A i \in DOMAIN db[t] : "group" \in DOMAIN db[t][i]
    BY DEF Sound, Stable, Shaped, Tables, Columns
  <2>3. QED
    BY <2>1, <2>2 DEF Ungrouped
<1> HIDE DEF g
<1>4. Shaped(db')
  <2>1. ASSUME NEW t \in Tables, NEW i \in DOMAIN db'[t] PROVE DOMAIN db'[t][i] = Columns[t]
    <3>1. i \in DOMAIN db[t] /\ DOMAIN db'[t][i] = DOMAIN db[t][i]
      BY <1>1, <1>2, <1>3 DEF Tables
    <3>2. QED
      BY <3>1 DEF Sound, Stable, Shaped
  <2>2. QED
    BY <1>1, <2>1 DEF Shaped
<1>5. \A t \in Tables : DOMAIN db'[t] \subseteq DOMAIN db[t]
  BY <1>1, <1>2, <1>3 DEF Tables
<1>6. Numbered'
  BY <1>1, <1>5 DEF Sound, Stable, Numbered
<1>7. Integrity'
  <2>1. UniqueIn(db', "groups")
    BY <1>2, TablesApart DEF UniqueIn, Sound, Stable, Integrity, Consistent
  <2>2. UniqueIn(db', "services")
    <3>1. \A i \in DOMAIN db.services : db'.services[i].unit = db.services[i].unit
      BY <1>3 DEF Sound, Stable, Shaped, Tables, Columns
    <3>2. DOMAIN db'.services = DOMAIN db.services
      BY <1>3
    <3>3. QED
      BY <3>1, <3>2, TablesApart DEF UniqueIn, Sound, Stable, Integrity, Consistent
  <2>3. Referenced(db', "services") /\ Referenced(db', "links")
    BY <1>2, <1>3 DEF Referenced, Sound, Stable, Integrity, Consistent
  <2>4. QED
    BY <2>1, <2>2, <2>3 DEF Integrity, Consistent
<1>8. CredentialHeld'
  BY <1>1 DEF Sound, Stable, CredentialHeld
<1>9. Tracked(rows)
  <2> SUFFICES ASSUME NEW t \in Tables, NEW i \in DOMAIN db'[t], <<t, i>> \notin rows
               PROVE  i \in DOMAIN db[t] /\ db'[t][i] = db[t][i]
    BY DEF Tracked
  <2>1. CASE t \in {"services", "links"}
    <3>1. i \in DOMAIN db[t] /\ db[t][i].group # g
      BY <1>3, <2>1
    <3>2. QED
      BY <1>3, <2>1, <3>1
  <2>2. CASE t \in {"groups", "channels"}
    BY <1>1, <1>2, <2>2
  <2>3. QED
    BY <2>1, <2>2, TablesApart
<1> HIDE DEF rows
<1>10. QED
  BY <1>1, <1>4, <1>6, <1>7, <1>8, <1>9, EndSound DEF Stable

LEMMA ReorderSound ==
  ASSUME Sound, NEW r \in Reqs, NEW q, UNCHANGED saved,
         ReorderServices(r, q) \/ ReorderLinks(r, q)
  PROVE  Sound'
<1>1. PICK t \in {"services", "links"} : Reorder(r, q, t)
  BY DEF ReorderServices, ReorderLinks
<1> DEFINE hit == DOMAIN q.items \cap DOMAIN db[t]
           table == [i \in DOMAIN db[t] |->
                       IF i \in hit THEN [db[t][i] EXCEPT !.order = q.items[i]] ELSE db[t][i]]
<1>2. /\ db' = [db EXCEPT ![t] = table] /\ Go(r, Idle, {t} \X hit) /\ serial' = serial
      /\ t \in Tables /\ t # "groups" /\ t # "channels" /\ DOMAIN db = Tables
  BY <1>1, TablesApart DEF Reorder, Sound, Stable, Shaped
<1>3. ASSUME NEW i \in DOMAIN db[t]
      PROVE  /\ DOMAIN table[i] = DOMAIN db[t][i]
             /\ \A f \in DOMAIN db[t][i] \ {"order"} : table[i][f] = db[t][i][f]
             /\ i \notin hit => table[i] = db[t][i]
  OBVIOUS
<1>4. DOMAIN table = DOMAIN db[t]
  OBVIOUS
<1> HIDE DEF table, hit
<1>5. db'[t] = table /\ db'.groups = db.groups
  BY <1>2, TablesApart
<1>6. RowsShaped(table, t)
  BY <1>2, <1>3, <1>4 DEF RowsShaped, Sound, Stable, Shaped
<1>7. t = "services" => UniqueIn(db', t)
  <2> SUFFICES ASSUME t = "services" PROVE UniqueIn(db', t)
    OBVIOUS
  <2>1. \A i \in DOMAIN db[t] : table[i].unit = db[t][i].unit
    BY <1>2, <1>3 DEF Sound, Stable, Shaped, Columns
  <2>2. QED
    BY <1>4, <1>5, <2>1, TablesApart DEF UniqueIn, Sound, Stable, Integrity, Consistent
<1>8. Referenced(db', t)
  <2>1. \A i \in DOMAIN db[t] : table[i].group = db[t][i].group
    <3>1. \A i \in DOMAIN db[t] : "group" \in DOMAIN db[t][i] \ {"order"}
      BY <1>2 DEF Sound, Stable, Shaped, Columns
    <3>2. QED
      BY <1>3, <3>1
  <2>2. QED
    BY <1>4, <1>5, <2>1 DEF Referenced, Sound, Stable, Integrity, Consistent
<1>9. /\ DOMAIN serial' = Tables /\ serial'[t] \in Nat
      /\ \A u \in Tables \ {t} : serial'[u] = serial[u]
      /\ \A i \in DOMAIN table : i \in Nat /\ i <= serial'[t]
  BY <1>2, <1>4 DEF Sound, Stable, Numbered
<1>10. Stable' /\ \A u \in Tables \ {t} : db'[u] = db[u]
  BY <1>2, <1>6, <1>7, <1>8, <1>9, OneTable DEF Sound
<1>11. Tracked({t} \X hit)
  <2> SUFFICES ASSUME NEW u \in Tables, NEW i \in DOMAIN db'[u], <<u, i>> \notin {t} \X hit
               PROVE  i \in DOMAIN db[u] /\ db'[u][i] = db[u][i]
    BY DEF Tracked
  <2>1. CASE u = t
    <3>1. i \notin hit /\ i \in DOMAIN db[t]
      BY <1>4, <1>5, <2>1
    <3>2. QED
      BY <1>3, <1>5, <2>1, <3>1
  <2>2. CASE u # t
    BY <1>10, <2>2
  <2>3. QED
    BY <2>1, <2>2
<1>12. QED
  BY <1>2, <1>10, <1>11, EndSound

(* A service is created: the query, and the INSERT.                        *)
LEMMA CheckUnitSound ==
  ASSUME Sound, NEW r \in Reqs, NEW q, UNCHANGED saved, CheckUnit(r, q)
  PROVE  Sound'
<1> DEFINE x == Reading("insert", q, None)
<1>1. DOMAIN q.row = Columns.services /\ UNCHANGED <<db, serial>>
  BY AsksAssumption DEF CheckUnit, Asking
<1>2. CASE Go(r, Idle, {})
  BY <1>1, <1>2, IdleKnows, ReadKnows
<1>3. CASE Go(r, x, {})
  <2>1. reqs'[r] = x
    BY <1>3 DEF Go
  <2>2. InsertForm(x)
    BY <1>1 DEF InsertForm, Reading
  <2>3. Knows(r)'
    BY <2>1, <2>2 DEF Knows, Form, Current, Snapshot, Resolves, Reading
  <2>4. QED
    BY <1>1, <1>3, <2>3, ReadKnows
<1>4. QED
  BY <1>2, <1>3 DEF CheckUnit

LEMMA InsertServiceSound ==
  ASSUME Sound, NEW r \in Reqs, UNCHANGED saved, InsertService(r)
  PROVE  Sound'
<1>1. reqs[r].pc = "insert" /\ Insert(r, "services", reqs[r].ask.row, Idle)
  BY DEF InsertService
<1>2. InsertForm(reqs[r])
  BY <1>1 DEF Sound, Knows, Form, Idle, WriteForm, ExportForm, ImportForm
<1>3. "services" \in Tables /\ DOMAIN reqs[r].ask.row = Columns["services"]
  BY <1>2 DEF InsertForm, Tables
<1>4. Stable' /\ \E rows : Go(r, Idle, rows) /\ Tracked(rows)
  BY <1>1, <1>3, TablesApart, InsertStable DEF Sound
<1>5. QED
  BY <1>4, EndSound

LEMMA AbandonSound ==
  ASSUME Sound, NEW r \in Reqs, UNCHANGED saved, Abandon(r)
  PROVE  Sound'
  BY IdleKnows, ReadKnows DEF Abandon

LEMMA CatalogSound ==
  ASSUME Sound, NEW r \in Reqs, UNCHANGED saved,
         Proceed(r) \/ Abandon(r) \/ \E q \in Asks : Ask(r, q)
  PROVE  Sound'
<1>1. CASE Proceed(r)
  BY <1>1, WriteSound, WriteChannelSound, InsertServiceSound DEF Proceed
<1>2. CASE Abandon(r)
  BY <1>2, AbandonSound
<1>3. CASE \E q \in Asks : Ask(r, q)
  BY <1>3, CreateSound, ReadSound, DeleteSound, DeleteGroupSound, ReorderSound, CheckUnitSound
     DEF Ask
<1>4. QED
  BY <1>1, <1>2, <1>3

-----------------------------------------------------------------------------
(* Exports                                                                 *)

(* With the ids of its groups replaced by names, a table has its columns,  *)
(* and names no group that is not there.                                   *)
LEMMA NamedTable ==
  ASSUME Sound, NEW t \in {"services", "links"}
  PROVE  /\ RowsShaped(Named(db[t]), t)
         /\ \A i \in DOMAIN Named(db[t]) :
              \/ Named(db[t])[i].group = None
              \/ \E g \in DOMAIN db.groups : Named(db[t])[i].group = db.groups[g].name
<1>1. t \in Tables /\ "group" \in Columns[t]
  BY DEF Tables, Columns
<1>2. \A i \in DOMAIN db[t] : DOMAIN db[t][i] = Columns[t]
  BY <1>1 DEF Sound, Stable, Shaped
<1>3. QED
  BY <1>1, <1>2 DEF Named, RowsShaped

LEMMA ExportGroupsSound ==
  ASSUME Sound, NEW r \in Reqs, NEW q, ExportGroups(r, q)
  PROVE  Sound'
<1> DEFINE x == Exporting(Bundle(db.groups, None, None, None), {})
<1>1. Go(r, x, {}) /\ UNCHANGED <<db, serial, saved>>
  BY DEF ExportGroups
<1>2. reqs'[r] = x
  BY <1>1 DEF Go
<1>3. RowsShaped(db.groups, "groups")
  BY DEF Sound, Stable, Shaped, RowsShaped, Tables
<1>4. ExportForm(x)
  BY <1>3 DEF ExportForm, Exporting, Bundle, Tables
<1>5. Snapshot(r)'
  BY <1>1, <1>2 DEF Snapshot, Exporting, Bundle
<1>6. Knows(r)'
  BY <1>2, <1>4, <1>5 DEF Knows, Form, Current, Resolves, Exporting
<1>7. QED
  BY <1>1, <1>6, ReadKnows

(* The services, and then the links.                                       *)
LEMMA ExportTableSound ==
  ASSUME Sound, NEW r \in Reqs, NEW t \in {"services", "links"}, reqs[r].pc = "export",
         Go(r, [reqs[r] EXCEPT !.bundle[t] = Named(db[t])], {}), UNCHANGED <<db, serial, saved>>
  PROVE  Sound'
<1> DEFINE x == reqs[r]
           y == reqs'[r]
<1>1. ExportForm(x) /\ Snapshot(r)
  BY DEF Sound, Knows, Form, Idle, WriteForm, InsertForm, ImportForm
<1>2. y = [x EXCEPT !.bundle[t] = Named(db[t])]
  BY DEF Go
<1>3. /\ y.pc = "export" /\ DOMAIN y = DOMAIN x /\ y.since = x.since
      /\ DOMAIN y.bundle = Tables /\ y.bundle[t] = Named(db[t])
      /\ \A u \in Tables \ {t} : y.bundle[u] = x.bundle[u]
  BY <1>1, <1>2, TablesApart DEF ExportForm
<1>4. ExportForm(y)
  BY <1>1, <1>3, NamedTable, TablesApart DEF ExportForm
<1>5. Snapshot(r)'
  <2> SUFFICES ASSUME ~(\E w \in x.since : w[1] = "groups")
               PROVE  Snapshot(r)'
    BY <1>3 DEF Snapshot
  <2>1. y.bundle.groups = x.bundle.groups
    BY <1>3, TablesApart
  <2>2. \A g \in DOMAIN db.groups :
          g \in DOMAIN x.bundle.groups /\ x.bundle.groups[g].name = db.groups[g].name
    BY <1>1 DEF Snapshot
  <2>3. \A i \in DOMAIN y.bundle[t] :
          y.bundle[t][i].group \in NamesOf(x.bundle.groups) \cup {None}
    BY <1>3, <2>2, NamedTable DEF NamesOf
  <2>4. ASSUME NEW u \in {"services", "links"}, u # t, y.bundle[u] # None,
               NEW i \in DOMAIN y.bundle[u]
        PROVE  y.bundle[u][i].group \in NamesOf(x.bundle.groups) \cup {None}
    BY <1>1, <1>3, <2>4, TablesApart DEF Snapshot
  <2>5. QED
    BY <2>1, <2>2, <2>3, <2>4 DEF Snapshot
<1>6. Knows(r)'
  BY <1>3, <1>4, <1>5 DEF Knows, Form, Current, Resolves
<1>7. QED
  BY <1>6, ReadKnows

(* What it has read, with the channels, is the bundle.                     *)
LEMMA ExportChannelsSound ==
  ASSUME Sound, NEW r \in Reqs, ExportChannels(r)
  PROVE  Sound'
<1> DEFINE x == reqs[r]
           channels == [i \in DOMAIN db.channels |-> Public(db.channels[i])]
<1>1. ExportForm(x) /\ Snapshot(r) /\ x.bundle.services # None /\ x.bundle.links # None
  BY DEF ExportChannels, Sound, Knows, Form, Idle, WriteForm, InsertForm, ImportForm
<1>2. RowsShaped(channels, "channels")
  BY DEF RowsShaped, Public, Sound, Stable, Shaped, Tables
<1> HIDE DEF channels
<1>3. /\ saved'.bundle = [x.bundle EXCEPT !.channels = channels]
      /\ saved'.torn = \E w \in x.since : w[1] = "groups"
      /\ UNCHANGED <<db, serial>> /\ Go(r, Idle, {})
  BY DEF ExportChannels, channels
<1>4. /\ DOMAIN saved'.bundle = Tables /\ saved'.bundle.channels = channels
      /\ \A t \in Tables \ {"channels"} : saved'.bundle[t] = x.bundle[t]
  BY <1>1, <1>3, TablesApart DEF ExportForm
<1>5. SavedShaped'
  <2>1. \A t \in Tables : RowsShaped(saved'.bundle[t], t)
    BY <1>1, <1>2, <1>4, TablesApart DEF ExportForm
  <2>2. QED
    BY <1>4, <2>1 DEF SavedShaped, Shaped, RowsShaped
<1>6. BundleClosed'
  <2> SUFFICES ASSUME ~saved'.torn,
                      NEW t \in {"services", "links"}, NEW i \in DOMAIN saved'.bundle[t]
               PROVE  saved'.bundle[t][i].group \in NamesOf(saved'.bundle.groups) \cup {None}
    BY DEF BundleClosed
  <2>1. ~(\E w \in x.since : w[1] = "groups") /\ x.pc = "export"
    BY <1>3 DEF ExportChannels
  <2>2. saved'.bundle[t] = x.bundle[t] /\ saved'.bundle.groups = x.bundle.groups
    BY <1>4, TablesApart
  <2>3. QED
    BY <1>1, <2>1, <2>2 DEF Snapshot
<1>7. Stable' /\ Tracked({})
  BY <1>3 DEF Sound, Stable, Shaped, Numbered, Integrity, CredentialHeld, Tracked
<1>8. \A s \in Reqs : Knows(s)'
  BY <1>3, <1>7, IdleKnows, MoveKnows DEF Sound
<1>9. QED
  BY <1>5, <1>6, <1>7, <1>8 DEF Sound

LEMMA ExportSound ==
  ASSUME Sound, NEW r \in Reqs, Export(r)
  PROVE  Sound'
<1>1. CASE ExportServices(r)
  BY <1>1, ExportTableSound DEF ExportServices
<1>2. CASE ExportLinks(r)
  BY <1>2, ExportTableSound DEF ExportLinks
<1>3. QED
  BY <1>1, <1>2, ExportChannelsSound DEF Export

-----------------------------------------------------------------------------
(* Imports                                                                 *)

LEMMA ImportIs ==
  ASSUME NEW r \in Reqs, Knows(r), reqs[r].pc \in {"import", "add"}
  PROVE  ImportForm(reqs[r]) /\ Resolves(r)
  BY DEF Knows, Form, Idle, WriteForm, InsertForm, ExportForm

LEMMA StartImportSound ==
  ASSUME Sound, NEW r \in Reqs, NEW q, StartImport(r, q)
  PROVE  Sound'
<1> DEFINE b == IF q.bundle = None THEN saved.bundle ELSE q.bundle
           x == Importing("import", b, [t \in Tables |-> DOMAIN b[t]], None, None, {})
<1>1. Go(r, x, {}) /\ UNCHANGED <<db, serial, saved>>
  BY DEF StartImport
<1>2. Shaped(b)
  BY AsksAssumption DEF StartImport, Asking, Sound, SavedShaped
<1> HIDE DEF b
<1>3. reqs'[r] = x
  BY <1>1 DEF Go
<1>4. ImportForm(x)
  BY <1>2 DEF ImportForm, Importing
<1>5. Knows(r)'
  BY <1>3, <1>4 DEF Knows, Form, Current, Snapshot, Resolves, Importing
<1>6. QED
  BY <1>1, <1>5, ReadKnows

(* A row is dealt with, and if the groups have been read they stay.        *)
LEMMA DoneKnows ==
  ASSUME NEW r \in Reqs, Knows(r), reqs[r].pc \in {"import", "add"},
         NEW t \in Tables, NEW i, reqs'[r] = Done(reqs[r], t, i),
         reqs[r].ids # None => db'.groups = db.groups
  PROVE  Knows(r)'
<1> DEFINE x == reqs[r]
           y == reqs'[r]
<1>1. ImportForm(x) /\ Resolves(r)
  BY ImportIs
<1>2. /\ y.pc = "import" /\ y.bundle = x.bundle /\ y.ids = x.ids /\ y.since = x.since
      /\ DOMAIN y = {"pc", "bundle", "todo", "item", "ids", "since"}
      /\ y.todo = [x.todo EXCEPT ![t] = @ \ {i}]
  BY DEF Done, Importing
<1>3. DOMAIN y.todo = Tables /\ \A u \in Tables : y.todo[u] \subseteq x.todo[u]
  BY <1>1, <1>2 DEF ImportForm
<1>4. ImportForm(y)
  <2>1. y.ids # None => y.todo.groups = {}
    BY <1>1, <1>2, <1>3 DEF ImportForm, Tables
  <2>2. QED
    BY <1>1, <1>2, <1>3, <2>1 DEF ImportForm
<1>5. Resolves(r)'
  BY <1>1, <1>2 DEF Resolves
<1>6. QED
  BY <1>2, <1>4, <1>5 DEF Knows, Form, Current, Snapshot

(* The INSERT of a row is next.                                            *)
LEMMA AddingKnows ==
  ASSUME NEW r \in Reqs, Knows(r), reqs[r].pc = "import", NEW i,
         i \in reqs[r].todo[IF reqs[r].ids = None THEN "groups" ELSE "services"],
         reqs'[r] = Adding(reqs[r], i), db' = db
  PROVE  Knows(r)'
<1>1. ImportForm(reqs[r]) /\ Resolves(r)
  BY ImportIs
<1>2. /\ reqs'[r].pc = "add" /\ reqs'[r].ids = reqs[r].ids /\ reqs'[r].since = reqs[r].since
      /\ ImportForm(reqs'[r])
  BY <1>1 DEF ImportForm, Adding, Importing
<1>3. Resolves(r)'
  BY <1>1, <1>2 DEF Resolves
<1>4. QED
  BY <1>2, <1>3 DEF Knows, Form, Current, Snapshot

LEMMA ImportGroupSound ==
  ASSUME Sound, NEW r \in Reqs, ImportGroup(r)
  PROVE  Sound'
<1>1. /\ reqs[r].pc = "import" /\ UNCHANGED <<db, serial, saved>>
      /\ ImportForm(reqs[r])
  BY ImportIs DEF ImportGroup, Sound
<1>2. PICK i \in reqs[r].todo.groups :
        Go(r, Done(reqs[r], "groups", i), {}) \/ Go(r, Adding(reqs[r], i), {})
  BY DEF ImportGroup
<1>3. reqs[r].ids = None
  BY <1>1, <1>2 DEF ImportForm
<1>4. CASE Go(r, Done(reqs[r], "groups", i), {})
  <2>1. reqs'[r] = Done(reqs[r], "groups", i)
    BY <1>4 DEF Go
  <2>2. Knows(r)'
    BY <1>1, <1>3, <2>1, TablesApart, DoneKnows DEF Sound
  <2>3. QED
    BY <1>1, <1>4, <2>2, ReadKnows
<1>5. CASE Go(r, Adding(reqs[r], i), {})
  <2>1. reqs'[r] = Adding(reqs[r], i)
    BY <1>5 DEF Go
  <2>2. Knows(r)'
    BY <1>1, <1>3, <2>1, AddingKnows DEF Sound
  <2>3. QED
    BY <1>1, <1>5, <2>2, ReadKnows
<1>6. QED
  BY <1>2, <1>4, <1>5

(* An INSERT of an import.                                                 *)
LEMMA ImportInsertSound ==
  ASSUME Sound, NEW r \in Reqs, reqs[r].pc \in {"import", "add"}, UNCHANGED saved,
         NEW t \in Tables, NEW i, NEW row, Insert(r, t, row, Done(reqs[r], t, i)),
         DOMAIN row = Columns[t], t = "channels" => HasToken(row),
         t = "groups" => reqs[r].ids = None
  PROVE  Sound'
<1>1. /\ Stable' /\ \A u \in Tables \ {t} : db'[u] = db[u]
      /\ \E rows : Go(r, Done(reqs[r], t, i), rows) /\ Tracked(rows)
  BY InsertStable DEF Sound
<1>2. reqs'[r] = Done(reqs[r], t, i)
  BY <1>1 DEF Go
<1>3. reqs[r].ids # None => db'.groups = db.groups
  BY <1>1, TablesApart
<1>4. Knows(r)'
  BY <1>2, <1>3, DoneKnows DEF Sound
<1>5. QED
  BY <1>1, <1>4, TurnSound

LEMMA AddGroupSound ==
  ASSUME Sound, NEW r \in Reqs, AddGroup(r)
  PROVE  Sound'
<1> DEFINE x == reqs[r]
           row == x.bundle.groups[x.item]
<1>1. /\ x.pc = "add" /\ x.ids = None /\ UNCHANGED saved
      /\ Insert(r, "groups", row, Done(x, "groups", x.item))
  BY DEF AddGroup
<1>2. x.item \in DOMAIN x.bundle.groups /\ Shaped(x.bundle)
  BY <1>1, ImportIs, TablesApart DEF ImportForm, Sound
<1>3. DOMAIN row = Columns["groups"]
  BY <1>2, TablesApart DEF Shaped
<1>4. QED
  BY <1>1, <1>3, TablesApart, ImportInsertSound

(* With its group replaced by an id, a row has its columns.                *)
LEMMA ResolvedShape ==
  ASSUME NEW x, ImportForm(x), NEW t \in {"services", "links"}, NEW i \in x.todo[t]
  PROVE  /\ DOMAIN Resolved(x, t, i) = Columns[t]
         /\ Resolved(x, t, i).group = IdOf(x.ids, x.bundle[t][i].group)
<1>1. t \in Tables /\ "group" \in Columns[t]
  BY DEF Tables, Columns
<1>2. i \in DOMAIN x.bundle[t] /\ DOMAIN x.bundle[t][i] = Columns[t]
  BY <1>1 DEF ImportForm, Shaped
<1>3. QED
  BY <1>1, <1>2 DEF Resolved

LEMMA AddServiceSound ==
  ASSUME Sound, NEW r \in Reqs, AddService(r)
  PROVE  Sound'
<1> DEFINE x == reqs[r]
           row == Resolved(x, "services", x.item)
<1>1. /\ x.pc = "add" /\ x.ids # None /\ UNCHANGED saved
      /\ Insert(r, "services", row, Done(x, "services", x.item))
  BY DEF AddService
<1>2. ImportForm(x) /\ x.item \in x.todo["services"]
  BY <1>1, ImportIs DEF ImportForm, Sound
<1>3. DOMAIN row = Columns["services"]
  BY <1>2, ResolvedShape
<1>4. QED
  BY <1>1, <1>3, TablesApart, ImportInsertSound

LEMMA ImportLinkSound ==
  ASSUME Sound, NEW r \in Reqs, ImportLink(r)
  PROVE  Sound'
<1>1. reqs[r].pc = "import" /\ UNCHANGED saved /\ ImportForm(reqs[r])
  BY ImportIs DEF ImportLink, Sound
<1>2. PICK i \in reqs[r].todo.links :
        Insert(r, "links", Resolved(reqs[r], "links", i), Done(reqs[r], "links", i))
  BY DEF ImportLink
<1>3. DOMAIN Resolved(reqs[r], "links", i) = Columns["links"]
  BY <1>1, ResolvedShape
<1>4. QED
  BY <1>1, <1>2, <1>3, TablesApart, ImportInsertSound

LEMMA ImportServiceSound ==
  ASSUME Sound, NEW r \in Reqs, ImportService(r)
  PROVE  Sound'
<1>1. /\ reqs[r].pc = "import" /\ reqs[r].ids # None /\ UNCHANGED <<db, serial, saved>>
  BY DEF ImportService
<1>2. PICK i \in reqs[r].todo.services :
        Go(r, Done(reqs[r], "services", i), {}) \/ Go(r, Adding(reqs[r], i), {})
  BY DEF ImportService
<1>3. CASE Go(r, Done(reqs[r], "services", i), {})
  <2>1. reqs'[r] = Done(reqs[r], "services", i)
    BY <1>3 DEF Go
  <2>2. Knows(r)'
    BY <1>1, <2>1, TablesApart, DoneKnows DEF Sound
  <2>3. QED
    BY <1>1, <1>3, <2>2, ReadKnows
<1>4. CASE Go(r, Adding(reqs[r], i), {})
  <2>1. reqs'[r] = Adding(reqs[r], i)
    BY <1>4 DEF Go
  <2>2. Knows(r)'
    BY <1>1, <2>1, AddingKnows DEF Sound
  <2>3. QED
    BY <1>1, <1>4, <2>2, ReadKnows
<1>5. QED
  BY <1>2, <1>3, <1>4

LEMMA ImportChannelSound ==
  ASSUME Sound, NEW r \in Reqs, ImportChannel(r)
  PROVE  Sound'
<1> DEFINE x == reqs[r]
<1>1. x.pc = "import" /\ x.ids # None /\ UNCHANGED saved /\ ImportForm(x)
  BY ImportIs DEF ImportChannel, Sound
<1>2. PICK i \in x.todo.channels :
        \/ Insert(r, "channels", Public(x.bundle.channels[i]), Done(x, "channels", i))
        \/ Go(r, Done(x, "channels", i), {}) /\ UNCHANGED <<db, serial>>
  BY DEF ImportChannel
<1>3. DOMAIN x.bundle.channels[i] = Columns["channels"]
  BY <1>1, TablesApart DEF ImportForm, Shaped
<1>4. /\ DOMAIN Public(x.bundle.channels[i]) = Columns["channels"]
      /\ HasToken(Public(x.bundle.channels[i]))
  BY <1>3 DEF Public, HasToken, Columns
<1>5. CASE Insert(r, "channels", Public(x.bundle.channels[i]), Done(x, "channels", i))
  BY <1>1, <1>4, <1>5, TablesApart, ImportInsertSound
<1>6. CASE Go(r, Done(x, "channels", i), {}) /\ UNCHANGED <<db, serial>>
  <2>1. reqs'[r] = Done(x, "channels", i)
    BY <1>6 DEF Go
  <2>2. Knows(r)'
    BY <1>1, <1>6, <2>1, TablesApart, DoneKnows DEF Sound
  <2>3. QED
    BY <1>1, <1>6, <2>2, ReadKnows
<1>7. QED
  BY <1>2, <1>5, <1>6

(* The groups are read, or none are.                                       *)
LEMMA ReadGroupIdsSound ==
  ASSUME Sound, NEW r \in Reqs, ReadGroupIds(r)
  PROVE  Sound'
<1> DEFINE x == reqs[r]
           ids == [n \in NamesOf(db.groups) |->
                     CHOOSE g \in DOMAIN db.groups : db.groups[g].name = n]
           With(m) == Importing("import", x.bundle, x.todo, None, m, {})
<1>1. /\ x.pc = "import" /\ x.todo.groups = {} /\ UNCHANGED <<db, serial, saved>>
      /\ Go(r, With(ids), {}) \/ Go(r, With(<< >>), {})
  BY DEF ReadGroupIds
<1>2. ImportForm(x)
  BY <1>1, ImportIs DEF Sound
<1>3. /\ DOMAIN ids = NamesOf(db.groups)
      /\ \A n \in DOMAIN ids : ids[n] \in DOMAIN db.groups /\ db.groups[ids[n]].name = n
  <2>1. ASSUME NEW n \in NamesOf(db.groups)
        PROVE  ids[n] \in DOMAIN db.groups /\ db.groups[ids[n]].name = n
    <3>1. \E g \in DOMAIN db.groups : db.groups[g].name = n
      BY DEF NamesOf
    <3>2. ids[n] = CHOOSE g \in DOMAIN db.groups : db.groups[g].name = n
      OBVIOUS
    <3>3. QED
      BY <3>1, <3>2
  <2>2. QED
    BY <2>1
<1>4. \A g \in DOMAIN db.groups : g \in Nat
  BY TablesApart DEF Sound, Stable, Numbered
<1> HIDE DEF ids
<1>5. ASSUME NEW m, Go(r, With(m), {}),
             m = << >> \/ m = ids
      PROVE  Sound'
  <2>1. reqs'[r] = With(m)
    BY <1>5 DEF Go
  <2>2. ImportForm(With(m))
    BY <1>1, <1>2 DEF ImportForm, Importing
  <2>3. Resolves(r)'
    <3>1. \A n \in DOMAIN m : m[n] \in DOMAIN db.groups /\ db.groups[m[n]].name = n
      BY <1>3, <1>5
    <3>2. m = << >> \/ \A g \in DOMAIN db.groups : db.groups[g].name \in DOMAIN m
      BY <1>3, <1>5 DEF NamesOf
    <3>3. QED
      BY <1>1, <1>4, <2>1, <3>1, <3>2 DEF Resolves, Importing
  <2>4. Knows(r)'
    BY <2>1, <2>2, <2>3 DEF Knows, Form, Current, Snapshot, Importing
  <2>5. QED
    BY <1>1, <1>5, <2>4, ReadKnows
<1>6. QED
  BY <1>1, <1>5

LEMMA ImportSound ==
  ASSUME Sound, NEW r \in Reqs, Import(r)
  PROVE  Sound'
<1>1. CASE EndImport(r)
  BY <1>1, IdleKnows, ReadKnows DEF EndImport
<1>2. QED
  BY <1>1, ImportGroupSound, AddGroupSound, ReadGroupIdsSound, ImportServiceSound,
     AddServiceSound, ImportLinkSound, ImportChannelSound DEF Import

-----------------------------------------------------------------------------
(* The specification                                                       *)

LEMMA InitSound == Init => Sound
<1> SUFFICES ASSUME Init PROVE Sound
  OBVIOUS
<1>1. PICK s \in Stored : db = s.db /\ serial = s.serial
  BY DEF Init, CatalogInit
<1>2. Stable
  BY <1>1, StoredAssumption DEF Stable, Numbered, Integrity, CredentialHeld
<1>3. saved = None
  BY DEF Init
<1>4. ASSUME NEW r \in Reqs PROVE Knows(r)
  <2>1. reqs[r] = Idle
    BY DEF Init, CatalogInit
  <2>2. QED
    BY <2>1 DEF Knows, Form, Current, Snapshot, Resolves, Idle
<1>5. QED
  BY <1>2, <1>3, <1>4 DEF Sound, SavedShaped, BundleClosed

LEMMA StepSound == Sound /\ [Next]_vars => Sound'
<1> SUFFICES ASSUME Sound, [Next]_vars PROVE Sound'
  OBVIOUS
<1>1. CASE Next
  <2>1. PICK r \in Reqs :
          \/ (Proceed(r) \/ Abandon(r)) /\ UNCHANGED saved
          \/ \E q \in Asks : Ask(r, q) /\ UNCHANGED saved
          \/ \E q \in Asks : ExportGroups(r, q) \/ StartImport(r, q)
          \/ Export(r) \/ Import(r)
    BY <1>1 DEF Next
  <2>2. QED
    BY <2>1, CatalogSound, ExportGroupsSound, StartImportSound, ExportSound, ImportSound
<1>2. CASE UNCHANGED vars
  <2>1. UNCHANGED <<db, serial, reqs, saved>>
    BY <1>2 DEF vars, catalogVars
  <2>2. Stable' /\ SavedShaped' /\ BundleClosed'
    BY <2>1 DEF Sound, Stable, Numbered, Integrity, CredentialHeld, SavedShaped, BundleClosed
  <2>3. ASSUME NEW r \in Reqs PROVE Knows(r)'
    BY <2>1 DEF Sound, Knows, Current, Snapshot, Resolves
  <2>4. QED
    BY <2>2, <2>3 DEF Sound
<1>3. QED
  BY <1>1, <1>2

(* The tables are sound, and no request is wrong about what it has read    *)
(* except where another has written since.                                 *)
THEOREM AlwaysSound == Spec => []Sound
  BY InitSound, StepSound, PTL DEF Spec

(* Names of groups and claimed units stay unique and no row names a group  *)
(* that is gone, though every check is made before the statement it is     *)
(* for (001_init.sql, 007 and 008).                                        *)
THEOREM SchemaHolds == Spec => []Integrity
<1>1. Sound => Integrity
  BY DEF Sound, Stable
<1>2. QED
  BY <1>1, AlwaysSound, PTL

(* No order of creations and updates leaves a channel without the token    *)
(* that its kind needs; an import may (notifications.rs:103, 205).         *)
THEOREM TokensHeld == Spec => []CredentialHeld
<1>1. Sound => CredentialHeld
  BY DEF Sound, Stable
<1>2. QED
  BY <1>1, AlwaysSound, PTL

(* A bundle is closed unless the groups changed while it was written       *)
(* (config_export.rs:90).                                                  *)
THEOREM ExportsClosed == Spec => []BundleClosed
<1>1. Sound => BundleClosed
  BY DEF Sound
<1>2. QED
  BY <1>1, AlwaysSound, PTL

-----------------------------------------------------------------------------
(* What an update writes                                                   *)

(* The UPDATE of any of the four handlers: every column that was not sent  *)
(* has the value that was read.                                            *)
LEMMA Written ==
  ASSUME Sound, NEW r \in Reqs, NEW t \in Tables, Proceed(r), Writing(r, t), db' # db
  PROVE  /\ reqs[r].ask.id \in DOMAIN db[t]
         /\ \A f \in Columns[t] \ ((DOMAIN reqs[r].ask.sent) \cup {"imported"}) :
              db'[t][reqs[r].ask.id][f] = reqs[r].row[f]
<1> DEFINE x == reqs[r]
           Keeps(row) == \A f \in Columns[t] \ ((DOMAIN x.ask.sent) \cup {"imported"}) :
                           row[f] = x.row[f]
<1>1. x.pc = "write" /\ x.ask.table = t
  BY DEF Writing
<1>2. WriteForm(x)
  BY <1>1 DEF Sound, Knows, Form, Idle, InsertForm, ExportForm, ImportForm
<1>3. DOMAIN x.row = Columns[t]
  BY <1>1, <1>2 DEF WriteForm
<1>4. ASSUME NEW sent, DOMAIN sent = DOMAIN x.ask.sent
      PROVE  DOMAIN Merged(x.row, sent) = Columns[t] /\ Keeps(Merged(x.row, sent))
  BY <1>3, <1>4 DEF Merged
<1>5. DOMAIN Cleared(x.ask.sent) = DOMAIN x.ask.sent
  BY DEF Cleared
<1>6. \E row : /\ Overwrite(r, t, row) /\ DOMAIN row = Columns[t] /\ Keeps(row)
               /\ t = "channels" => HasToken(row)
  <2>1. CASE WriteGroup(r)
    BY <1>1, <1>4, <2>1, TablesApart DEF WriteGroup
  <2>2. CASE WriteService(r)
    BY <1>1, <1>4, <1>5, <2>2, TablesApart DEF WriteService
  <2>3. CASE WriteLink(r)
    BY <1>1, <1>4, <1>5, <2>3, TablesApart DEF WriteLink
  <2>4. CASE WriteChannel(r)
    <3>1. t = "channels" /\ Acceptable(Judged(r)) /\ Overwrite(r, t, Judged(r))
      BY <1>1, <2>4 DEF WriteChannel, Judged
    <3>2. HasToken(Judged(r))
      BY <3>1 DEF Acceptable, HasToken
    <3>3. DOMAIN Judged(r) = Columns[t] /\ Keeps(Judged(r))
      BY <1>4 DEF Judged
    <3>4. QED
      BY <3>1, <3>2, <3>3
  <2>5. CASE InsertService(r)
    BY <1>1, <2>5 DEF InsertService
  <2>6. QED
    BY <2>1, <2>2, <2>3, <2>4, <2>5 DEF Proceed
<1> HIDE DEF Keeps
<1>7. PICK row : /\ Overwrite(r, t, row) /\ DOMAIN row = Columns[t] /\ Keeps(row)
                 /\ t = "channels" => HasToken(row)
  BY <1>6
<1>8. x.ask.id \in DOMAIN db[t] /\ db'[t][x.ask.id] = row
  BY <1>7, OverwriteStable DEF Sound
<1>9. QED
  BY <1>7, <1>8 DEF Keeps

(* Whatever is done, it is the step of one request.                        *)
LEMMA OneGoes ==
  ASSUME NEW s, Proceed(s) \/ Abandon(s) \/ (\E q \in Asks : Ask(s, q))
                  \/ (\E q \in Asks : ExportGroups(s, q) \/ StartImport(s, q))
                  \/ Export(s) \/ Import(s)
  PROVE  \E x, rows : Go(s, x, rows)
<1>1. \A t, row, y : Insert(s, t, row, y) => \E x, rows : Go(s, x, rows)
  BY DEF Insert
<1>2. \A t, row : Overwrite(s, t, row) => \E x, rows : Go(s, x, rows)
  BY DEF Overwrite
<1>3. CASE Proceed(s)
  BY <1>1, <1>2, <1>3
     DEF Proceed, WriteGroup, InsertService, WriteService, WriteLink, WriteChannel
<1>4. CASE Abandon(s)
  BY <1>4 DEF Abandon
<1>5. CASE \E q \in Asks : Ask(s, q)
  BY <1>1, <1>5
     DEF Ask, CreateGroup, ReadGroup, DeleteGroup, CheckUnit, ReadService, DeleteService,
         ReorderServices, CreateLink, ReadLink, DeleteLink, ReorderLinks, CreateChannel,
         ReadChannel, DeleteChannel, Read, Reorder
<1>6. CASE \E q \in Asks : ExportGroups(s, q) \/ StartImport(s, q)
  BY <1>6 DEF ExportGroups, StartImport
<1>7. CASE Export(s)
  BY <1>7 DEF Export, ExportServices, ExportLinks, ExportChannels
<1>8. CASE Import(s)
  BY <1>1, <1>8
     DEF Import, ImportGroup, AddGroup, ReadGroupIds, ImportService, AddService, ImportLink,
         ImportChannel, EndImport
<1>9. QED
  BY <1>3, <1>4, <1>5, <1>6, <1>7, <1>8

(* So a request that changes its pc is the one that steps.                 *)
LEMMA OwnStep ==
  ASSUME Sound, NEW r \in Reqs, NEW s \in Reqs, NEW x, NEW rows, Go(s, x, rows),
         reqs'[r].pc # reqs[r].pc
  PROVE  s = r
<1>1. CASE s # r
  <2>1. reqs'[r] = Noted(reqs[r], rows) /\ Form(reqs[r])
    BY <1>1 DEF Go, Sound, Knows
  <2>2. CASE reqs[r] = Idle
    BY <2>1, <2>2 DEF Noted
  <2>3. CASE reqs[r] # Idle
    BY <2>1, <2>3, NotedFields
  <2>4. QED
    BY <2>2, <2>3
<1>2. QED
  BY <1>1

(* A request that ends its update has made the UPDATE, or none.            *)
LEMMA WritingProceeds ==
  ASSUME Sound, NEW r \in Reqs, NEW t, Next, Writing(r, t), db' # db
  PROVE  Proceed(r)
<1> DEFINE Step(s) ==
             \/ Proceed(s) \/ Abandon(s) \/ (\E q \in Asks : Ask(s, q))
             \/ (\E q \in Asks : ExportGroups(s, q) \/ StartImport(s, q))
             \/ Export(s) \/ Import(s)
<1>1. PICK s \in Reqs : Step(s)
  BY DEF Next
<1>2. reqs[r].pc = "write" /\ reqs'[r].pc = "idle" /\ reqs[r] # Idle
  BY DEF Writing, Idle
<1>3. s = r
  BY <1>1, <1>2, OneGoes, OwnStep
<1>4. ~Abandon(r)
  BY DEF Abandon
<1>5. ~(\E q \in Asks : Ask(r, q))
  BY <1>2
     DEF Ask, CreateGroup, ReadGroup, DeleteGroup, CheckUnit, ReadService, DeleteService,
         ReorderServices, CreateLink, ReadLink, DeleteLink, ReorderLinks, CreateChannel,
         ReadChannel, DeleteChannel, Read, Reorder, Asking
<1>6. ~(\E q \in Asks : ExportGroups(r, q) \/ StartImport(r, q))
  BY <1>2 DEF ExportGroups, StartImport, Asking
<1>7. ~Export(r) /\ ~Import(r)
  BY <1>2 DEF Export, ExportServices, ExportLinks, ExportChannels, Import, ImportGroup, AddGroup,
              ReadGroupIds, ImportService, AddService, ImportLink, ImportChannel, EndImport
<1>8. QED
  BY <1>1, <1>3, <1>4, <1>5, <1>6, <1>7

LEMMA StepKeepsFields ==
  ASSUME Sound, Next, NEW r \in Reqs, NEW t \in Tables, Writing(r, t), db' # db,
         NEW f \in DOMAIN db[t][reqs[r].ask.id] \ ((DOMAIN reqs[r].ask.sent) \cup {"imported"}),
         db'[t][reqs[r].ask.id][f] # db[t][reqs[r].ask.id][f]
  PROVE  /\ <<t, reqs[r].ask.id>> \in reqs[r].since
         /\ db'[t][reqs[r].ask.id][f] = reqs[r].row[f]
<1>1. Proceed(r)
  BY WritingProceeds
<1>2. /\ reqs[r].ask.id \in DOMAIN db[t]
      /\ \A g \in Columns[t] \ ((DOMAIN reqs[r].ask.sent) \cup {"imported"}) :
           db'[t][reqs[r].ask.id][g] = reqs[r].row[g]
  BY <1>1, Written
<1>3. DOMAIN db[t][reqs[r].ask.id] = Columns[t]
  BY <1>2 DEF Sound, Stable, Shaped
<1>4. db'[t][reqs[r].ask.id][f] = reqs[r].row[f]
  BY <1>2, <1>3
<1>5. <<t, reqs[r].ask.id>> \in reqs[r].since
  BY <1>2, <1>4 DEF Writing, Sound, Knows, Current
<1>6. QED
  BY <1>4, <1>5

(* An update loses a column that it was not sent only when another request *)
(* wrote the row after it was read (the merges of services.rs:503,         *)
(* groups.rs:161, quick_links.rs:125 and notifications.rs:193).            *)
THEOREM UpdatesKeepFields == Spec => FieldsKept
<1>1. Sound /\ [Next]_vars =>
        [\A r \in Reqs, t \in Tables :
           Writing(r, t) /\ db' # db =>
             LET x   == reqs[r]
                 i   == x.ask.id
                 old == db[t][i]
                 new == db'[t][i]
             IN  \A f \in (DOMAIN old) \ ((DOMAIN x.ask.sent) \cup {"imported"}) :
                   new[f] # old[f] => <<t, i>> \in x.since /\ new[f] = x.row[f]]_catalogVars
  BY StepKeepsFields DEF vars, catalogVars
<1>2. QED
  BY <1>1, AlwaysSound, PTL DEF Spec, FieldsKept

-----------------------------------------------------------------------------
(* What an import adds                                                     *)

(* A row whose group the import found by name is in the group of that      *)
(* name.                                                                   *)
LEMMA FoundPlaced ==
  ASSUME Sound, NEW r \in Reqs, reqs[r].pc \in {"import", "add"}, reqs[r].ids # None,
         NEW t \in {"services", "links"}, NEW name, NEW row,
         row.group = IdOf(reqs[r].ids, name), ~Dangling(t, row)
  PROVE  Placed(reqs[r], row, name)
<1> DEFINE x == reqs[r]
<1>1. Resolves(r)
  BY ImportIs DEF Sound
<1>2. CASE name \in DOMAIN x.ids
  <2>1. row.group = x.ids[name] /\ row.group \in Nat /\ row.group # None
    BY <1>1, <1>2, CatalogAssumption DEF IdOf, Resolves
  <2>2. row.group \in DOMAIN db.groups
    BY <2>1 DEF Dangling
  <2>3. QED
    BY <1>1, <1>2, <2>1, <2>2 DEF Resolves, Placed
<1>3. CASE name \notin DOMAIN x.ids
  BY <1>1, <1>3 DEF IdOf, Resolves, Placed
<1>4. QED
  BY <1>2, <1>3

LEMMA OthersTodo ==
  ASSUME Sound, NEW r \in Reqs, NEW rows, reqs'[r] = Noted(reqs[r], rows),
         reqs[r].pc \in {"import", "add"}
  PROVE  reqs'[r].todo = reqs[r].todo
<1>1. ImportForm(reqs[r]) /\ reqs[r] # Idle
  BY ImportIs DEF Sound, Idle
<1>2. QED
  BY <1>1, NotedFields DEF Form, ImportForm

(* The rows that there were stay as they are, and the ones added are       *)
(* placed.                                                                 *)
Added(r) ==
  \A t \in Tables :
    /\ \A i \in DOMAIN db[t] : i \in DOMAIN db'[t] /\ db'[t][i] = db[t][i]
    /\ t \in {"services", "links"} =>
         \A i \in DOMAIN db'[t] \ DOMAIN db[t] :
           \E j \in reqs[r].todo[t] :
             Placed(reqs[r], db'[t][i], reqs[r].bundle[t][j].group)

LEMMA InsertAdds ==
  ASSUME Sound, NEW r \in Reqs, reqs[r].pc \in {"import", "add"}, NEW t \in Tables,
         NEW row, NEW x, Insert(r, t, row, x), DOMAIN row = Columns[t],
         t = "channels" => HasToken(row),
         t \in {"services", "links"} =>
           \E j \in reqs[r].todo[t] :
             /\ reqs[r].ids # None
             /\ row.group = IdOf(reqs[r].ids, reqs[r].bundle[t][j].group)
  PROVE  Added(r)
<1>1. /\ \A u \in Tables \ {t} : db'[u] = db[u]
      /\ \A i \in DOMAIN db[t] : i \in DOMAIN db'[t] /\ db'[t][i] = db[t][i]
      /\ \A i \in DOMAIN db'[t] \ DOMAIN db[t] : db'[t][i] = row /\ ~Dangling(t, row)
  BY InsertStable DEF Sound
<1>2. ASSUME t \in {"services", "links"}, ~Dangling(t, row)
      PROVE  \E j \in reqs[r].todo[t] : Placed(reqs[r], row, reqs[r].bundle[t][j].group)
  BY <1>2, FoundPlaced
<1>3. QED
  BY <1>1, <1>2 DEF Added

LEMMA StepAdds ==
  ASSUME Sound, NEW r \in Reqs, Import(r), Importer(r)
  PROVE  Added(r)
<1> DEFINE x == reqs[r]
<1>1. x.pc \in {"import", "add"} /\ ImportForm(x)
  BY ImportIs DEF Importer, Sound
<1>2. CASE UNCHANGED db
  BY <1>2 DEF Added
<1>3. CASE AddGroup(r)
  <2>1. x.item \in DOMAIN x.bundle.groups
    BY <1>1, <1>3, TablesApart DEF AddGroup, ImportForm
  <2>2. DOMAIN x.bundle.groups[x.item] = Columns["groups"]
    BY <1>1, <2>1, TablesApart DEF ImportForm, Shaped
  <2>3. QED
    BY <1>1, <1>3, <2>2, TablesApart, InsertAdds DEF AddGroup
<1>4. CASE AddService(r)
  <2>1. x.item \in x.todo["services"] /\ x.ids # None
    BY <1>1, <1>4 DEF AddService, ImportForm
  <2>2. /\ DOMAIN Resolved(x, "services", x.item) = Columns["services"]
        /\ Resolved(x, "services", x.item).group
             = IdOf(x.ids, x.bundle["services"][x.item].group)
    BY <1>1, <2>1, ResolvedShape
  <2>3. QED
    BY <1>1, <1>4, <2>1, <2>2, TablesApart, InsertAdds DEF AddService
<1>5. CASE ImportLink(r)
  <2>1. PICK i \in x.todo["links"] :
          Insert(r, "links", Resolved(x, "links", i), Done(x, "links", i))
    BY <1>5 DEF ImportLink
  <2>2. /\ DOMAIN Resolved(x, "links", i) = Columns["links"] /\ x.ids # None
        /\ Resolved(x, "links", i).group = IdOf(x.ids, x.bundle["links"][i].group)
    BY <1>1, <1>5, ResolvedShape DEF ImportLink
  <2>3. QED
    BY <1>1, <2>1, <2>2, TablesApart, InsertAdds
<1>6. CASE ImportChannel(r)
  <2>1. PICK i \in x.todo.channels :
          \/ Insert(r, "channels", Public(x.bundle.channels[i]), Done(x, "channels", i))
          \/ UNCHANGED db
    BY <1>6 DEF ImportChannel
  <2>2. DOMAIN x.bundle.channels[i] = Columns["channels"]
    BY <1>1, TablesApart DEF ImportForm, Shaped
  <2>3. /\ DOMAIN Public(x.bundle.channels[i]) = Columns["channels"]
        /\ HasToken(Public(x.bundle.channels[i]))
    BY <2>2 DEF Public, HasToken, Columns
  <2>4. QED
    BY <1>1, <1>2, <2>1, <2>3, TablesApart, InsertAdds
<1>7. QED
  BY <1>2, <1>3, <1>4, <1>5, <1>6 DEF Import, ImportGroup, ReadGroupIds, ImportService, EndImport

LEMMA ImporterImports ==
  ASSUME Sound, NEW r \in Reqs, Next, Importer(r)
  PROVE  Import(r)
<1> DEFINE Step(s) ==
             \/ Proceed(s) \/ Abandon(s) \/ (\E q \in Asks : Ask(s, q))
             \/ (\E q \in Asks : ExportGroups(s, q) \/ StartImport(s, q))
             \/ Export(s) \/ Import(s)
<1>1. PICK s \in Reqs : Step(s)
  BY DEF Next
<1>2. reqs[r].pc \in {"import", "add"} /\ reqs'[r].pc = "import" /\ reqs[r] # Idle
  BY DEF Importer, Idle
<1>3. s = r
  <2>1. PICK x, rows : Go(s, x, rows)
    BY <1>1, OneGoes
  <2>2. s # r => reqs'[r] = Noted(reqs[r], rows)
    BY <2>1 DEF Go
  <2>3. QED
    BY <1>2, <2>2, OthersTodo DEF Importer
<1>4. ~Abandon(r)
  BY <1>2 DEF Abandon, Go, Idle
<1>5. ~(\E q \in Asks : Ask(r, q))
  BY <1>2
     DEF Ask, CreateGroup, ReadGroup, DeleteGroup, CheckUnit, ReadService, DeleteService,
         ReorderServices, CreateLink, ReadLink, DeleteLink, ReorderLinks, CreateChannel,
         ReadChannel, DeleteChannel, Read, Reorder, Asking
<1>6. ~(\E q \in Asks : ExportGroups(r, q) \/ StartImport(r, q))
  BY <1>2 DEF ExportGroups, StartImport, Asking
<1>7. ~Export(r) /\ ~Proceed(r)
  BY <1>2 DEF Export, ExportServices, ExportLinks, ExportChannels, Proceed, WriteGroup,
              InsertService, WriteService, WriteLink, WriteChannel
<1>8. QED
  BY <1>1, <1>3, <1>4, <1>5, <1>6, <1>7

(* An import neither deletes nor overwrites rows, and what it adds is in   *)
(* the group the bundle names, unless the group changed since the import   *)
(* read the groups (config_export.rs:190).                                 *)
THEOREM ImportsAdd == Spec => ImportAdds
<1>1. Sound /\ [Next]_vars => [\A r \in Reqs : Importer(r) => Added(r)]_vars
  BY ImporterImports, StepAdds
<1>2. QED
  BY <1>1, AlwaysSound, PTL DEF Spec, ImportAdds, Added
=============================================================================
