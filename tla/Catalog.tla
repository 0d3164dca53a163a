------------------------------ MODULE Catalog ------------------------------
(***************************************************************************)
(* What an administrator keeps: groups, services, quick links and          *)
(* notification channels (api/groups.rs, services.rs, quick_links.rs and   *)
(* notifications.rs over the tables of db/migrations).                     *)
(*                                                                         *)
(* A handler is one SQL statement after another, and the statements of     *)
(* other requests run in between.  An update is a SELECT of the row, a     *)
(* merge of the fields the client sent, and an UPDATE of every column.     *)
(*                                                                         *)
(* A table is a function on the ids of its rows.  Of a row's columns the   *)
(* ones kept are those a constraint or a handler looks at; note stands for *)
(* the nullable texts, such as description, url and icon.                  *)
(***************************************************************************)
EXTENDS Naturals

CONSTANTS
  None,
  Reqs,        \* bound: requests at a time
  Asks,        \* what clients ask for
  MaxAsks,     \* bound: requests in all
  MaxFaults,   \* bound: statements that fail
  TokenKinds,  \* kinds of channel that need a token: requires_secret
  Kinds,       \* VALID_KINDS
  Stored       \* the catalogs a server may start from

ASSUME CatalogAssumption ==
  /\ TokenKinds \subseteq Kinds
  /\ None \notin Kinds /\ None \notin Nat
  /\ MaxAsks \in Nat /\ MaxFaults \in Nat

VARIABLES
  db,      \* the four tables
  serial,  \* AUTOINCREMENT: the last id given out in each table
  reqs,    \* the local variables of each request
  asked,
  faults

catalogVars == <<db, serial, reqs, asked, faults>>

Tables == {"groups", "services", "links", "channels"}

Columns ==
  [groups   |-> {"name", "note"},
   services |-> {"unit", "name", "note", "group", "order"},
   links    |-> {"name", "note", "group", "order"},
   channels |-> {"kind", "secret", "on", "imported"}]

(* The rows of d, the tables of a server or of a bundle, have the columns. *)
Shaped(d) ==
  /\ DOMAIN d = Tables
  /\ \A t \in Tables : \A i \in DOMAIN d[t] : DOMAIN d[t][i] = Columns[t]

(* What a client posts has the fields of its type.                         *)
ASSUME AsksAssumption ==
  \A q \in Asks :
    /\ q.op = "create" => q.table \in Tables /\ DOMAIN q.row = Columns[q.table]
    /\ q.op = "update" => q.table \in Tables
    /\ q.op = "import" => q.bundle = None \/ Shaped(q.bundle)

-----------------------------------------------------------------------------
(* Tables                                                                  *)

Put(table, i, row) ==
  [j \in DOMAIN table \cup {i} |-> IF j = i THEN row ELSE table[j]]

Without(table, i) == [j \in DOMAIN table \ {i} |-> table[j]]

(* Mutant: rows keep the id of the group that is deleted.                  *)
Untouched(table, g) == table

(* ON DELETE SET NULL.                                                     *)
Ungrouped(table, g) ==
  [j \in DOMAIN table |-> IF table[j].group = g THEN [table[j] EXCEPT !.group = None]
                                                ELSE table[j]]

(* UNIQUE(name) of groups, and the unique index on the units that are not  *)
(* null.                                                                   *)
Taken(t, i, row) ==
  \/ t = "groups"   /\ \E j \in DOMAIN db[t] \ {i} : db[t][j].name = row.name
  \/ t = "services" /\ row.unit # None /\ \E j \in DOMAIN db[t] \ {i} : db[t][j].unit = row.unit

(* REFERENCES groups(id); sqlx switches foreign keys on.                   *)
Dangling(t, row) ==
  t \in {"services", "links"} /\ row.group \notin DOMAIN db.groups \cup {None}

Refused(t, i, row) == Taken(t, i, row) \/ Dangling(t, row)

-----------------------------------------------------------------------------
(* Requests                                                                *)

Idle == [pc |-> "idle"]

(* Every request on its way keeps, for the properties only, which rows the *)
(* others wrote since it began.  A deleted row is not one: its id never    *)
(* comes back.                                                             *)
Noted(x, rows) == IF x = Idle THEN Idle ELSE [x EXCEPT !.since = @ \cup rows]

(* Request r goes on as x, having written rows.                            *)
Go(r, x, rows) ==
  reqs' = [s \in Reqs |-> IF s = r THEN x ELSE Noted(reqs[s], rows)]

Asking(r, q) ==
  /\ q \in Asks /\ reqs[r] = Idle /\ asked < MaxAsks
  /\ asked' = asked + 1

(* A request that has read something and will write.                       *)
Reading(pc, ask, row) == [pc |-> pc, ask |-> ask, row |-> row, since |-> {}]

Fault == faults < MaxFaults /\ faults' = faults + 1

(* An INSERT: the row gets the next id, or the schema refuses it.  Either  *)
(* way the request goes on as x.                                           *)
Insert(r, t, row, x) ==
  LET i == serial[t] + 1 IN
  \/ /\ ~Refused(t, i, row)
     /\ db' = [db EXCEPT ![t] = Put(@, i, row)]
     /\ serial' = [serial EXCEPT ![t] = i]
     /\ Go(r, x, {<<t, i>>})
  \/ Refused(t, i, row) /\ Go(r, x, {}) /\ UNCHANGED <<db, serial>>

(* The UPDATE of all columns, which ends a request.  A row deleted since   *)
(* it was read matches no id: the request is answered as if it was there.  *)
Overwrite(r, t, row) ==
  LET i == reqs[r].ask.id IN
  /\ \/ /\ i \in DOMAIN db[t] /\ ~Refused(t, i, row)
        /\ db' = [db EXCEPT ![t] = Put(@, i, row)]
        /\ Go(r, Idle, {<<t, i>>})
     \/ (i \in DOMAIN db[t] => Refused(t, i, row)) /\ Go(r, Idle, {}) /\ UNCHANGED db
  /\ UNCHANGED <<serial, asked, faults>>

(* Mutant: a column that was not sent is set to its default.               *)
Reset(row, sent) ==
  [f \in DOMAIN row |-> IF f \in DOMAIN sent THEN sent[f]
                        ELSE IF f \in {"note", "group"} THEN None ELSE row[f]]

(* payload.x.unwrap_or(existing.x), column by column.                      *)
Merged(row, sent) ==
  [f \in DOMAIN row |-> IF f \in DOMAIN sent THEN sent[f] ELSE row[f]]

(* An empty text, when it is sent, clears the column.                      *)
Cleared(sent) ==
  IF "note" \in DOMAIN sent /\ sent.note = "" THEN [sent EXCEPT !.note = None] ELSE sent

(* The SELECT of an update: no row, and the answer is 404.                 *)
Read(r, q, t) ==
  /\ Asking(r, q)
  /\ q.id \in DOMAIN db[t]
  /\ Go(r, Reading("write", q, db[t][q.id]), {})
  /\ UNCHANGED <<db, serial, faults>>

(* A reorder is one transaction: every item, or none when a statement      *)
(* fails.  An item whose row is gone matches nothing.                      *)
Reorder(r, q, t) ==
  LET hit == DOMAIN q.items \cap DOMAIN db[t] IN
  /\ Asking(r, q)
  /\ q.items # << >>
  /\ db' = [db EXCEPT ![t] = [i \in DOMAIN db[t] |->
              IF i \in hit THEN [db[t][i] EXCEPT !.order = q.items[i]] ELSE db[t][i]]]
  /\ Go(r, Idle, {t} \X hit)
  /\ UNCHANGED <<serial, faults>>

(* The client goes away, and the handler is dropped where it waits.        *)
Abandon(r) ==
  /\ reqs[r] # Idle
  /\ Go(r, Idle, {})
  /\ UNCHANGED <<db, serial, asked, faults>>

-----------------------------------------------------------------------------
(* groups.rs                                                               *)

CreateGroup(r, q) ==
  /\ q.op = "create" /\ q.table = "groups"
  /\ Asking(r, q)
  /\ Insert(r, "groups", q.row, Idle)
  /\ UNCHANGED faults

ReadGroup(r, q) == q.op = "update" /\ q.table = "groups" /\ Read(r, q, "groups")

WriteGroup(r) ==
  /\ reqs[r].pc = "write" /\ reqs[r].ask.table = "groups"
  /\ Overwrite(r, "groups", Merged(reqs[r].row, reqs[r].ask.sent))

DeleteGroup(r, q) ==
  /\ q.op = "delete" /\ q.table = "groups"
  /\ Asking(r, q)
  /\ db' = [db EXCEPT !.groups   = Without(@, q.id),
                      !.services = Ungrouped(@, q.id),
                      !.links    = Ungrouped(@, q.id)]
  /\ Go(r, Idle, UNION {{t} \X {i \in DOMAIN db[t] : db[t][i].group = q.id} :
                           t \in {"services", "links"}})
  /\ UNCHANGED <<serial, faults>>

-----------------------------------------------------------------------------
(* services.rs                                                             *)

(* Is the unit claimed?  A query that fails counts as no.                  *)
CheckUnit(r, q) ==
  /\ q.op = "create" /\ q.table = "services"
  /\ Asking(r, q)
  /\ LET claimed == q.row.unit # None /\ Taken("services", 0, q.row) IN
     \/ ~claimed /\ Go(r, Reading("insert", q, None), {}) /\ UNCHANGED faults
     \/ claimed /\ Go(r, Idle, {}) /\ UNCHANGED faults
     \/ claimed /\ Go(r, Reading("insert", q, None), {}) /\ Fault
  /\ UNCHANGED <<db, serial>>

InsertService(r) ==
  /\ reqs[r].pc = "insert"
  /\ Insert(r, "services", reqs[r].ask.row, Idle)
  /\ UNCHANGED <<asked, faults>>

ReadService(r, q) == q.op = "update" /\ q.table = "services" /\ Read(r, q, "services")

WriteService(r) ==
  /\ reqs[r].pc = "write" /\ reqs[r].ask.table = "services"
  /\ Overwrite(r, "services", Merged(reqs[r].row, Cleared(reqs[r].ask.sent)))

DeleteService(r, q) ==
  /\ q.op = "delete" /\ q.table = "services"
  /\ Asking(r, q)
  /\ db' = [db EXCEPT !.services = Without(@, q.id)]
  /\ Go(r, Idle, {})
  /\ UNCHANGED <<serial, faults>>

ReorderServices(r, q) == q.op = "reorder" /\ q.table = "services" /\ Reorder(r, q, "services")

-----------------------------------------------------------------------------
(* quick_links.rs                                                          *)

CreateLink(r, q) ==
  /\ q.op = "create" /\ q.table = "links"
  /\ Asking(r, q)
  /\ Insert(r, "links", q.row, Idle)
  /\ UNCHANGED faults

ReadLink(r, q) == q.op = "update" /\ q.table = "links" /\ Read(r, q, "links")

WriteLink(r) ==
  /\ reqs[r].pc = "write" /\ reqs[r].ask.table = "links"
  /\ Overwrite(r, "links", Merged(reqs[r].row, Cleared(reqs[r].ask.sent)))

DeleteLink(r, q) ==
  /\ q.op = "delete" /\ q.table = "links"
  /\ Asking(r, q)
  /\ db' = [db EXCEPT !.links = Without(@, q.id)]
  /\ Go(r, Idle, {})
  /\ UNCHANGED <<serial, faults>>

ReorderLinks(r, q) == q.op = "reorder" /\ q.table = "links" /\ Reorder(r, q, "links")

-----------------------------------------------------------------------------
(* notifications.rs                                                        *)

(* Mutant: the token is not asked for.                                     *)
AnyKind(row) == row.kind \in Kinds

(* VALID_KINDS, and requires_secret with a secret that is empty or absent. *)
Acceptable(row) ==
  row.kind \in Kinds /\ (row.kind \in TokenKinds => row.secret \notin {None, ""})

CreateChannel(r, q) ==
  /\ q.op = "create" /\ q.table = "channels"
  /\ Asking(r, q)
  /\ Acceptable(q.row)
  /\ Insert(r, "channels", q.row, Idle)
  /\ UNCHANGED faults

ReadChannel(r, q) == q.op = "update" /\ q.table = "channels" /\ Read(r, q, "channels")

(* What is judged, and written, is the row that was read with the fields   *)
(* sent.  Once it has been judged, the row does not owe its secret to an   *)
(* import.                                                                 *)
WriteChannel(r) ==
  /\ reqs[r].pc = "write" /\ reqs[r].ask.table = "channels"
  /\ LET row == [Merged(reqs[r].row, reqs[r].ask.sent) EXCEPT !.imported = FALSE] IN
     \/ Acceptable(row) /\ Overwrite(r, "channels", row)
     \/ ~Acceptable(row) /\ Go(r, Idle, {}) /\ UNCHANGED <<db, serial, asked, faults>>

DeleteChannel(r, q) ==
  /\ q.op = "delete" /\ q.table = "channels"
  /\ Asking(r, q)
  /\ db' = [db EXCEPT !.channels = Without(@, q.id)]
  /\ Go(r, Idle, {})
  /\ UNCHANGED <<serial, faults>>

-----------------------------------------------------------------------------
(* The schema of the tables d.                                             *)
UniqueIn(d, t) ==
  \A i, j \in DOMAIN d[t] :
    i # j => \/ t = "groups"   /\ d[t][i].name # d[t][j].name
             \/ t = "services" /\ (d[t][i].unit = None \/ d[t][i].unit # d[t][j].unit)

Referenced(d, t) == \A i \in DOMAIN d[t] : d[t][i].group \in DOMAIN d.groups \cup {None}

Consistent(d) ==
  /\ UniqueIn(d, "groups") /\ UniqueIn(d, "services")
  /\ Referenced(d, "services") /\ Referenced(d, "links")

HasToken(channel) ==
  \/ channel.imported
  \/ channel.kind \in TokenKinds => channel.secret \notin {None, ""}

(* A server starts from what a server has left.                            *)
ASSUME StoredAssumption ==
  \A s \in Stored :
    /\ Shaped(s.db) /\ Consistent(s.db)
    /\ \A i \in DOMAIN s.db.channels : HasToken(s.db.channels[i])
    /\ DOMAIN s.serial = Tables
    /\ \A t \in Tables :
         s.serial[t] \in Nat /\ \A i \in DOMAIN s.db[t] : i \in Nat /\ i <= s.serial[t]

CatalogInit ==
  /\ \E s \in Stored : db = s.db /\ serial = s.serial
  /\ reqs = [r \in Reqs |-> Idle]
  /\ asked = 0 /\ faults = 0

(* A step of request r, which may be one that asks for q.                  *)
Ask(r, q) ==
  \/ CreateGroup(r, q) \/ ReadGroup(r, q) \/ DeleteGroup(r, q)
  \/ CheckUnit(r, q) \/ ReadService(r, q) \/ DeleteService(r, q) \/ ReorderServices(r, q)
  \/ CreateLink(r, q) \/ ReadLink(r, q) \/ DeleteLink(r, q) \/ ReorderLinks(r, q)
  \/ CreateChannel(r, q) \/ ReadChannel(r, q) \/ DeleteChannel(r, q)

Proceed(r) ==
  WriteGroup(r) \/ InsertService(r) \/ WriteService(r) \/ WriteLink(r) \/ WriteChannel(r)

-----------------------------------------------------------------------------
(* Properties                                                              *)

(* The schema as every handler may rely on it (001_init.sql, 007 and 008): *)
(* no two groups of one name, no unit claimed twice, and no row that names *)
(* a group that is gone, whoever deletes groups meanwhile.                 *)
Integrity == Consistent(db)

(* A channel of a kind that needs a token has one, though of two updates   *)
(* each judges a row the other is about to replace; unless the row came    *)
(* with an import, which judges nothing (notifications.rs:103, 205).       *)
CredentialHeld == \A i \in DOMAIN db.channels : HasToken(db.channels[i])

(* An update changes a column it was not sent only when another request    *)
(* wrote the row since it read it, and then puts back what it read         *)
(* (the merges of services.rs:503, groups.rs:161, quick_links.rs:125 and   *)
(* notifications.rs:193).                                                  *)
Writing(r, t) == reqs[r].pc = "write" /\ reqs[r].ask.table = t /\ reqs'[r] = Idle

FieldsKept ==
  [][\A r \in Reqs, t \in Tables :
       Writing(r, t) /\ db' # db =>
         LET x   == reqs[r]
             i   == x.ask.id
             old == db[t][i]
             new == db'[t][i]
         IN  \A f \in (DOMAIN old) \ ((DOMAIN x.ask.sent) \cup {"imported"}) :
               new[f] # old[f] => <<t, i>> \in x.since /\ new[f] = x.row[f]]_catalogVars
=============================================================================
