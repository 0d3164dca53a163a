------------------------------- MODULE Backup -------------------------------
(***************************************************************************)
(* Export and import of the catalog (api/config_export.rs), beside the     *)
(* requests of Catalog.                                                    *)
(*                                                                         *)
(* An export reads the tables one after another, an import writes row      *)
(* after row, neither in a transaction.  A bundle has the rows without     *)
(* ids: a service names its group, and the secret of a channel stays home. *)
(* An import takes the rows of a table in any order.                       *)
(***************************************************************************)
EXTENDS Catalog

VARIABLE saved  \* the bundle last exported, and whether it was torn

vars == <<catalogVars, saved>>

-----------------------------------------------------------------------------
(* Export                                                                  *)

(* Mutant: another column of the group is joined.                          *)
Described(table) ==
  [i \in DOMAIN table |->
     [table[i] EXCEPT !.group = IF @ \in DOMAIN db.groups THEN db.groups[@].note ELSE None]]

(* LEFT JOIN groups.                                                       *)
Named(table) ==
  [i \in DOMAIN table |->
     [table[i] EXCEPT !.group = IF @ \in DOMAIN db.groups THEN db.groups[@].name ELSE None]]

Exporting(bundle, since) == [pc |-> "export", bundle |-> bundle, since |-> since]

Bundle(groups, services, links, channels) ==
  [groups |-> groups, services |-> services, links |-> links, channels |-> channels]

(* The rest is not read yet.                                               *)
ExportGroups(r, q) ==
  /\ q.op = "export" /\ Asking(r, q)
  /\ Go(r, Exporting(Bundle(db.groups, None, None, None), {}), {})
  /\ UNCHANGED <<db, serial, faults, saved>>

ExportServices(r) ==
  /\ reqs[r].pc = "export" /\ reqs[r].bundle.services = None
  /\ Go(r, [reqs[r] EXCEPT !.bundle.services = Named(db.services)], {})
  /\ UNCHANGED <<db, serial, asked, faults, saved>>

ExportLinks(r) ==
  /\ reqs[r].pc = "export" /\ reqs[r].bundle.services # None
  /\ reqs[r].bundle.links = None
  /\ Go(r, [reqs[r] EXCEPT !.bundle.links = Named(db.links)], {})
  /\ UNCHANGED <<db, serial, asked, faults, saved>>

Public(channel) == [channel EXCEPT !.secret = None, !.imported = TRUE]

(* The last of it: the channels, without their secrets.                    *)
ExportChannels(r) ==
  /\ reqs[r].pc = "export" /\ reqs[r].bundle.services # None /\ reqs[r].bundle.links # None
  /\ saved' = [bundle |-> [reqs[r].bundle EXCEPT !.channels =
                             [i \in DOMAIN db.channels |-> Public(db.channels[i])]],
               torn |-> \E w \in reqs[r].since : w[1] = "groups"]
  /\ Go(r, Idle, {})
  /\ UNCHANGED <<db, serial, asked, faults>>

-----------------------------------------------------------------------------
(* Import                                                                  *)

(* todo: the rows not dealt with, by table; item: the row whose INSERT is  *)
(* next; ids: the groups by name, None until they are read.                *)
Importing(pc, bundle, todo, item, ids, since) ==
  [pc |-> pc, bundle |-> bundle, todo |-> todo, item |-> item, ids |-> ids, since |-> since]

(* A bundle of another server, or the one saved here.                      *)
StartImport(r, q) ==
  /\ q.op = "import" /\ Asking(r, q)
  /\ q.bundle = None => saved # None
  /\ LET b == IF q.bundle = None THEN saved.bundle ELSE q.bundle
     IN  Go(r, Importing("import", b, [t \in Tables |-> DOMAIN b[t]], None, None, {}), {})
  /\ UNCHANGED <<db, serial, faults, saved>>

(* Row i is dealt with, or about to be inserted.                           *)
Done(x, t, i) ==
  Importing("import", x.bundle, [x.todo EXCEPT ![t] = @ \ {i}], None, x.ids, x.since)

Adding(x, i) == Importing("add", x.bundle, x.todo, i, x.ids, x.since)

(* Is there a group of that name?  If not, it is inserted; when another    *)
(* request was faster, the INSERT fails, and the group is there all the    *)
(* same.                                                                   *)
ImportGroup(r) ==
  /\ reqs[r].pc = "import"
  /\ \E i \in reqs[r].todo.groups :
       Go(r, IF Taken("groups", 0, reqs[r].bundle.groups[i])
             THEN Done(reqs[r], "groups", i) ELSE Adding(reqs[r], i), {})
  /\ UNCHANGED <<db, serial, asked, faults, saved>>

AddGroup(r) ==
  /\ reqs[r].pc = "add" /\ reqs[r].ids = None
  /\ LET x == reqs[r]
     IN  Insert(r, "groups", x.bundle.groups[x.item], Done(x, "groups", x.item))
  /\ UNCHANGED <<asked, faults, saved>>

NamesOf(table) == {table[g].name : g \in DOMAIN table}

(* The groups by name, as they are now; a query that fails is no group.    *)
ReadGroupIds(r) ==
  /\ reqs[r].pc = "import" /\ reqs[r].ids = None /\ reqs[r].todo.groups = {}
  /\ LET x == reqs[r]
         With(ids) == Importing("import", x.bundle, x.todo, None, ids, {})
     IN  \/ /\ Go(r, With([n \in NamesOf(db.groups) |->
                             CHOOSE g \in DOMAIN db.groups : db.groups[g].name = n]), {})
            /\ UNCHANGED faults
         \/ Go(r, With(<< >>), {}) /\ Fault
  /\ UNCHANGED <<db, serial, asked, saved>>

(* Mutant: the id the group had where the bundle comes from.               *)
SameId(ids, name) == IF name \in DOMAIN ids THEN 1 ELSE None

(* group_ids.get(name).                                                    *)
IdOf(ids, name) == IF name \in DOMAIN ids THEN ids[name] ELSE None

Resolved(x, t, i) == [x.bundle[t][i] EXCEPT !.group = IdOf(x.ids, @)]

(* A service whose unit is claimed is skipped, and so is one whose query   *)
(* fails.                                                                  *)
ImportService(r) ==
  /\ reqs[r].pc = "import" /\ reqs[r].ids # None
  /\ \E i \in reqs[r].todo.services :
       LET x       == reqs[r]
           row     == x.bundle.services[i]
           claimed == row.unit # None /\ Taken("services", 0, row)
       IN  \/ ~claimed /\ Go(r, Adding(x, i), {}) /\ UNCHANGED faults
           \/ claimed /\ Go(r, Done(x, "services", i), {}) /\ UNCHANGED faults
           \/ row.unit # None /\ ~claimed /\ Go(r, Done(x, "services", i), {}) /\ Fault
  /\ UNCHANGED <<db, serial, asked, saved>>

AddService(r) ==
  /\ reqs[r].pc = "add" /\ reqs[r].ids # None
  /\ LET x == reqs[r]
     IN  Insert(r, "services", Resolved(x, "services", x.item), Done(x, "services", x.item))
  /\ UNCHANGED <<asked, faults, saved>>

ImportLink(r) ==
  /\ reqs[r].pc = "import" /\ reqs[r].ids # None /\ reqs[r].todo.services = {}
  /\ \E i \in reqs[r].todo.links :
       Insert(r, "links", Resolved(reqs[r], "links", i), Done(reqs[r], "links", i))
  /\ UNCHANGED <<asked, faults, saved>>

(* A kind this version does not know is skipped; a token is not asked for. *)
ImportChannel(r) ==
  /\ reqs[r].pc = "import" /\ reqs[r].ids # None
  /\ reqs[r].todo.services = {} /\ reqs[r].todo.links = {}
  /\ \E i \in reqs[r].todo.channels :
       LET row  == reqs[r].bundle.channels[i]
           done == Done(reqs[r], "channels", i)
       IN  \/ row.kind \in Kinds /\ Insert(r, "channels", Public(row), done)
           \/ row.kind \notin Kinds /\ Go(r, done, {}) /\ UNCHANGED <<db, serial>>
  /\ UNCHANGED <<asked, faults, saved>>

(* The summary is answered.                                                *)
EndImport(r) ==
  /\ reqs[r].pc = "import" /\ reqs[r].ids # None
  /\ \A t \in Tables : reqs[r].todo[t] = {}
  /\ Go(r, Idle, {})
  /\ UNCHANGED <<db, serial, asked, faults, saved>>

-----------------------------------------------------------------------------
Init == CatalogInit /\ saved = None

Export(r) == ExportServices(r) \/ ExportLinks(r) \/ ExportChannels(r)

Import(r) ==
  \/ ImportGroup(r) \/ AddGroup(r) \/ ReadGroupIds(r) \/ ImportService(r) \/ AddService(r)
  \/ ImportLink(r) \/ ImportChannel(r) \/ EndImport(r)

Next ==
  \E r \in Reqs :
    \/ (Proceed(r) \/ Abandon(r)) /\ UNCHANGED saved
    \/ \E q \in Asks : Ask(r, q) /\ UNCHANGED saved
    \/ \E q \in Asks : ExportGroups(r, q) \/ StartImport(r, q)
    \/ Export(r) \/ Import(r)

Spec == Init /\ [][Next]_vars

-----------------------------------------------------------------------------
(* Properties                                                              *)

(* An export names only groups it carries, so that an import elsewhere     *)
(* finds them: unless a group was created or renamed while it was written, *)
(* for the four SELECTs are not one transaction (config_export.rs:90).     *)
BundleClosed ==
  saved # None /\ ~saved.torn =>
    \A t \in {"services", "links"} : \A i \in DOMAIN saved.bundle[t] :
      saved.bundle[t][i].group \in NamesOf(saved.bundle.groups) \cup {None}

(* An import "never deletes or overwrites existing rows", and what it adds *)
(* is in the group the bundle names.  It may be in none, or in one renamed *)
(* meanwhile, when the group changed since the import read the groups, or  *)
(* when that read failed (config_export.rs:190).                           *)
Importer(r) == reqs[r].pc \in {"import", "add"} /\ reqs'[r].pc = "import"
               /\ reqs'[r].todo # reqs[r].todo

Placed(x, row, name) ==
  IF row.group = None
  THEN \/ name = None \/ x.ids = << >>
       \/ \A g \in DOMAIN db.groups : db.groups[g].name = name => <<"groups", g>> \in x.since
  ELSE db.groups[row.group].name = name \/ <<"groups", row.group>> \in x.since

ImportAdds ==
  [][\A r \in Reqs : Importer(r) =>
       \A t \in Tables :
         /\ \A i \in DOMAIN db[t] : i \in DOMAIN db'[t] /\ db'[t][i] = db[t][i]
         /\ t \in {"services", "links"} =>
              \A i \in DOMAIN db'[t] \ DOMAIN db[t] :
                \E j \in reqs[r].todo[t] :
                  Placed(reqs[r], db'[t][i], reqs[r].bundle[t][j].group)]_vars
=============================================================================
