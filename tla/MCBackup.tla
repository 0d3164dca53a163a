------------------------------ MODULE MCBackup ------------------------------
(* Backup on a small catalog: one group with a service and a link in it,   *)
(* and one channel.                                                        *)
EXTENDS Backup, TLC

Group(name, note) == [name |-> name, note |-> note]
Item(unit, name, note, group, order) ==
  [unit |-> unit, name |-> name, note |-> note, group |-> group, order |-> order]
Link(name, note, group, order) ==
  [name |-> name, note |-> note, group |-> group, order |-> order]
Channel(kind, secret, on) ==
  [kind |-> kind, secret |-> secret, on |-> on, imported |-> FALSE]
Exported(kind) == [kind |-> kind, secret |-> None, on |-> TRUE, imported |-> TRUE]

MCStored ==
  { [db     |-> [groups   |-> 1 :> Group("media", "n"),
                 services |-> 1 :> Item("u", "web", "n", 1, 0),
                 links    |-> 1 :> Link("wiki", "", 1, 0),
                 channels |-> 1 :> Channel("webhook", None, TRUE)],
     serial |-> [t \in Tables |-> 1]] }

Ups(t, sents) == {[op |-> "update", table |-> t, id |-> 1, sent |-> s] : s \in sents}
New(t, rows)  == {[op |-> "create", table |-> t, row |-> x] : x \in rows}
Del(t)        == {[op |-> "delete", table |-> t, id |-> 1]}
Drag(t)       == {[op |-> "reorder", table |-> t, items |-> 1 :> 3]}

(* A bundle of another server.                                             *)
Upload ==
  Bundle(1 :> Group("infra", None),
         1 :> Item("v", "db", None, "infra", 0),
         << >>,
         1 :> Exported("telegram") @@ 2 :> Exported("pager"))

MCAsks ==
  Ups("groups", {"name" :> "infra"})
  \cup Ups("services", {"note" :> "", "group" :> None})
  \cup Ups("links", {"group" :> None})
  \cup Ups("channels", {"kind" :> "telegram", "secret" :> "s", "secret" :> None})
  \cup New("groups", {Group("infra", None)})
  \cup New("services", {Item("u", "new", None, 1, 0)})
  \cup New("links", {Link("new", None, 1, 0)})
  \cup New("channels", {Channel("telegram", "s", TRUE), Channel("gotify", "", TRUE)})
  \cup Del("groups") \cup Del("services") \cup Del("links") \cup Del("channels")
  \cup Drag("services") \cup Drag("links")
  \cup {[op |-> "export"], [op |-> "import", bundle |-> Upload], [op |-> "import", bundle |-> None]}

MCSymmetry == Permutations(Reqs)
=============================================================================
