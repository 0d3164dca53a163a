----------------------------- MODULE MCAccounts -----------------------------
(* Accounts on small instances: the databases a server may be started on.  *)
EXTENDS Accounts, TLC

CONSTANTS alice, bob

Account(i, name, role) == [id |-> i, name |-> name, role |-> role]
Login1(i, u) ==
  [sid |-> i, name |-> u.name, role |-> u.role, uid |-> u.id, late |-> FALSE]

MCNames == {alice, bob}

(* A fresh installation.                                                   *)
Empty == [mode |-> "session", users |-> {}, sessions |-> {}, lastId |-> 0, lastSid |-> 0]

(* The same without a login.                                               *)
OpenEmpty == [Empty EXCEPT !.mode = "none"]

(* Two admins, both logged in.                                             *)
TwoAdmins ==
  LET a == Account(1, alice, "admin")
      b == Account(2, bob, "admin")
  IN  [mode |-> "session", users |-> {a, b}, sessions |-> {Login1(1, a), Login1(2, b)},
       lastId |-> 2, lastSid |-> 2]

(* An admin and a viewer, both logged in.                                  *)
AdminAndViewer ==
  LET a == Account(1, alice, "admin")
      b == Account(2, bob, "viewer")
  IN  [mode |-> "session", users |-> {a, b}, sessions |-> {Login1(1, a), Login1(2, b)},
       lastId |-> 2, lastSid |-> 2]

MCDatabases == {Empty, OpenEmpty, TwoAdmins, AdminAndViewer}

MCSymmetry == Permutations(Reqs)
=============================================================================
