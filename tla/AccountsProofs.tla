--------------------------- MODULE AccountsProofs ---------------------------
(***************************************************************************)
(* Proofs about accounts and sessions, for any names, any databases a      *)
(* server may be started on, any number of requests in flight and any      *)
(* bounds.                                                                 *)
(***************************************************************************)
EXTENDS Accounts, FiniteSetTheorems, TLAPS

(* What the local variables of a request are, by the step it is at.        *)
LEMMA LocalsAt ==
  ASSUME NEW q \in Locals
  PROVE  /\ q.pc \in {"setupCount", "setupInsert", "login"} => q \in NameLocals
         /\ q.pc \in {"cycle", "save"} => q \in LoginLocals
         /\ q.pc = "authorize" => q \in AuthLocals
         /\ q.pc \in {"createCheck", "createInsert"} => q \in CreateLocals
         /\ q.pc = "read" => q \in ReadLocals
         /\ q.pc \in {"countAdmins", "write"} => q \in ChangeLocals
         /\ q.pc = "nameCheck" => q \in CheckLocals
         /\ q.pc = "revoke" => q \in RevokeLocals
         /\ q.pc = "revoking" => q \in RowsLocals
         /\ q.pc = "me" => q \in MeLocals
         /\ q.pc \in {"meCheck", "meWrite"} => q \in RenameLocals
         /\ q.pc = "meFlush" => q \in FlushLocals
  BY DEF Locals, NoReq, NameLocals, LoginLocals, AuthLocals, CreateLocals, ReadLocals,
         ChangeLocals, CheckLocals, RevokeLocals, RowsLocals, MeLocals, RenameLocals, FlushLocals

LEMMA GoType ==
  ASSUME TypeOK, NEW r \in Reqs, NEW l \in Locals, Go(r, l)
  PROVE  reqs' \in [Reqs -> Locals]
  BY DEF TypeOK, Go

LEMMA ReturnType ==
  ASSUME TypeOK, NEW r \in Reqs, Return(r)
  PROVE  reqs' \in [Reqs -> Locals]
  BY GoType DEF Return, Locals

LEMMA CountType ==
  ASSUME TypeOK
  PROVE  /\ [count EXCEPT !.id = @ + 1] \in [id : Nat, sid : Nat, reqs : Nat, aborts : Nat]
         /\ [count EXCEPT !.sid = @ + 1] \in [id : Nat, sid : Nat, reqs : Nat, aborts : Nat]
         /\ [count EXCEPT !.reqs = @ + 1] \in [id : Nat, sid : Nat, reqs : Nat, aborts : Nat]
         /\ [count EXCEPT !.aborts = @ + 1] \in [id : Nat, sid : Nat, reqs : Nat, aborts : Nat]
         /\ [count EXCEPT !.id = @ + 1].id = count.id + 1
         /\ [count EXCEPT !.sid = @ + 1].id = count.id
         /\ [count EXCEPT !.reqs = @ + 1].id = count.id
         /\ [count EXCEPT !.aborts = @ + 1].id = count.id
<1>1. /\ count \in [id : Nat, sid : Nat, reqs : Nat, aborts : Nat]
      /\ count.id + 1 \in Nat /\ count.sid + 1 \in Nat
      /\ count.reqs + 1 \in Nat /\ count.aborts + 1 \in Nat
  BY DEF TypeOK
<1>2. QED
  BY <1>1

LEMMA BeginType ==
  ASSUME TypeOK, NEW r \in Reqs, NEW l \in Locals, Begin(r, l)
  PROVE  TypeOK'
  BY CountType DEF TypeOK, Begin

(* A step that only reads: the request goes on with well-formed locals.    *)
LEMMA ReadsType ==
  ASSUME TypeOK, Reads, reqs' \in [Reqs -> Locals]
  PROVE  TypeOK'
  BY DEF TypeOK, Reads

LEMMA InsertType ==
  ASSUME TypeOK, NEW name \in Names, NEW role \in Roles, Insert(name, role),
         reqs' \in [Reqs -> Locals], UNCHANGED <<sessions, untracked, mode>>
  PROVE  TypeOK'
<1>1. CASE Named(name) # {}
  BY <1>1 DEF Insert, TypeOK
<1>2. CASE Named(name) = {}
  <2> DEFINE u == [id |-> count.id + 1, name |-> name, role |-> role]
  <2>1. count.id \in Nat /\ count.id < MaxUsers /\ users' = users \cup {u}
        /\ count' = [count EXCEPT !.id = @ + 1]
    BY <1>2 DEF Insert, TypeOK
  <2>2. u \in User /\ u.id = count.id + 1
    BY <2>1, AccountsAssumption DEF User, Ids
  <2>3. \A v \in users : v.id <= count.id /\ v.id \in Nat
    BY AccountsAssumption DEF TypeOK, User, Ids
  <2>4. \A v \in users' : v.id <= count'.id
    BY <2>1, <2>2, <2>3, CountType
  <2>5. QED
    BY <2>1, <2>2, <2>4, CountType DEF TypeOK
<1>3. QED
  BY <1>1, <1>2

LEMMA UpdateRowType ==
  ASSUME TypeOK, NEW i \in Ids, NEW name \in Names, NEW role \in Roles, UpdateRow(i, name, role)
  PROVE  users' \subseteq User /\ \A u \in users' : u.id <= count.id
<1>1. ASSUME NEW u \in WithId(i)
      PROVE  LET v == [u EXCEPT !.name = name, !.role = role]
             IN  v \in User /\ v.id = i /\ u \in users /\ u.id = i
  BY DEF WithId, TypeOK, User
<1>2. ASSUME NEW w \in users' PROVE w \in User /\ w.id <= count.id
  <2>1. CASE w \in users
    BY <2>1 DEF TypeOK
  <2>2. CASE w \notin users
    <3>1. PICK u \in WithId(i) : w = [u EXCEPT !.name = name, !.role = role]
      BY <2>2 DEF UpdateRow
    <3>2. w \in User /\ w.id = u.id /\ u \in users
      BY <1>1, <3>1
    <3>3. QED
      BY <3>2 DEF TypeOK
  <2>3. QED
    BY <2>1, <2>2
<1>3. QED
  BY <1>2

LEMMA UpdateNameType ==
  ASSUME TypeOK, NEW i \in Ids, NEW name \in Names, UpdateName(i, name)
  PROVE  users' \subseteq User /\ \A u \in users' : u.id <= count.id
<1>1. ASSUME NEW u \in WithId(i)
      PROVE  LET v == [u EXCEPT !.name = name]
             IN  v \in User /\ v.id = i /\ u \in users /\ u.id = i
  BY DEF WithId, TypeOK, User
<1>2. QED
  BY <1>1 DEF UpdateName, TypeOK

(* What an update writes.                                                  *)
LEMMA NewType ==
  ASSUME NEW q \in Locals, q.pc = "write", q.ask.op = "update"
  PROVE  q.ask \in UpdateAsk /\ NewName(q) \in Names /\ NewRole(q) \in Roles
<1>1. q \in ChangeLocals
  BY LocalsAt
<1>2. q.ask \in UpdateAsk /\ q.target \in User
  BY <1>1 DEF ChangeLocals, UpdateAsk, DeleteAsk
<1>3. QED
  BY <1>2 DEF NewName, NewRole, UpdateAsk, User

LEMMA InitType == Init => TypeOK
<1> SUFFICES ASSUME Init PROVE TypeOK
  OBVIOUS
<1>1. PICK db \in Databases :
        /\ users = db.users
        /\ sessions = db.sessions /\ mode = db.mode
        /\ count = [id |-> db.lastId, sid |-> db.lastSid, reqs |-> 0, aborts |-> 0]
  BY DEF Init
<1>2. /\ users \subseteq User /\ sessions \subseteq Session /\ mode \in Modes
      /\ count \in [id : Nat, sid : Nat, reqs : Nat, aborts : Nat]
      /\ \A u \in users : u.id <= count.id
  BY <1>1, AccountsAssumption
<1>3. reqs \in [Reqs -> Locals] /\ untracked \subseteq Ids
  BY DEF Init, Locals
<1>4. QED
  BY <1>2, <1>3 DEF TypeOK

LEMMA AdmittedType ==
  ASSUME NEW actor \in Names \cup {Unknown}, NEW ask \in CreateAsk \cup UpdateAsk \cup DeleteAsk
  PROVE  Admitted(actor, ask) \in CreateLocals \cup ReadLocals
<1>1. CASE ask.op = "create"
  <2>1. ask \in CreateAsk
    BY <1>1 DEF UpdateAsk, DeleteAsk
  <2>2. QED
    BY <1>1, <2>1 DEF Admitted, CreateLocals
<1>2. CASE ask.op # "create"
  <2>1. ask \in UpdateAsk \cup DeleteAsk
    BY <1>2 DEF CreateAsk
  <2>2. QED
    BY <1>2, <2>1 DEF Admitted, ReadLocals
<1>3. QED
  BY <1>1, <1>2

(* A request for the management of accounts begins at one of two steps.    *)
LEMMA AdminBegins ==
  ASSUME TypeOK, NEW r \in Reqs, AdminBegin(r)
  PROVE  \E l \in AuthLocals \cup CreateLocals \cup ReadLocals : Begin(r, l)
<1>1. PICK ask \in CreateAsk \cup UpdateAsk \cup DeleteAsk :
        \/ \E s \in sessions : Begin(r, [pc |-> "authorize", ses |-> s, ask |-> ask])
        \/ \E actor \in {s.name : s \in sessions} \cup {Unknown} : Begin(r, Admitted(actor, ask))
  BY DEF AdminBegin
<1>2. \A s \in sessions : s.name \in Names /\ [pc |-> "authorize", ses |-> s, ask |-> ask] \in AuthLocals
  BY DEF TypeOK, Session, AuthLocals
<1>3. QED
  BY <1>1, <1>2, AdmittedType

LEMMA ManageType ==
  ASSUME TypeOK, NEW r \in Reqs, Manage(r)
  PROVE  TypeOK'
<1>1. reqs[r] \in Locals
  BY DEF TypeOK
<1>2. CASE AdminBegin(r)
  BY <1>2, AdminBegins, BeginType DEF Locals
<1>3. CASE Authorize(r)
  <2> DEFINE ask == reqs[r].ask
             ses == reqs[r].ses
  <2>1. ses.name \in Names /\ ask \in CreateAsk \cup UpdateAsk \cup DeleteAsk
    BY <1>1, <1>3, LocalsAt DEF Authorize, At, AuthLocals, Session
  <2>2. Admitted(ses.name, ask) \in Locals
    BY <2>1, AdmittedType DEF Locals
  <2>3. reqs' \in [Reqs -> Locals]
    BY <1>3, <2>2, GoType, ReturnType DEF Authorize
  <2>4. QED
    BY <1>3, <2>3, ReadsType DEF Authorize
<1>4. CASE CreateCheck(r)
  <2>1. [reqs[r] EXCEPT !.pc = "createInsert"] \in CreateLocals
    BY <1>1, <1>4, LocalsAt DEF CreateCheck, At, CreateLocals
  <2>2. reqs' \in [Reqs -> Locals]
    BY <1>4, <2>1, GoType, ReturnType DEF CreateCheck, Locals
  <2>3. QED
    BY <1>4, <2>2, ReadsType DEF CreateCheck
<1>5. CASE CreateInsert(r)
  <2>1. reqs[r].ask \in CreateAsk
    BY <1>1, <1>5, LocalsAt DEF CreateInsert, At, CreateLocals
  <2>2. reqs[r].ask.name \in Names /\ reqs[r].ask.role \in Roles
    BY <2>1 DEF CreateAsk
  <2>3. QED
    BY <1>5, <2>2, InsertType, ReturnType DEF CreateInsert
<1>6. Admins \subseteq Ids
  BY DEF Admins, TypeOK, User
<1>7. CASE ReadTarget(r)
  <2> DEFINE ask == reqs[r].ask
  <2>1. ask \in UpdateAsk \cup DeleteAsk
    BY <1>1, <1>7, LocalsAt DEF ReadTarget, At, ReadLocals
  <2>2. ASSUME NEW u \in users
        PROVE  [pc |-> IF Removes(ask, u) THEN "countAdmins" ELSE AfterGuards(ask),
                ask |-> ask, target |-> u, admins |-> Admins] \in Locals
    <3>1. u \in User
      BY DEF TypeOK
    <3>2. CASE Removes(ask, u) \/ ask.op # "update"
      BY <1>6, <2>1, <3>1, <3>2 DEF AfterGuards, ChangeLocals, Locals
    <3>3. CASE ~Removes(ask, u) /\ ask.op = "update"
      <4>1. ask \in UpdateAsk
        BY <2>1, <3>3 DEF DeleteAsk
      <4>2. QED
        BY <1>6, <3>1, <3>3, <4>1 DEF AfterGuards, CheckLocals, Locals
    <3>4. QED
      BY <3>2, <3>3
  <2>3. reqs' \in [Reqs -> Locals]
    BY <1>7, <2>2, GoType, ReturnType DEF ReadTarget, WithId
  <2>4. QED
    BY <1>7, <2>3, ReadsType DEF ReadTarget
<1>8. CASE CountAdmins(r)
  <2>1. reqs[r] \in ChangeLocals
    BY <1>1, <1>8, LocalsAt DEF CountAdmins, At
  <2> DEFINE q == [reqs[r] EXCEPT !.pc = AfterGuards(reqs[r].ask), !.admins = Admins]
  <2>2. reqs[r].ask \in UpdateAsk \cup DeleteAsk /\ reqs[r].target \in User
    BY <2>1 DEF ChangeLocals
  <2>3. q \in Locals
    <3>1. CASE reqs[r].ask.op = "update"
      <4>1. reqs[r].ask \in UpdateAsk /\ AfterGuards(reqs[r].ask) = "nameCheck"
        BY <2>2, <3>1 DEF DeleteAsk, AfterGuards
      <4>2. q \in CheckLocals
        BY <1>6, <2>1, <2>2, <4>1 DEF ChangeLocals, CheckLocals
      <4>3. QED
        BY <4>2 DEF Locals
    <3>2. CASE reqs[r].ask.op # "update"
      <4>1. AfterGuards(reqs[r].ask) = "write"
        BY <3>2 DEF AfterGuards
      <4>2. q \in ChangeLocals
        BY <1>6, <2>1, <2>2, <4>1 DEF ChangeLocals
      <4>3. QED
        BY <4>2 DEF Locals
    <3>3. QED
      BY <3>1, <3>2
  <2>4. reqs' \in [Reqs -> Locals]
    BY <1>8, <2>3, GoType, ReturnType DEF CountAdmins
  <2>5. QED
    BY <1>8, <2>4, ReadsType DEF CountAdmins
<1>9. CASE NameCheck(r)
  <2>1. reqs[r] \in CheckLocals
    BY <1>1, <1>9, LocalsAt DEF NameCheck, At
  <2>2. [reqs[r] EXCEPT !.pc = "write"] \in ChangeLocals
    BY <2>1 DEF CheckLocals, ChangeLocals
  <2>3. reqs' \in [Reqs -> Locals]
    BY <1>9, <2>2, GoType, ReturnType DEF NameCheck, Locals
  <2>4. QED
    BY <1>9, <2>3, ReadsType DEF NameCheck
<1>10. At(r, "write") => /\ reqs[r].ask \in UpdateAsk \cup DeleteAsk /\ reqs[r].ask.id \in Ids
                         /\ Revocation(reqs[r].target) \in Locals
  <2> SUFFICES ASSUME At(r, "write")
               PROVE  /\ reqs[r].ask \in UpdateAsk \cup DeleteAsk /\ reqs[r].ask.id \in Ids
                      /\ Revocation(reqs[r].target) \in Locals
    OBVIOUS
  <2>1. reqs[r] \in ChangeLocals
    BY <1>1, LocalsAt DEF At
  <2>2. reqs[r].ask \in UpdateAsk \cup DeleteAsk /\ reqs[r].target \in User
    BY <2>1 DEF ChangeLocals
  <2>3. reqs[r].ask.id \in Ids
    BY <2>2 DEF UpdateAsk, DeleteAsk
  <2>4. QED
    BY <2>2, <2>3 DEF Revocation, RevokeLocals, Locals
<1>11. CASE UpdateWrite(r)
  <2> DEFINE q == reqs[r]
  <2>1. /\ At(r, "write") /\ q.ask.op = "update"
        /\ NewName(q) \in Names /\ NewRole(q) \in Roles /\ q.ask.id \in Ids
    BY <1>1, <1>10, <1>11, NewType DEF UpdateWrite, At
  <2>2. users' \subseteq User /\ \A u \in users' : u.id <= count.id
    BY <1>11, <2>1, UpdateRowType DEF UpdateWrite, TypeOK
  <2>3. untracked' \subseteq Ids /\ UNCHANGED <<sessions, count, mode>>
    BY <1>11, <2>1 DEF UpdateWrite, Loses, TypeOK
  <2>4. reqs' \in [Reqs -> Locals]
    BY <1>10, <1>11, <2>1, GoType, ReturnType DEF UpdateWrite
  <2>5. QED
    BY <2>2, <2>3, <2>4 DEF TypeOK
<1>12. CASE DeleteWrite(r)
  <2>1. At(r, "write") /\ reqs[r].ask.id \in Ids
    BY <1>10, <1>12 DEF DeleteWrite
  <2>2. users' \subseteq User /\ \A u \in users' : u.id <= count.id
    BY <1>12 DEF DeleteWrite, TypeOK
  <2>3. untracked' \subseteq Ids /\ UNCHANGED <<sessions, count, mode>>
    BY <1>12, <2>1 DEF DeleteWrite, Loses, TypeOK
  <2>4. reqs' \in [Reqs -> Locals]
    BY <1>10, <1>12, <2>1, GoType, ReturnType DEF DeleteWrite
  <2>5. QED
    BY <2>2, <2>3, <2>4 DEF TypeOK
<1>13. CASE Revoke(r)
  <2> DEFINE target == reqs[r].target
             doomed == {s.sid : s \in {t \in sessions : t.name = target.name}}
  <2>1. target \in User
    BY <1>1, <1>13, LocalsAt DEF Revoke, At, RevokeLocals
  <2>2. doomed \subseteq Sids
    BY DEF TypeOK, Session
  <2>3. [pc |-> "revoking", target |-> target, doomed |-> doomed] \in Locals
    BY <2>1, <2>2 DEF RowsLocals, Locals
  <2>4. reqs' \in [Reqs -> Locals]
    BY <1>13, <2>3, GoType DEF Revoke
  <2>5. QED
    BY <1>13, <2>4, ReadsType DEF Revoke
<1>14. CASE RevokeRow(r)
  <2>1. ASSUME NEW sid PROVE [reqs[r] EXCEPT !.doomed = @ \ {sid}] \in Locals
    <3>1. reqs[r] \in RowsLocals
      BY <1>1, <1>14, LocalsAt DEF RevokeRow, At
    <3>2. [reqs[r] EXCEPT !.doomed = @ \ {sid}] \in RowsLocals
      BY <3>1 DEF RowsLocals
    <3>3. QED
      BY <3>2 DEF Locals
  <2>2. reqs' \in [Reqs -> Locals]
    BY <1>14, <2>1, GoType, ReturnType DEF RevokeRow
  <2>3. QED
    BY <1>14, <2>2 DEF RevokeRow, TypeOK
<1>15. QED
  BY <1>2, <1>3, <1>4, <1>5, <1>7, <1>8, <1>9, <1>11, <1>12, <1>13, <1>14 DEF Manage

LEMMA NextType == TypeOK /\ [Next]_vars => TypeOK'
<1> SUFFICES ASSUME TypeOK, [Next]_vars PROVE TypeOK'
  OBVIOUS
<1>1. ASSUME NEW r \in Reqs PROVE reqs[r] \in Locals
  BY DEF TypeOK
<1>2. ASSUME NEW r \in Reqs, Setup(r) PROVE TypeOK'
  <2>1. CASE SetupBegin(r)
    <3>1. PICK name \in Names : Begin(r, [pc |-> "setupCount", name |-> name])
      BY <2>1 DEF SetupBegin
    <3>2. [pc |-> "setupCount", name |-> name] \in Locals
      BY DEF Locals, NameLocals
    <3>3. QED
      BY <3>1, <3>2, BeginType
  <2>2. CASE SetupCount(r)
    <3>1. reqs[r] \in NameLocals
      BY <1>1, <2>2, LocalsAt DEF SetupCount, At
    <3>2. [reqs[r] EXCEPT !.pc = "setupInsert"] \in Locals
      <4>1. [reqs[r] EXCEPT !.pc = "setupInsert"] \in NameLocals
        BY <3>1 DEF NameLocals
      <4>2. QED
        BY <4>1 DEF Locals
    <3>3. reqs' \in [Reqs -> Locals]
      BY <2>2, <3>2, GoType, ReturnType DEF SetupCount
    <3>4. QED
      BY <2>2, <3>3, ReadsType DEF SetupCount
  <2>3. CASE SetupInsert(r)
    <3>1. reqs[r].name \in Names
      BY <1>1, <2>3, LocalsAt DEF SetupInsert, At, NameLocals
    <3>2. QED
      BY <2>3, <3>1, InsertType, ReturnType DEF SetupInsert, Roles
  <2>4. QED
    BY <1>2, <2>1, <2>2, <2>3 DEF Setup
<1>3. ASSUME NEW r \in Reqs, Login(r) PROVE TypeOK'
  <2>1. CASE LoginBegin(r)
    <3>1. PICK name \in Names : Begin(r, [pc |-> "login", name |-> name])
      BY <2>1 DEF LoginBegin
    <3>2. [pc |-> "login", name |-> name] \in Locals
      BY DEF Locals, NameLocals
    <3>3. QED
      BY <3>1, <3>2, BeginType
  <2>2. CASE LoginRead(r)
    <3>1. ASSUME NEW u \in users PROVE [pc |-> "cycle", user |-> u] \in Locals
      BY DEF TypeOK, Locals, LoginLocals
    <3>2. reqs' \in [Reqs -> Locals]
      BY <2>2, <3>1, GoType, ReturnType DEF LoginRead, Named
    <3>3. QED
      BY <2>2, <3>2, ReadsType DEF LoginRead
  <2>3. CASE LoginCycle(r)
    <3>1. [reqs[r] EXCEPT !.pc = "save"] \in LoginLocals
      BY <1>1, <2>3, LocalsAt DEF LoginCycle, At, LoginLocals
    <3>2. reqs' \in [Reqs -> Locals]
      BY <2>3, <3>1, GoType DEF LoginCycle, Locals
    <3>3. QED
      BY <2>3, <3>2 DEF LoginCycle, TypeOK
  <2>4. CASE LoginSave(r)
    <3> DEFINE u == reqs[r].user
               late == \A v \in WithId(u.id) : v.name # u.name
    <3>1. u \in User
      BY <1>1, <2>4, LocalsAt DEF LoginSave, At, LoginLocals
    <3>2. count.sid \in Nat /\ count.sid < MaxLogins
      BY <2>4 DEF LoginSave, TypeOK
    <3>3. [sid |-> count.sid + 1, name |-> u.name, role |-> u.role, uid |-> u.id,
           late |-> late] \in Session
      BY <3>1, <3>2, AccountsAssumption DEF Session, User, Sids
    <3>4. sessions' = sessions \cup
            {[sid |-> count.sid + 1, name |-> u.name, role |-> u.role, uid |-> u.id,
              late |-> late]}
      BY <2>4 DEF LoginSave
    <3>5. sessions' \subseteq Session
      BY <3>3, <3>4 DEF TypeOK
    <3>6. reqs' \in [Reqs -> Locals]
      BY <2>4, ReturnType DEF LoginSave
    <3>7. QED
      BY <2>4, <3>5, <3>6, CountType DEF LoginSave, TypeOK
  <2>5. QED
    BY <1>3, <2>1, <2>2, <2>3, <2>4 DEF Login
<1>4. ASSUME NEW r \in Reqs, Me(r) PROVE TypeOK'
  <2>1. CASE MeBegin(r)
    <3>1. PICK s \in sessions, name \in Names \cup {Keep} :
            Begin(r, [pc |-> "me", ses |-> s, name |-> name])
      BY <2>1 DEF MeBegin
    <3>2. [pc |-> "me", ses |-> s, name |-> name] \in Locals
      BY DEF Locals, MeLocals, TypeOK
    <3>3. QED
      BY <3>1, <3>2, BeginType
  <2>2. CASE MeRead(r)
    <3>1. reqs[r] \in MeLocals
      BY <1>1, <2>2, LocalsAt DEF MeRead, At
    <3>2. [pc |-> "meFlush", ses |-> reqs[r].ses] \in Locals
      BY <3>1 DEF MeLocals, FlushLocals, Locals
    <3>3. ASSUME NEW u \in users, reqs[r].name # Keep
          PROVE  [pc |-> "meCheck", ses |-> reqs[r].ses, name |-> reqs[r].name, id |-> u.id]
                   \in Locals
      <4>1. reqs[r].ses \in Session /\ reqs[r].name \in Names /\ u.id \in Ids
        BY <3>1, <3>3 DEF MeLocals, TypeOK, User
      <4>2. QED
        BY <4>1 DEF RenameLocals, Locals
    <3>4. reqs' \in [Reqs -> Locals]
      BY <2>2, <3>2, <3>3, GoType, ReturnType DEF MeRead, Named
    <3>5. QED
      BY <2>2, <3>4, ReadsType DEF MeRead
  <2>3. CASE MeCheck(r)
    <3>1. [reqs[r] EXCEPT !.pc = "meWrite"] \in RenameLocals
      BY <1>1, <2>3, LocalsAt DEF MeCheck, At, RenameLocals
    <3>2. reqs' \in [Reqs -> Locals]
      BY <2>3, <3>1, GoType, ReturnType DEF MeCheck, Locals
    <3>3. QED
      BY <2>3, <3>2, ReadsType DEF MeCheck
  <2>4. CASE MeWrite(r)
    <3>1. reqs[r] \in RenameLocals
      BY <1>1, <2>4, LocalsAt DEF MeWrite, At
    <3>2. reqs[r].id \in Ids /\ reqs[r].name \in Names /\ reqs[r].ses \in Session
      BY <3>1 DEF RenameLocals
    <3>3. [pc |-> "meFlush", ses |-> reqs[r].ses] \in Locals
      BY <3>2 DEF FlushLocals, Locals
    <3>4. reqs' \in [Reqs -> Locals]
      BY <2>4, <3>3, GoType, ReturnType DEF MeWrite
    <3>5. users' \subseteq User /\ \A u \in users' : u.id <= count.id
      BY <2>4, <3>2, UpdateNameType DEF MeWrite, TypeOK
    <3>6. untracked' \subseteq Ids /\ UNCHANGED <<sessions, count, mode>>
      BY <2>4, <3>2 DEF MeWrite, Loses, TypeOK
    <3>7. QED
      BY <3>4, <3>5, <3>6 DEF TypeOK
  <2>5. CASE MeFlush(r)
    <3>1. reqs' \in [Reqs -> Locals]
      BY <2>5, ReturnType DEF MeFlush
    <3>2. QED
      BY <2>5, <3>1 DEF MeFlush, TypeOK
  <2>6. QED
    BY <1>4, <2>1, <2>2, <2>3, <2>4, <2>5 DEF Me
<1>5. ASSUME NEW r \in Reqs, Abort(r) PROVE TypeOK'
  <2>1. reqs' \in [Reqs -> Locals]
    BY <1>5, ReturnType DEF Abort
  <2>2. Revoking(r) => reqs[r].target \in User
    BY <1>1, LocalsAt DEF Revoking, RevokeLocals, RowsLocals
  <2>3. untracked' \subseteq Ids
    BY <1>5, <2>2 DEF Abort, TypeOK, User
  <2>4. QED
    BY <1>5, <2>1, <2>3, CountType DEF Abort, TypeOK
<1>6. CASE SessionEnds
  BY <1>6 DEF SessionEnds, TypeOK
<1>7. CASE UNCHANGED vars
  BY <1>7 DEF vars, TypeOK
<1>8. ASSUME NEW r \in Reqs, Manage(r) PROVE TypeOK'
  BY <1>8, ManageType
<1>9. QED
  BY <1>2, <1>3, <1>4, <1>5, <1>6, <1>7, <1>8 DEF Next

(* Every variable keeps its type, and no account id is given out twice.    *)
THEOREM TypeCorrect == Spec => []TypeOK
  BY InitType, NextType, PTL DEF Spec

-----------------------------------------------------------------------------
(* Names identify accounts.                                                *)

LEMMA InsertUnique ==
  ASSUME TypeOK, NamesUnique, NEW name, NEW role, Insert(name, role)
  PROVE  NamesUnique'
<1>1. CASE Named(name) # {}
  BY <1>1 DEF Insert, NamesUnique
<1>2. CASE Named(name) = {}
  <2> DEFINE w == [id |-> count.id + 1, name |-> name, role |-> role]
  <2>1. users' = users \cup {w}
    BY <1>2 DEF Insert
  <2>2. ASSUME NEW u \in users PROVE u.id # w.id /\ u.name # w.name
    <3>1. u.id <= count.id /\ count.id \in Nat /\ u.id \in Nat
      BY AccountsAssumption DEF TypeOK, User, Ids
    <3>2. QED
      BY <1>2, <3>1 DEF Named
  <2>3. QED
    BY <2>1, <2>2 DEF NamesUnique
<1>3. QED
  BY <1>1, <1>2

(* An update of one row to a name that no other row has.                   *)
LEMMA WriteUnique ==
  ASSUME NamesUnique, NEW i, NEW name, ~Taken(i, name),
         \A v \in users' : (v \in users /\ v.id # i) \/ (v.id = i /\ v.name = name),
         \A v, w \in users' : v.id = i /\ w.id = i => v = w
  PROVE  NamesUnique'
<1> SUFFICES ASSUME NEW v \in users', NEW w \in users', v.id = w.id \/ v.name = w.name
             PROVE  v = w
  BY DEF NamesUnique
<1>1. CASE v.id # i /\ w.id # i
  BY <1>1 DEF NamesUnique
<1>2. CASE v.id = i /\ w.id # i
  BY <1>2 DEF Taken, Named
<1>3. CASE v.id # i /\ w.id = i
  BY <1>3 DEF Taken, Named
<1>4. CASE v.id = i /\ w.id = i
  BY <1>4
<1>5. QED
  BY <1>1, <1>2, <1>3, <1>4

LEMMA UpdateRowUnique ==
  ASSUME TypeOK, NamesUnique, NEW i, NEW name, NEW role, UpdateRow(i, name, role),
         WithId(i) = {} \/ ~Taken(i, name)
  PROVE  NamesUnique'
<1>1. CASE WithId(i) = {}
  BY <1>1 DEF UpdateRow, NamesUnique
<1>2. CASE ~Taken(i, name)
  <2> DEFINE f(u) == [u EXCEPT !.name = name, !.role = role]
  <2>1. \A u \in WithId(i) : f(u).id = i /\ f(u).name = name
    BY DEF WithId, TypeOK, User
  <2>2. \A v \in users' : \/ v \in users /\ v.id # i
                          \/ \E u \in WithId(i) : v = f(u)
    BY DEF UpdateRow, WithId
  <2>3. \A u, v \in WithId(i) : u = v
    BY DEF WithId, NamesUnique
  <2> HIDE DEF f
  <2>4. ASSUME NEW v \in users' PROVE (v \in users /\ v.id # i) \/ (v.id = i /\ v.name = name)
    <3>1. CASE v \in users /\ v.id # i
      BY <3>1
    <3>2. CASE ~(v \in users /\ v.id # i)
      <4>1. PICK u \in WithId(i) : v = f(u)
        BY <2>2, <3>2
      <4>2. QED
        BY <2>1, <4>1
    <3>3. QED
      BY <3>1, <3>2
  <2>5. ASSUME NEW v \in users', NEW w \in users', v.id = i, w.id = i PROVE v = w
    <3>1. PICK t \in WithId(i) : v = f(t)
      BY <2>2, <2>5
    <3>2. PICK u \in WithId(i) : w = f(u)
      BY <2>2, <2>5
    <3>3. QED
      BY <2>3, <3>1, <3>2
  <2>6. QED
    BY <1>2, <2>4, <2>5, WriteUnique
<1>3. QED
  BY <1>1, <1>2

LEMMA UpdateNameUnique ==
  ASSUME TypeOK, NamesUnique, NEW i, NEW name, UpdateName(i, name),
         WithId(i) = {} \/ ~Taken(i, name)
  PROVE  NamesUnique'
<1>1. CASE WithId(i) = {}
  BY <1>1 DEF UpdateName, NamesUnique
<1>2. CASE ~Taken(i, name)
  <2> DEFINE f(u) == [u EXCEPT !.name = name]
  <2>1. \A u \in WithId(i) : f(u).id = i /\ f(u).name = name
    BY DEF WithId, TypeOK, User
  <2>2. \A v \in users' : \/ v \in users /\ v.id # i
                          \/ \E u \in WithId(i) : v = f(u)
    BY DEF UpdateName, WithId
  <2>3. \A u, v \in WithId(i) : u = v
    BY DEF WithId, NamesUnique
  <2> HIDE DEF f
  <2>4. ASSUME NEW v \in users' PROVE (v \in users /\ v.id # i) \/ (v.id = i /\ v.name = name)
    <3>1. CASE v \in users /\ v.id # i
      BY <3>1
    <3>2. CASE ~(v \in users /\ v.id # i)
      <4>1. PICK u \in WithId(i) : v = f(u)
        BY <2>2, <3>2
      <4>2. QED
        BY <2>1, <4>1
    <3>3. QED
      BY <3>1, <3>2
  <2>5. ASSUME NEW v \in users', NEW w \in users', v.id = i, w.id = i PROVE v = w
    <3>1. PICK t \in WithId(i) : v = f(t)
      BY <2>2, <2>5
    <3>2. PICK u \in WithId(i) : w = f(u)
      BY <2>2, <2>5
    <3>3. QED
      BY <2>3, <3>1, <3>2
  <2>6. QED
    BY <1>2, <2>4, <2>5, WriteUnique
<1>3. QED
  BY <1>1, <1>2

LEMMA NextUnique == TypeOK /\ NamesUnique /\ [Next]_vars => NamesUnique'
<1> SUFFICES ASSUME TypeOK, NamesUnique, [Next]_vars PROVE NamesUnique'
  OBVIOUS
<1>1. ASSUME UNCHANGED users PROVE NamesUnique'
  BY <1>1 DEF NamesUnique
<1>2. ASSUME NEW r \in Reqs, Setup(r) PROVE NamesUnique'
  BY <1>1, <1>2, InsertUnique DEF Setup, SetupBegin, SetupCount, SetupInsert, Begin, Reads
<1>3. ASSUME NEW r \in Reqs, Login(r) PROVE NamesUnique'
  BY <1>1, <1>3 DEF Login, LoginBegin, LoginRead, LoginCycle, LoginSave, Begin, Reads
<1>4. ASSUME NEW r \in Reqs, Manage(r) PROVE NamesUnique'
  <2>1. CASE CreateInsert(r)
    BY <2>1, InsertUnique DEF CreateInsert
  <2>2. CASE UpdateWrite(r)
    BY <1>1, <2>2, UpdateRowUnique DEF UpdateWrite
  <2>3. CASE DeleteWrite(r)
    BY <2>3 DEF DeleteWrite, NamesUnique
  <2>4. QED
    BY <1>1, <1>4, <2>1, <2>2, <2>3 DEF Manage, AdminBegin, Authorize, CreateCheck, ReadTarget,
       CountAdmins, NameCheck, Revoke, RevokeRow, Begin, Reads
<1>5. ASSUME NEW r \in Reqs, Me(r) PROVE NamesUnique'
  <2>1. CASE MeWrite(r)
    BY <1>1, <2>1, UpdateNameUnique DEF MeWrite
  <2>2. QED
    BY <1>1, <1>5, <2>1 DEF Me, MeBegin, MeRead, MeCheck, MeFlush, Begin, Reads
<1>6. QED
  BY <1>1, <1>2, <1>3, <1>4, <1>5 DEF Next, Abort, SessionEnds, vars

LEMMA InitUnique == Init => NamesUnique
  BY AccountsAssumption DEF Init, NamesUnique

(* No two accounts ever have the same name or the same id.                 *)
THEOREM UniqueNames == Spec => []NamesUnique
<1>1. TypeOK /\ NamesUnique /\ [Next]_vars => (TypeOK /\ NamesUnique)'
  BY NextType, NextUnique
<1>2. QED
  BY <1>1, InitType, InitUnique, PTL DEF Spec

-----------------------------------------------------------------------------
(* What a request that changes an account knows when it writes: it read    *)
(* the account it writes to, and the admins at its last read would not all *)
(* have been lost by its write.                                            *)

Spares(q) ==
  \/ q.admins \ {q.ask.id} # {}
  \/ q.ask.id \notin q.admins
  \/ q.ask.op = "update" /\ NewRole(q) = "admin"

Prudent(q) ==
  /\ q.pc \in {"countAdmins", "nameCheck", "write"} => q.target.id = q.ask.id
  /\ q.pc \in {"nameCheck", "write"} => Spares(q)

LEMMA IdlePrudent == Prudent(NoReq)
  BY DEF Prudent, NoReq

(* A request that proceeds without a count takes no admin away.            *)
LEMMA UncountedSpares ==
  ASSUME TypeOK, NamesUnique, NEW u \in users, NEW ask \in UpdateAsk \cup DeleteAsk,
         u.id = ask.id, ~Removes(ask, u)
  PROVE  Spares([pc |-> AfterGuards(ask), ask |-> ask, target |-> u, admins |-> Admins])
<1> DEFINE q == [pc |-> AfterGuards(ask), ask |-> ask, target |-> u, admins |-> Admins]
<1>1. q.ask = ask /\ q.target = u /\ q.admins = Admins
  OBVIOUS
<1>2. CASE u.role # "admin"
  <2>1. ask.id \notin Admins
    BY <1>2 DEF Admins, NamesUnique
  <2>2. QED
    BY <1>1, <2>1 DEF Spares
<1>3. CASE u.role = "admin"
  <2>1. ask.op # "delete" /\ ask.role # "viewer"
    BY <1>3 DEF Removes
  <2>2. ask \in UpdateAsk /\ ask.role \in {"admin", Keep}
    BY <2>1 DEF UpdateAsk, DeleteAsk, Roles
  <2>3. NewRole(q) = "admin" /\ ask.op = "update"
    BY <1>1, <1>3, <2>2 DEF NewRole, UpdateAsk
  <2>4. QED
    BY <1>1, <2>3 DEF Spares
<1>4. QED
  BY <1>2, <1>3

(* A count of two admins or more leaves one besides any account.           *)
LEMMA CountSpares ==
  ASSUME TypeOK, NEW i, ~(Cardinality(Admins) <= 1)
  PROVE  Admins \ {i} # {}
<1> SUFFICES ASSUME Admins \subseteq {i} PROVE FALSE
  OBVIOUS
<1>1. IsFiniteSet({i}) /\ Cardinality({i}) = 1
  BY FS_Singleton
<1>2. IsFiniteSet(Admins) /\ Cardinality(Admins) <= Cardinality({i})
  BY <1>1, FS_Subset
<1>3. QED
  BY <1>1, <1>2

LEMMA NextPrudent ==
  TypeOK /\ NamesUnique /\ (\A x \in Reqs : Prudent(reqs[x])) /\ [Next]_vars
    => \A x \in Reqs : Prudent(reqs'[x])
<1> SUFFICES ASSUME TypeOK, NamesUnique, \A x \in Reqs : Prudent(reqs[x]), [Next]_vars
             PROVE  \A x \in Reqs : Prudent(reqs'[x])
  OBVIOUS
<1>1. ASSUME NEW r \in Reqs, NEW l, Go(r, l), Prudent(l)
      PROVE  \A x \in Reqs : Prudent(reqs'[x])
  BY <1>1 DEF Go, TypeOK
<1>2. ASSUME NEW r \in Reqs, Return(r) PROVE \A x \in Reqs : Prudent(reqs'[x])
  BY <1>1, <1>2, IdlePrudent DEF Return
<1>3. ASSUME NEW r \in Reqs, NEW l, Go(r, l),
             l.pc \notin {"countAdmins", "nameCheck", "write"}
      PROVE  \A x \in Reqs : Prudent(reqs'[x])
  BY <1>1, <1>3 DEF Prudent
<1>4. ASSUME NEW r \in Reqs, NEW l, Begin(r, l),
             l.pc \notin {"countAdmins", "nameCheck", "write"}
      PROVE  \A x \in Reqs : Prudent(reqs'[x])
  BY <1>3, <1>4 DEF Begin, Go
<1>5. ASSUME NEW r \in Reqs PROVE reqs[r] \in Locals /\ Prudent(reqs[r])
  BY DEF TypeOK
<1>6. ASSUME NEW r \in Reqs, Setup(r) PROVE \A x \in Reqs : Prudent(reqs'[x])
  <2>1. CASE SetupBegin(r)
    BY <1>4, <2>1 DEF SetupBegin
  <2>2. CASE SetupCount(r)
    <3>1. [reqs[r] EXCEPT !.pc = "setupInsert"].pc = "setupInsert"
      BY <1>5, <2>2, LocalsAt DEF SetupCount, At, NameLocals
    <3>2. QED
      BY <1>2, <1>3, <2>2, <3>1 DEF SetupCount
  <2>3. CASE SetupInsert(r)
    BY <1>2, <2>3 DEF SetupInsert
  <2>4. QED
    BY <1>6, <2>1, <2>2, <2>3 DEF Setup
<1>7. ASSUME NEW r \in Reqs, Login(r) PROVE \A x \in Reqs : Prudent(reqs'[x])
  <2>1. CASE LoginBegin(r)
    BY <1>4, <2>1 DEF LoginBegin
  <2>2. CASE LoginRead(r)
    BY <1>2, <1>3, <2>2 DEF LoginRead
  <2>3. CASE LoginCycle(r)
    <3>1. [reqs[r] EXCEPT !.pc = "save"].pc = "save"
      BY <1>5, <2>3, LocalsAt DEF LoginCycle, At, LoginLocals
    <3>2. QED
      BY <1>3, <2>3, <3>1 DEF LoginCycle
  <2>4. CASE LoginSave(r)
    BY <1>2, <2>4 DEF LoginSave
  <2>5. QED
    BY <1>7, <2>1, <2>2, <2>3, <2>4 DEF Login
<1>8. ASSUME NEW r \in Reqs, Me(r) PROVE \A x \in Reqs : Prudent(reqs'[x])
  <2>1. CASE MeBegin(r)
    BY <1>4, <2>1 DEF MeBegin
  <2>2. CASE MeRead(r)
    BY <1>2, <1>3, <2>2 DEF MeRead
  <2>3. CASE MeCheck(r)
    <3>1. [reqs[r] EXCEPT !.pc = "meWrite"].pc = "meWrite"
      BY <1>5, <2>3, LocalsAt DEF MeCheck, At, RenameLocals
    <3>2. QED
      BY <1>2, <1>3, <2>3, <3>1 DEF MeCheck
  <2>4. CASE MeWrite(r)
    BY <1>2, <1>3, <2>4 DEF MeWrite
  <2>5. CASE MeFlush(r)
    BY <1>2, <2>5 DEF MeFlush
  <2>6. QED
    BY <1>8, <2>1, <2>2, <2>3, <2>4, <2>5 DEF Me
<1>9. ASSUME NEW r \in Reqs, Manage(r) PROVE \A x \in Reqs : Prudent(reqs'[x])
  <2>1. CASE AdminBegin(r)
    <3>1. PICK l \in AuthLocals \cup CreateLocals \cup ReadLocals : Begin(r, l)
      BY <2>1, AdminBegins
    <3>2. l.pc \in {"authorize", "createCheck", "createInsert", "read"}
      BY <3>1 DEF AuthLocals, CreateLocals, ReadLocals
    <3>3. QED
      BY <1>4, <3>1, <3>2
  <2>2. CASE Authorize(r)
    BY <1>2, <1>3, <2>2 DEF Authorize, Admitted
  <2>3. CASE CreateCheck(r)
    <3>1. [reqs[r] EXCEPT !.pc = "createInsert"].pc = "createInsert"
      BY <1>5, <2>3, LocalsAt DEF CreateCheck, At, CreateLocals
    <3>2. QED
      BY <1>2, <1>3, <2>3, <3>1 DEF CreateCheck
  <2>4. CASE CreateInsert(r)
    BY <1>2, <2>4 DEF CreateInsert
  <2>5. CASE ReadTarget(r)
    <3> DEFINE ask == reqs[r].ask
               l(u) == [pc |-> IF Removes(ask, u) THEN "countAdmins" ELSE AfterGuards(ask),
                        ask |-> ask, target |-> u, admins |-> Admins]
    <3>1. ask \in UpdateAsk \cup DeleteAsk
      BY <1>5, <2>5, LocalsAt DEF ReadTarget, At, ReadLocals
    <3>2. ASSUME NEW u \in WithId(ask.id) PROVE Prudent(l(u))
      <4>1. u \in users /\ u.id = ask.id
        BY DEF WithId
      <4>2. CASE Removes(ask, u)
        BY <4>1, <4>2 DEF Prudent
      <4>3. CASE ~Removes(ask, u)
        <5>1. Spares([pc |-> AfterGuards(ask), ask |-> ask, target |-> u, admins |-> Admins])
          BY <3>1, <4>1, <4>3, UncountedSpares
        <5>2. AfterGuards(ask) # "countAdmins"
          BY DEF AfterGuards
        <5>3. QED
          BY <4>1, <4>3, <5>1, <5>2 DEF Prudent
      <4>4. QED
        BY <4>2, <4>3
    <3>3. QED
      BY <1>1, <1>2, <2>5, <3>2 DEF ReadTarget
  <2>6. CASE CountAdmins(r)
    <3> DEFINE q == reqs[r]
               l == [q EXCEPT !.pc = AfterGuards(q.ask), !.admins = Admins]
    <3>1. q \in ChangeLocals /\ q.pc = "countAdmins"
      BY <1>5, <2>6, LocalsAt DEF CountAdmins, At
    <3>2. /\ l.pc = AfterGuards(q.ask) /\ l.ask = q.ask /\ l.target = q.target
          /\ l.admins = Admins
      BY <3>1 DEF ChangeLocals
    <3>3. CASE ~(Cardinality(Admins) <= 1)
      <4>1. Spares(l)
        BY <3>2, <3>3, CountSpares DEF Spares
      <4>2. q.target.id = q.ask.id
        BY <1>5, <3>1 DEF Prudent
      <4>3. Prudent(l)
        BY <3>2, <4>1, <4>2 DEF Prudent, AfterGuards
      <4>4. QED
        BY <1>1, <2>6, <3>3, <4>3 DEF CountAdmins
    <3>4. CASE Cardinality(Admins) <= 1
      BY <1>2, <2>6, <3>4 DEF CountAdmins
    <3>5. QED
      BY <3>3, <3>4
  <2>7. CASE NameCheck(r)
    <3> DEFINE q == reqs[r]
               l == [q EXCEPT !.pc = "write"]
    <3>1. q \in CheckLocals /\ q.pc = "nameCheck"
      BY <1>5, <2>7, LocalsAt DEF NameCheck, At
    <3>2. l.pc = "write" /\ l.ask = q.ask /\ l.target = q.target /\ l.admins = q.admins
      BY <3>1 DEF CheckLocals
    <3>3. Prudent(l)
      BY <1>5, <3>1, <3>2 DEF Prudent, Spares, NewRole
    <3>4. QED
      BY <1>1, <1>2, <2>7, <3>3 DEF NameCheck
  <2>8. CASE UpdateWrite(r)
    BY <1>2, <1>3, <2>8 DEF UpdateWrite, Revocation
  <2>9. CASE DeleteWrite(r)
    BY <1>2, <1>3, <2>9 DEF DeleteWrite, Revocation
  <2>10. CASE Revoke(r)
    BY <1>3, <2>10 DEF Revoke
  <2>11. CASE RevokeRow(r)
    <3>1. ASSUME NEW d PROVE [reqs[r] EXCEPT !.doomed = d].pc = "revoking"
      BY <1>5, <2>11, LocalsAt DEF RevokeRow, At, RowsLocals
    <3>2. QED
      BY <1>2, <1>3, <2>11, <3>1 DEF RevokeRow
  <2>12. QED
    BY <1>9, <2>1, <2>2, <2>3, <2>4, <2>5, <2>6, <2>7, <2>8, <2>9, <2>10, <2>11 DEF Manage
<1>10. ASSUME UNCHANGED reqs PROVE \A x \in Reqs : Prudent(reqs'[x])
  BY <1>10
<1>11. QED
  BY <1>2, <1>6, <1>7, <1>8, <1>9, <1>10 DEF Next, Abort, SessionEnds, vars

LEMMA InitPrudent == Init => \A x \in Reqs : Prudent(reqs[x])
  BY IdlePrudent DEF Init

(* The invariant the properties below follow from, SessionsTracked apart.  *)
Sound == TypeOK /\ NamesUnique /\ \A x \in Reqs : Prudent(reqs[x])

THEOREM SoundAlways == Spec => []Sound
<1>1. Init => Sound
  BY InitType, InitUnique, InitPrudent DEF Sound
<1>2. Sound /\ [Next]_vars => Sound'
  <2> SUFFICES ASSUME Sound, [Next]_vars PROVE Sound'
    OBVIOUS
  <2>1. TypeOK' /\ NamesUnique'
    BY NextType, NextUnique DEF Sound
  <2>2. \A x \in Reqs : Prudent(reqs'[x])
    BY NextPrudent DEF Sound
  <2>3. (\A x \in Reqs : Prudent(reqs[x]))'
    BY <2>2 DEF Prudent, Spares, NewRole
  <2>4. QED
    BY <2>1, <2>3 DEF Sound
<1>3. QED
  BY <1>1, <1>2, PTL DEF Spec

-----------------------------------------------------------------------------
(* The last admin.                                                         *)

LEMMA InsertKeepsUsers ==
  ASSUME NEW name, NEW role, Insert(name, role)
  PROVE  users \subseteq users'
  BY DEF Insert

LEMMA MoreUsersMoreAdmins ==
  ASSUME users \subseteq users'
  PROVE  Admins \subseteq Admins'
  BY DEF Admins

(* Only the write of an update or of a deletion takes an admin away.       *)
LEMMA OnlyWritesRemove ==
  ASSUME Sound, [Next]_vars, Admins # {}, Admins' = {}
  PROVE  \E r \in Reqs : UpdateWrite(r) \/ DeleteWrite(r)
<1>1. ASSUME users \subseteq users' PROVE FALSE
  BY <1>1, MoreUsersMoreAdmins
<1>2. ASSUME NEW r \in Reqs, Setup(r) PROVE FALSE
  BY <1>1, <1>2, InsertKeepsUsers DEF Setup, SetupBegin, SetupCount, SetupInsert, Begin, Reads
<1>3. ASSUME NEW r \in Reqs, Login(r) PROVE FALSE
  BY <1>1, <1>3 DEF Login, LoginBegin, LoginRead, LoginCycle, LoginSave, Begin, Reads
<1>4. ASSUME NEW r \in Reqs, Manage(r), ~UpdateWrite(r), ~DeleteWrite(r) PROVE FALSE
  BY <1>1, <1>4, InsertKeepsUsers DEF Manage, AdminBegin, Authorize, CreateCheck, CreateInsert,
     ReadTarget, CountAdmins, NameCheck, Revoke, RevokeRow, Begin, Reads
<1>5. ASSUME NEW r \in Reqs, Me(r) PROVE FALSE
  <2>1. CASE MeWrite(r)
    <3>1. CASE UNCHANGED users
      BY <1>1, <3>1
    <3>2. CASE UpdateName(reqs[r].id, reqs[r].name)
      <4>1. PICK a \in users : a.role = "admin"
        BY DEF Admins
      <4>2. CASE a.id # reqs[r].id
        <5>1. a \in users'
          BY <3>2, <4>2 DEF UpdateName, WithId
        <5>2. QED
          BY <4>1, <5>1 DEF Admins
      <4>3. CASE a.id = reqs[r].id
        <5> DEFINE b == [a EXCEPT !.name = reqs[r].name]
        <5>1. b \in users'
          BY <3>2, <4>3 DEF UpdateName, WithId
        <5>2. b.role = "admin"
          BY <4>1 DEF Sound, TypeOK, User
        <5>3. QED
          BY <5>1, <5>2 DEF Admins
      <4>4. QED
        BY <4>2, <4>3
    <3>3. QED
      BY <2>1, <3>1, <3>2 DEF MeWrite
  <2>2. QED
    BY <1>1, <1>5, <2>1 DEF Me, MeBegin, MeRead, MeCheck, MeFlush, Begin, Reads
<1>6. QED
  BY <1>1, <1>2, <1>3, <1>4, <1>5 DEF Next, Abort, SessionEnds, vars

LEMMA AdminsStep ==
  ASSUME Sound, [Next]_vars, Admins # {}, Admins' = {}
  PROVE  \E r \in Reqs : At(r, "write") /\ reqs'[r] # reqs[r] /\ reqs[r].admins # Admins
<1>1. PICK r \in Reqs : UpdateWrite(r) \/ DeleteWrite(r)
  BY OnlyWritesRemove
<1> DEFINE q == reqs[r]
<1>2. At(r, "write") /\ q \in Locals /\ Spares(q)
  BY <1>1 DEF UpdateWrite, DeleteWrite, Sound, Prudent, At, TypeOK
<1>3. reqs'[r] # reqs[r]
  <2>1. Go(r, Revocation(q.target)) \/ Go(r, NoReq)
    BY <1>1 DEF UpdateWrite, DeleteWrite, Return
  <2>2. reqs'[r].pc # "write"
    BY <2>1 DEF Go, Revocation, NoReq, Sound, TypeOK
  <2>3. QED
    BY <1>2, <2>2 DEF At
<1>4. ASSUME q.admins = Admins PROVE FALSE
  <2>1. ASSUME NEW a \in users, a.role = "admin", a.id # q.ask.id PROVE FALSE
    <3>1. a \in users'
      BY <1>1, <2>1 DEF UpdateWrite, DeleteWrite, UpdateRow, WithId
    <3>2. QED
      BY <2>1, <3>1 DEF Admins
  <2>2. Admins \subseteq {q.ask.id}
    BY <2>1 DEF Admins
  <2>3. q.ask.id \in Admins /\ q.ask.op = "update" /\ NewRole(q) = "admin"
    BY <1>2, <1>4, <2>2 DEF Spares
  <2>4. PICK a \in WithId(q.ask.id) : TRUE
    BY <2>3 DEF Admins, WithId
  <2>5. CASE UNCHANGED users
    BY <2>5 DEF Admins
  <2>6. CASE UpdateRow(q.ask.id, NewName(q), NewRole(q))
    <3> DEFINE b == [a EXCEPT !.name = NewName(q), !.role = NewRole(q)]
    <3>1. b \in users'
      BY <2>4, <2>6 DEF UpdateRow
    <3>2. b.role = "admin"
      BY <2>3, <2>4 DEF Sound, TypeOK, User, WithId
    <3>3. QED
      BY <3>1, <3>2 DEF Admins
  <2>7. QED
    BY <1>1, <2>3, <2>5, <2>6 DEF UpdateWrite, DeleteWrite
<1>5. QED
  BY <1>2, <1>3, <1>4

(* The last admin is taken away only by a request whose knowledge of the   *)
(* admins is stale: requests that do not overlap always leave one.         *)
THEOREM LastAdminKept == Spec => AdminsKept
<1>1. Sound /\ [Next]_vars =>
        [Admins # {} /\ Admins' = {} =>
           \E r \in Reqs : At(r, "write") /\ reqs'[r] # reqs[r] /\ reqs[r].admins # Admins]_vars
  BY AdminsStep
<1>2. QED
  BY <1>1, SoundAlways, PTL DEF Spec, AdminsKept

-----------------------------------------------------------------------------
(* Every session whose account no longer bears its name is accounted for.  *)

Tracked(s) == Current(s) \/ s.late \/ s.uid \in untracked \/ UnderRevocation(s)

(* The request with locals q is about to delete session s.                 *)
Dooms(q, s) ==
  \/ q.pc = "revoke" /\ q.target.id = s.uid /\ q.target.name = s.name
  \/ q.pc = "revoking" /\ q.target.id = s.uid /\ s.sid \in q.doomed

LEMMA RevocationDooms ==
  ASSUME NEW s
  PROVE  /\ UnderRevocation(s) <=> \E x \in Reqs : Dooms(reqs[x], s)
         /\ UnderRevocation(s)' <=> \E x \in Reqs : Dooms(reqs'[x], s)
  BY DEF UnderRevocation, Dooms, Revoking, At

(* A step of request r disturbs no revocation that r itself is not making. *)
LEMMA OthersRevoke ==
  ASSUME TypeOK, NEW r \in Reqs, NEW l, Go(r, l), NEW s,
         UnderRevocation(s), Dooms(reqs[r], s) => Dooms(l, s)
  PROVE  UnderRevocation(s)'
<1>1. PICK x \in Reqs : Dooms(reqs[x], s)
  BY RevocationDooms
<1>2. Dooms(reqs'[x], s)
  BY <1>1 DEF Go, TypeOK
<1>3. QED
  BY <1>2, RevocationDooms

LEMMA IdleDoomsNone == ASSUME NEW s PROVE ~Dooms(NoReq, s)
  BY DEF Dooms, NoReq

(* A step that leaves accounts, and what is untracked, as they are, and    *)
(* that no revocation makes, keeps every session tracked.                  *)
LEMMA QuietStep ==
  ASSUME TypeOK, NEW r \in Reqs, NEW l, Go(r, l), ~Revoking(r),
         users \subseteq users', untracked \subseteq untracked',
         NEW s, Tracked(s)
  PROVE  Tracked(s)'
<1>1. Current(s) => Current(s)'
  BY DEF Current
<1>2. ~Dooms(reqs[r], s)
  BY DEF Dooms, Revoking
<1>3. UnderRevocation(s) => UnderRevocation(s)'
  BY <1>2, OthersRevoke
<1>4. QED
  BY <1>1, <1>3 DEF Tracked

(* The same for all the steps of that kind.                                *)
Quiet(r) ==
  /\ \E l : Go(r, l)
  /\ ~Revoking(r)
  /\ users \subseteq users'
  /\ UNCHANGED untracked
  /\ sessions' \subseteq sessions

LEMMA QuietTracked ==
  ASSUME TypeOK, SessionsTracked, NEW r \in Reqs, Quiet(r)
  PROVE  SessionsTracked'
<1>1. PICK l : Go(r, l)
  BY DEF Quiet
<1>2. ASSUME NEW s \in sessions' PROVE Tracked(s)'
  <2>1. Tracked(s)
    BY <1>2 DEF Quiet, SessionsTracked, Tracked
  <2>2. QED
    BY <1>1, <2>1, QuietStep DEF Quiet
<1>3. QED
  BY <1>2 DEF SessionsTracked, Tracked

(* The steps that are neither a login being saved, nor a change of name, a *)
(* deletion or a revocation.                                               *)
LEMMA QuietSteps ==
  ASSUME TypeOK, NEW r \in Reqs,
         \/ Setup(r) \/ LoginBegin(r) \/ LoginRead(r) \/ LoginCycle(r)
         \/ AdminBegin(r) \/ Authorize(r) \/ CreateCheck(r) \/ CreateInsert(r)
         \/ ReadTarget(r) \/ CountAdmins(r) \/ NameCheck(r)
         \/ MeBegin(r) \/ MeRead(r) \/ MeCheck(r) \/ MeFlush(r)
  PROVE  Quiet(r)
<1>1. ASSUME NEW l, Begin(r, l) PROVE Quiet(r)
  <2>1. Go(r, l)
    BY <1>1 DEF Begin, Go
  <2>2. ~Revoking(r)
    BY <1>1 DEF Begin, NoReq, Revoking
  <2>3. QED
    BY <1>1, <2>1, <2>2 DEF Begin, Quiet
<1>2. ASSUME Return(r) PROVE \E l : Go(r, l)
  BY <1>2 DEF Return
<1>3. CASE Setup(r)
  BY <1>1, <1>2, <1>3, InsertKeepsUsers
  DEF Setup, SetupBegin, SetupCount, SetupInsert, At, Revoking, Quiet, Reads
<1>4. CASE LoginBegin(r) \/ LoginRead(r) \/ LoginCycle(r)
  BY <1>1, <1>2, <1>4 DEF LoginBegin, LoginRead, LoginCycle, At, Revoking, Quiet, Reads
<1>5. CASE AdminBegin(r)
  BY <1>1, <1>5 DEF AdminBegin
<1>6. CASE Authorize(r)
  BY <1>2, <1>6 DEF Authorize, At, Revoking, Quiet, Reads
<1>7. CASE CreateCheck(r) \/ CreateInsert(r)
  BY <1>2, <1>7, InsertKeepsUsers DEF CreateCheck, CreateInsert, At, Revoking, Quiet, Reads
<1>8. CASE ReadTarget(r)
  BY <1>2, <1>8 DEF ReadTarget, At, Revoking, Quiet, Reads
<1>9. CASE CountAdmins(r) \/ NameCheck(r)
  BY <1>2, <1>9 DEF CountAdmins, NameCheck, At, Revoking, Quiet, Reads
<1>10. CASE MeBegin(r)
  BY <1>1, <1>10 DEF MeBegin
<1>11. CASE MeRead(r) \/ MeCheck(r)
  BY <1>2, <1>11 DEF MeRead, MeCheck, At, Revoking, Quiet, Reads
<1>12. CASE MeFlush(r)
  BY <1>2, <1>12 DEF MeFlush, At, Revoking, Quiet
<1>13. QED
  BY <1>3, <1>4, <1>5, <1>6, <1>7, <1>8, <1>9, <1>10, <1>11, <1>12

(* A session saved after its account lost the name is marked late.         *)
LEMMA SaveTracked ==
  ASSUME TypeOK, SessionsTracked, NEW r \in Reqs, LoginSave(r)
  PROVE  SessionsTracked'
<1> DEFINE u == reqs[r].user
           row == [sid |-> count.sid + 1, name |-> u.name, role |-> u.role, uid |-> u.id,
                   late |-> \A v \in WithId(u.id) : v.name # u.name]
<1>1. sessions' = sessions \cup {row} /\ UNCHANGED <<users, untracked>>
  BY DEF LoginSave
<1>2. Go(r, NoReq) /\ ~Revoking(r)
  BY DEF LoginSave, Return, At, Revoking
<1>3. ASSUME NEW s \in sessions PROVE Tracked(s)'
  BY <1>1, <1>2, QuietStep DEF SessionsTracked, Tracked
<1>4. PICK new \in {row} : new = row
  OBVIOUS
<1>5. Current(new)' \/ new.late
  <2>1. CASE \A v \in WithId(u.id) : v.name # u.name
    BY <1>4, <2>1
  <2>2. CASE \E v \in WithId(u.id) : v.name = u.name
    <3>1. \E v \in users : v.id = new.uid /\ v.name = new.name
      BY <1>4, <2>2 DEF WithId
    <3>2. QED
      BY <1>1, <3>1 DEF Current
  <2>3. QED
    BY <2>1, <2>2
<1>6. ASSUME NEW s \in sessions' PROVE Tracked(s)'
  <2>1. CASE s \in sessions
    BY <1>3, <2>1
  <2>2. CASE s = new
    BY <1>5, <2>2 DEF Tracked
  <2>3. QED
    BY <1>1, <1>4, <2>1, <2>2
<1>7. QED
  BY <1>6 DEF SessionsTracked, Tracked

(* A change of name or a deletion puts every session it leaves without its *)
(* account under revocation, or records the account as untracked.          *)
LEMMA UpdateTracked ==
  ASSUME Sound, SessionsTracked, NEW r \in Reqs, UpdateWrite(r)
  PROVE  SessionsTracked'
<1> DEFINE q    == reqs[r]
           i    == q.ask.id
           name == NewName(q)
<1>1. PICK l : Go(r, l) /\ l \in {NoReq, Revocation(q.target)}
  BY DEF UpdateWrite, Return
<1>2. /\ ~Revoking(r) /\ q.target.id = i /\ TypeOK
      /\ UNCHANGED sessions /\ untracked \subseteq untracked'
  BY DEF UpdateWrite, At, Revoking, Sound, Prudent
<1>3. ASSUME NEW s \in sessions, Tracked(s) PROVE Tracked(s)'
  <2>1. CASE UNCHANGED users
    BY <1>1, <1>2, <1>3, <2>1, QuietStep
  <2>2. CASE s.late \/ s.uid \in untracked
    BY <1>2, <2>2 DEF Tracked
  <2>3. CASE UnderRevocation(s)
    <3>1. ~Dooms(q, s)
      BY <1>2 DEF Dooms, Revoking
    <3>2. QED
      BY <1>1, <1>2, <2>3, <3>1, OthersRevoke DEF Tracked
  <2>4. CASE Current(s) /\ ~UNCHANGED users
    <3>1. PICK u \in users : u.id = s.uid /\ u.name = s.name
      BY <2>4 DEF Current
    <3>2. /\ UpdateRow(i, name, NewRole(q))
          /\ untracked' = untracked \cup Loses(i, {q.target.name, name})
          /\ name # q.target.name => Go(r, Revocation(q.target))
      BY <2>4 DEF UpdateWrite
    <3>3. CASE u.id # i
      <4>1. u \in users'
        BY <3>2, <3>3 DEF UpdateRow, WithId
      <4>2. QED
        BY <3>1, <4>1 DEF Current, Tracked
    <3>4. CASE u.id = i /\ u.name = name
      <4> DEFINE b == [u EXCEPT !.name = name, !.role = NewRole(q)]
      <4>1. b \in users'
        BY <3>2, <3>4 DEF UpdateRow, WithId
      <4>2. b.id = u.id /\ b.name = u.name
        BY <1>2, <3>4 DEF TypeOK, User
      <4>3. QED
        BY <3>1, <4>1, <4>2 DEF Current, Tracked
    <3>5. CASE u.id = i /\ u.name \notin {q.target.name, name}
      <4>1. i \in Loses(i, {q.target.name, name})
        BY <3>5 DEF Loses, WithId
      <4>2. QED
        BY <3>1, <3>2, <3>5, <4>1 DEF Tracked
    <3>6. CASE u.id = i /\ u.name = q.target.name /\ u.name # name
      <4>1. reqs'[r] = Revocation(q.target)
        BY <1>2, <3>2, <3>6 DEF Go, TypeOK
      <4>2. Dooms(reqs'[r], s)
        BY <1>2, <3>1, <3>6, <4>1 DEF Dooms, Revocation
      <4>3. QED
        BY <4>2, RevocationDooms DEF Tracked
    <3>7. QED
      BY <3>3, <3>4, <3>5, <3>6
  <2>5. QED
    BY <1>3, <2>1, <2>2, <2>3, <2>4 DEF Tracked
<1>4. QED
  BY <1>2, <1>3 DEF SessionsTracked, Tracked

LEMMA DeleteTracked ==
  ASSUME Sound, SessionsTracked, NEW r \in Reqs, DeleteWrite(r)
  PROVE  SessionsTracked'
<1> DEFINE q == reqs[r]
           i == q.ask.id
<1>1. PICK l : Go(r, l)
  BY DEF DeleteWrite, Return
<1>2. /\ ~Revoking(r) /\ q.target.id = i /\ TypeOK
      /\ UNCHANGED sessions /\ untracked \subseteq untracked'
  BY DEF DeleteWrite, At, Revoking, Sound, Prudent
<1>3. ASSUME NEW s \in sessions, Tracked(s) PROVE Tracked(s)'
  <2>1. CASE s.late \/ s.uid \in untracked
    BY <1>2, <2>1 DEF Tracked
  <2>2. CASE UnderRevocation(s)
    <3>1. ~Dooms(q, s)
      BY <1>2 DEF Dooms, Revoking
    <3>2. QED
      BY <1>1, <1>2, <2>2, <3>1, OthersRevoke DEF Tracked
  <2>3. CASE Current(s)
    <3>1. PICK u \in users : u.id = s.uid /\ u.name = s.name
      BY <2>3 DEF Current
    <3>2. CASE u.id # i
      BY <3>1, <3>2 DEF DeleteWrite, WithId, Current, Tracked
    <3>3. CASE u.id = i /\ u.name # q.target.name
      BY <3>1, <3>3 DEF DeleteWrite, Loses, WithId, Tracked
    <3>4. CASE u.id = i /\ u.name = q.target.name
      <4>1. Go(r, Revocation(q.target))
        BY <3>4 DEF DeleteWrite, WithId
      <4>2. reqs'[r] = Revocation(q.target)
        BY <1>2, <4>1 DEF Go, TypeOK
      <4>3. Dooms(reqs'[r], s)
        BY <1>2, <3>1, <3>4, <4>2 DEF Dooms, Revocation
      <4>4. QED
        BY <4>3, RevocationDooms DEF Tracked
    <3>5. QED
      BY <3>2, <3>3, <3>4
  <2>4. QED
    BY <1>3, <2>1, <2>2, <2>3 DEF Tracked
<1>4. QED
  BY <1>2, <1>3 DEF SessionsTracked, Tracked

LEMMA MeTracked ==
  ASSUME Sound, SessionsTracked, NEW r \in Reqs, MeWrite(r)
  PROVE  SessionsTracked'
<1> DEFINE q == reqs[r]
<1>1. PICK l : Go(r, l)
  BY DEF MeWrite, Return
<1>2. /\ ~Revoking(r) /\ TypeOK
      /\ UNCHANGED sessions /\ untracked \subseteq untracked'
  BY DEF MeWrite, At, Revoking, Sound
<1>3. ASSUME NEW s \in sessions, Tracked(s) PROVE Tracked(s)'
  <2>1. CASE UNCHANGED users
    BY <1>1, <1>2, <1>3, <2>1, QuietStep
  <2>2. CASE s.late \/ s.uid \in untracked
    BY <1>2, <2>2 DEF Tracked
  <2>3. CASE UnderRevocation(s)
    <3>1. ~Dooms(q, s)
      BY <1>2 DEF Dooms, Revoking
    <3>2. QED
      BY <1>1, <1>2, <2>3, <3>1, OthersRevoke DEF Tracked
  <2>4. CASE Current(s) /\ ~UNCHANGED users
    <3>1. PICK u \in users : u.id = s.uid /\ u.name = s.name
      BY <2>4 DEF Current
    <3>2. UpdateName(q.id, q.name) /\ untracked' = untracked \cup Loses(q.id, {q.name})
      BY <2>4 DEF MeWrite
    <3>3. CASE u.id # q.id
      <4>1. u \in users'
        BY <3>2, <3>3 DEF UpdateName, WithId
      <4>2. QED
        BY <3>1, <4>1 DEF Current, Tracked
    <3>4. CASE u.id = q.id /\ u.name = q.name
      <4> DEFINE b == [u EXCEPT !.name = q.name]
      <4>1. b \in users'
        BY <3>2, <3>4 DEF UpdateName, WithId
      <4>2. b.id = u.id /\ b.name = u.name
        BY <1>2, <3>4 DEF TypeOK, User
      <4>3. QED
        BY <3>1, <4>1, <4>2 DEF Current, Tracked
    <3>5. CASE u.id = q.id /\ u.name # q.name
      BY <3>1, <3>2, <3>5 DEF Loses, WithId, Tracked
    <3>6. QED
      BY <3>3, <3>4, <3>5
  <2>5. QED
    BY <1>3, <2>1, <2>2, <2>3, <2>4 DEF Tracked
<1>4. QED
  BY <1>2, <1>3 DEF SessionsTracked, Tracked

(* Revocation dooms every session under the name, and ends only when all   *)
(* of them are gone; one that stops is recorded.                           *)
LEMMA RevokeTracked ==
  ASSUME TypeOK, SessionsTracked, NEW r \in Reqs, Revoke(r) \/ RevokeRow(r) \/ Abort(r)
  PROVE  SessionsTracked'
<1> DEFINE q == reqs[r]
<1>1. q \in Locals
  BY DEF TypeOK
<1>2. ASSUME NEW s \in sessions', s \in sessions, Tracked(s) PROVE Tracked(s)'
  <2>1. UNCHANGED users /\ untracked \subseteq untracked'
    BY DEF Revoke, RevokeRow, Abort, Reads
  <2>2. CASE ~UnderRevocation(s)
    BY <1>2, <2>1, <2>2 DEF Tracked, Current
  <2>3. CASE UnderRevocation(s) /\ Revoke(r)
    <3> DEFINE dead == {x.sid : x \in {t \in sessions : t.name = q.target.name}}
               l    == [pc |-> "revoking", target |-> q.target, doomed |-> dead]
    <3>1. q.pc = "revoke" /\ Go(r, l)
      BY <2>3 DEF Revoke, At
    <3>2. Dooms(q, s) => Dooms(l, s)
      BY <1>2, <3>1 DEF Dooms
    <3>3. QED
      BY <2>3, <3>1, <3>2, OthersRevoke DEF Tracked
  <2>4. CASE UnderRevocation(s) /\ RevokeRow(r)
    <3>1. q.pc = "revoking" /\ q \in RowsLocals
      BY <1>1, <2>4, LocalsAt DEF RevokeRow, At
    <3>2. CASE q.doomed = {} /\ Return(r)
      <4>1. ~Dooms(q, s)
        BY <3>1, <3>2 DEF Dooms
      <4>2. QED
        BY <2>4, <3>2, <4>1, OthersRevoke DEF Tracked, Return
    <3>3. CASE \E sid \in q.doomed : /\ sessions' = {x \in sessions : x.sid # sid}
                                     /\ Go(r, [q EXCEPT !.doomed = @ \ {sid}])
      <4>1. PICK sid \in q.doomed : /\ sessions' = {x \in sessions : x.sid # sid}
                                    /\ Go(r, [q EXCEPT !.doomed = @ \ {sid}])
        BY <3>3
      <4> DEFINE l == [q EXCEPT !.doomed = @ \ {sid}]
      <4>2. l.pc = q.pc /\ l.target = q.target /\ l.doomed = q.doomed \ {sid}
        BY <3>1 DEF RowsLocals
      <4>3. Dooms(q, s) => Dooms(l, s)
        BY <1>2, <3>1, <4>1, <4>2 DEF Dooms
      <4>4. QED
        BY <2>4, <4>1, <4>3, OthersRevoke DEF Tracked
    <3>4. QED
      BY <2>4, <3>2, <3>3 DEF RevokeRow
  <2>5. CASE UnderRevocation(s) /\ Abort(r)
    <3>1. CASE Dooms(q, s)
      BY <2>5, <3>1 DEF Abort, Dooms, Revoking, Tracked
    <3>2. CASE ~Dooms(q, s)
      BY <2>5, <3>2, OthersRevoke DEF Abort, Return, Tracked
    <3>3. QED
      BY <3>1, <3>2
  <2>6. QED
    BY <2>2, <2>3, <2>4, <2>5
<1>3. sessions' \subseteq sessions
  BY DEF Revoke, RevokeRow, Abort, Reads
<1>4. QED
  BY <1>2, <1>3 DEF SessionsTracked, Tracked

LEMMA TrackedStep ==
  ASSUME Sound, SessionsTracked, [Next]_vars
  PROVE  SessionsTracked'
<1>1. ASSUME NEW r \in Reqs, Setup(r) \/ Login(r) \/ Manage(r) \/ Me(r) \/ Abort(r)
      PROVE  SessionsTracked'
  <2>1. CASE LoginSave(r)
    BY <2>1, SaveTracked DEF Sound
  <2>2. CASE UpdateWrite(r)
    BY <2>2, UpdateTracked
  <2>3. CASE DeleteWrite(r)
    BY <2>3, DeleteTracked
  <2>4. CASE MeWrite(r)
    BY <2>4, MeTracked
  <2>5. CASE Revoke(r) \/ RevokeRow(r) \/ Abort(r)
    BY <2>5, RevokeTracked DEF Sound
  <2>6. QED
    BY <1>1, <2>1, <2>2, <2>3, <2>4, <2>5, QuietSteps, QuietTracked
    DEF Sound, Login, Manage, Me
<1>2. ASSUME UNCHANGED <<users, reqs, untracked>>, sessions' \subseteq sessions
      PROVE  SessionsTracked'
  BY <1>2 DEF SessionsTracked, Current, UnderRevocation, Revoking, At
<1>3. QED
  BY <1>1, <1>2 DEF Next, SessionEnds, vars

LEMMA InitTracked == Init => SessionsTracked
  BY AccountsAssumption DEF Init, SessionsTracked, Current

(* A session outlives its account, or the name it was opened under, only   *)
(* in the cases that SessionsTracked lists, whatever the interleaving.     *)
THEOREM SessionsAccountedFor == Spec => []SessionsTracked
<1>1. Sound /\ SessionsTracked /\ [Next]_vars => SessionsTracked'
  BY TrackedStep
<1>2. QED
  BY <1>1, InitTracked, SoundAlways, PTL DEF Spec
=============================================================================
