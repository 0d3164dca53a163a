------------------------------ MODULE Accounts ------------------------------
(***************************************************************************)
(* Local accounts and their sessions: setup.rs, api/users.rs, the local    *)
(* login, logout and update_me of api/auth.rs, middleware/auth.rs and      *)
(* session_store.rs, with the session layer they run under.                *)
(*                                                                         *)
(* Every request is a sequence of SQL statements, each a transaction of    *)
(* its own, with awaits in between at which other requests run.  What a    *)
(* handler read stays in its local variables, however stale.  A request    *)
(* may stop at any await: a statement fails and the handler returns an     *)
(* error, the client goes away and the handler is dropped, or the server   *)
(* dies.  Passwords are left out: whether one is right is a free choice,   *)
(* and a wrong one stops the request.                                      *)
(***************************************************************************)
EXTENDS Integers, FiniteSets

CONSTANTS
  Names,         \* user names
  Reqs,          \* slots for requests in flight
  Databases,     \* contents of the database, and the auth.mode, when the server starts
  MaxUsers,      \* bound: account ids given out
  MaxLogins,     \* bound: session ids given out
  MaxRequests,   \* bound: requests begun
  MaxAborts      \* bound: requests that stop half-way

Roles == {"admin", "viewer"}
Ids   == 1..MaxUsers
Sids  == 1..MaxLogins

User    == [id : Ids, name : Names, role : Roles]
(* A row of tower_sessions.  The history fields: uid, the account that     *)
(* logged in; late, whether by the time the row was saved that account was *)
(* gone or had another name.                                               *)
Session == [sid : Sids, name : Names, role : Roles, uid : Ids, late : BOOLEAN]

Keep    == "keep"     \* an optional field that a PATCH leaves out
Unknown == "unknown"  \* who acts without a session
Modes   == {"session", "none"}

(* A database: the two tables, and the highest ids given out so far.       *)
ASSUME AccountsAssumption ==
  /\ Keep \notin Names
  /\ MaxUsers \in Nat /\ MaxLogins \in Nat /\ MaxRequests \in Nat /\ MaxAborts \in Nat
  /\ \A db \in Databases :
       /\ db.mode \in Modes
       /\ db.users \subseteq User /\ db.lastId \in Nat /\ db.lastSid \in Nat
       /\ \A u, v \in db.users : u.id = v.id \/ u.name = v.name => u = v
       /\ \A u \in db.users : u.id <= db.lastId
       /\ db.sessions \subseteq Session
       /\ \A s \in db.sessions : \E u \in db.users : u.id = s.uid /\ u.name = s.name

VARIABLES
  users,     \* the table users
  sessions,  \* the table tower_sessions
  reqs,      \* the local variables of the request in each slot
  untracked, \* history: accounts that lost a name, or their row, without a
             \* completed revocation of the sessions under that name
  count,     \* the last ids given out, and how much of each bound is used
  mode       \* auth.mode of this server

vars == <<users, sessions, reqs, untracked, count, mode>>

Named(n)   == {u \in users : u.name = n}
WithId(i)  == {u \in users : u.id = i}
Admins     == {u.id : u \in {v \in users : v.role = "admin"}}
Current(s) == \E u \in users : u.id = s.uid /\ u.name = s.name

NoReq == [pc |-> "idle"]

Init ==
  /\ \E db \in Databases :
       /\ users = db.users
       /\ sessions = db.sessions /\ mode = db.mode
       /\ count = [id |-> db.lastId, sid |-> db.lastSid, reqs |-> 0, aborts |-> 0]
  /\ reqs = [r \in Reqs |-> NoReq]
  /\ untracked = {}

-----------------------------------------------------------------------------
(* Steps of a request, and the SQL statements several of them use.         *)

Begin(r, locals) ==
  /\ reqs[r] = NoReq /\ count.reqs < MaxRequests
  /\ reqs' = [reqs EXCEPT ![r] = locals]
  /\ count' = [count EXCEPT !.reqs = @ + 1]
  /\ UNCHANGED <<users, sessions, untracked, mode>>

At(r, pc) == reqs[r].pc = pc
Go(r, locals) == reqs' = [reqs EXCEPT ![r] = locals]
Return(r) == Go(r, NoReq)

(* A step that only reads.                                                 *)
Reads == UNCHANGED <<users, sessions, untracked, count, mode>>

(* Mutants: an id that can be given out again; a name that is not UNIQUE.  *)
InsertReusesId(name, role) ==
  IF Named(name) # {}
  THEN UNCHANGED <<users, count>>
  ELSE /\ count.id < MaxUsers
       /\ users' = users \cup {[id |-> count.id + 1, name |-> name, role |-> role]}
       /\ UNCHANGED count

InsertAnyName(name, role) ==
  /\ count.id < MaxUsers
  /\ users' = users \cup {[id |-> count.id + 1, name |-> name, role |-> role]}
  /\ count' = [count EXCEPT !.id = @ + 1]

(* users.username is UNIQUE and users.id AUTOINCREMENT.                    *)
Insert(name, role) ==
  IF Named(name) # {}
  THEN UNCHANGED <<users, count>>
  ELSE /\ count.id < MaxUsers
       /\ users' = users \cup {[id |-> count.id + 1, name |-> name, role |-> role]}
       /\ count' = [count EXCEPT !.id = @ + 1]

Taken(i, name) == \E u \in Named(name) : u.id # i

UpdateName(i, name) ==
  users' = (users \ WithId(i)) \cup {[u EXCEPT !.name = name] : u \in WithId(i)}

UpdateRow(i, name, role) ==
  users' = (users \ WithId(i)) \cup {[u EXCEPT !.name = name, !.role = role] : u \in WithId(i)}

-----------------------------------------------------------------------------
(* The first account: setup::create_admin.                                 *)

SetupBegin(r) == \E name \in Names : Begin(r, [pc |-> "setupCount", name |-> name])

SetupCount(r) ==
  /\ At(r, "setupCount")
  /\ IF users # {} THEN Return(r) ELSE Go(r, [reqs[r] EXCEPT !.pc = "setupInsert"])
  /\ Reads

(* The column role defaults to admin (003_user_roles.sql).                 *)
SetupInsert(r) ==
  /\ At(r, "setupInsert")
  /\ Insert(reqs[r].name, "admin")
  /\ Return(r)
  /\ UNCHANGED <<sessions, untracked, mode>>

-----------------------------------------------------------------------------
(* Sessions: login_local, logout, and the session layer, which saves the   *)
(* row of a new session only when the handler has returned.                *)

LoginBegin(r) == \E name \in Names : Begin(r, [pc |-> "login", name |-> name])

LoginRead(r) ==
  /\ At(r, "login")
  /\ \/ Named(reqs[r].name) = {} /\ Return(r)
     \/ \E u \in Named(reqs[r].name) : Go(r, [pc |-> "cycle", user |-> u])
  /\ Reads

(* cycle_id deletes the row of the session the client already had, if any, *)
(* and goes on when that fails.                                            *)
LoginCycle(r) ==
  /\ At(r, "cycle")
  /\ \E old \in {{}} \cup {{s} : s \in sessions} : sessions' = sessions \ old
  /\ Go(r, [reqs[r] EXCEPT !.pc = "save"])
  /\ UNCHANGED <<users, untracked, count, mode>>

LoginSave(r) ==
  /\ At(r, "save") /\ count.sid < MaxLogins
  /\ LET u == reqs[r].user
     IN  sessions' = sessions \cup
           {[sid |-> count.sid + 1, name |-> u.name, role |-> u.role, uid |-> u.id,
             late |-> \A v \in WithId(u.id) : v.name # u.name]}
  /\ count' = [count EXCEPT !.sid = @ + 1]
  /\ Return(r)
  /\ UNCHANGED <<users, untracked, mode>>

(* A logout, or the expiry of a session.                                   *)
SessionEnds ==
  /\ \E s \in sessions : sessions' = sessions \ {s}
  /\ UNCHANGED <<users, reqs, untracked, count, mode>>

-----------------------------------------------------------------------------
(* Account management: require_admin, unless auth.mode is "none", then the *)
(* handlers of api/users.rs.                                               *)

CreateAsk == [op : {"create"}, name : Names, role : Roles]
UpdateAsk == [op : {"update"}, id : Ids, name : Names \cup {Keep}, role : Roles \cup {Keep}]
DeleteAsk == [op : {"delete"}, id : Ids]

(* The handler of a request that is let in.                                *)
Admitted(actor, ask) ==
  IF ask.op = "create" THEN [pc |-> "createCheck", ask |-> ask]
  ELSE [pc |-> "read", actor |-> actor, ask |-> ask]

AdminBegin(r) ==
  \E ask \in CreateAsk \cup UpdateAsk \cup DeleteAsk :
    \/ /\ mode = "session"
       /\ \E s \in sessions : Begin(r, [pc |-> "authorize", ses |-> s, ask |-> ask])
    \/ /\ mode = "none"
       /\ \E actor \in {s.name : s \in sessions} \cup {Unknown} : Begin(r, Admitted(actor, ask))

(* resolve_role: the role in the table, or the one cached in the session   *)
(* when the name has no account or the SELECT fails.                       *)
RoleOf(s) == IF Named(s.name) = {} THEN {s.role} ELSE {u.role : u \in Named(s.name)}

Authorize(r) ==
  /\ At(r, "authorize")
  /\ LET ask == reqs[r].ask
         ses == reqs[r].ses
     IN  \E role \in RoleOf(ses) \cup {ses.role} :
           IF role = "admin" THEN Go(r, Admitted(ses.name, ask)) ELSE Return(r)
  /\ Reads

(* create_user: a failed SELECT counts as a free name.                     *)
CreateCheck(r) ==
  /\ At(r, "createCheck")
  /\ \/ Named(reqs[r].ask.name) # {} /\ Return(r)
     \/ Go(r, [reqs[r] EXCEPT !.pc = "createInsert"])
  /\ Reads

CreateInsert(r) ==
  /\ At(r, "createInsert")
  /\ Insert(reqs[r].ask.name, reqs[r].ask.role)
  /\ Return(r)
  /\ UNCHANGED <<sessions, untracked, mode>>

(* What a PATCH writes: the fields it leaves out keep the value it read.   *)
NewName(q) == IF q.ask.name = Keep THEN q.target.name ELSE q.ask.name
NewRole(q) == IF q.ask.role = Keep THEN q.target.role ELSE q.ask.role

OnSelf(ask) == ask.op = "delete" \/ ask.role = "viewer"

(* Does the request, as far as it knows, take an admin away?               *)
Removes(ask, target) ==
  target.role = "admin" /\ (ask.op = "delete" \/ ask.role = "viewer")

AfterGuards(ask) == IF ask.op = "update" THEN "nameCheck" ELSE "write"

(* update_user, delete_user: the account acted on is read once.  admins is *)
(* history: the admins there were at the last read a decision rests on.    *)
ReadTarget(r) ==
  /\ At(r, "read")
  /\ LET ask == reqs[r].ask
     IN  \/ WithId(ask.id) = {} /\ Return(r)
         \/ \E u \in WithId(ask.id) :
              IF u.name = reqs[r].actor /\ OnSelf(ask)
              THEN Return(r)
              ELSE Go(r, [pc |-> IF Removes(ask, u) THEN "countAdmins" ELSE AfterGuards(ask),
                          ask |-> ask, target |-> u, admins |-> Admins])
  /\ Reads

(* Mutant: the guard against removing the last admin is off by one.        *)
CountAdminsLate(r) ==
  /\ At(r, "countAdmins")
  /\ IF Cardinality(Admins) < 1
     THEN Return(r)
     ELSE Go(r, [reqs[r] EXCEPT !.pc = AfterGuards(reqs[r].ask), !.admins = Admins])
  /\ Reads

CountAdmins(r) ==
  /\ At(r, "countAdmins")
  /\ IF Cardinality(Admins) <= 1
     THEN Return(r)
     ELSE Go(r, [reqs[r] EXCEPT !.pc = AfterGuards(reqs[r].ask), !.admins = Admins])
  /\ Reads

NameCheck(r) ==
  /\ At(r, "nameCheck")
  /\ \/ /\ NewName(reqs[r]) # reqs[r].target.name
        /\ Taken(reqs[r].ask.id, NewName(reqs[r]))
        /\ Return(r)
     \/ Go(r, [reqs[r] EXCEPT !.pc = "write"])
  /\ Reads

(* The names that account i stops having and that are not among `known`.   *)
Loses(i, known) == IF \E u \in WithId(i) : u.name \notin known THEN {i} ELSE {}

Revocation(target) == [pc |-> "revoke", target |-> target]

(* The UPDATE fails on a taken name, and touches nothing when the account  *)
(* is gone; the sessions revoked are those of the name that was read.      *)
UpdateWrite(r) ==
  LET q    == reqs[r]
      i    == q.ask.id
      name == NewName(q)
      role == NewRole(q)
  IN  /\ At(r, "write") /\ q.ask.op = "update"
      /\ \/ WithId(i) # {} /\ Taken(i, name) /\ Return(r) /\ UNCHANGED <<users, untracked>>
         \/ /\ WithId(i) = {} \/ ~Taken(i, name)
            /\ UpdateRow(i, name, role)
            /\ untracked' = untracked \cup Loses(i, {q.target.name, name})
            /\ IF name # q.target.name \/ role # q.target.role
               THEN Go(r, Revocation(q.target))
               ELSE Return(r)
      /\ UNCHANGED <<sessions, count, mode>>

DeleteWrite(r) ==
  LET q == reqs[r]
      i == q.ask.id
  IN  /\ At(r, "write") /\ q.ask.op = "delete"
      /\ users' = users \ WithId(i)
      /\ untracked' = untracked \cup Loses(i, {q.target.name})
      /\ IF WithId(i) # {} THEN Go(r, Revocation(q.target)) ELSE Return(r)
      /\ UNCHANGED <<sessions, count, mode>>

(* delete_by_username: select every row, then delete the matching ones one *)
(* by one.                                                                 *)
Revoke(r) ==
  /\ At(r, "revoke")
  /\ LET target == reqs[r].target
     IN  Go(r, [pc |-> "revoking", target |-> target,
                doomed |-> {s.sid : s \in {t \in sessions : t.name = target.name}}])
  /\ Reads

(* Mutant: only the first matching row is deleted.                         *)
RevokeOneRow(r) ==
  /\ At(r, "revoking")
  /\ IF reqs[r].doomed = {} THEN UNCHANGED sessions
     ELSE \E sid \in reqs[r].doomed : sessions' = {s \in sessions : s.sid # sid}
  /\ Return(r)
  /\ UNCHANGED <<users, untracked, count, mode>>

RevokeRow(r) ==
  /\ At(r, "revoking")
  /\ \/ /\ reqs[r].doomed = {}
        /\ Return(r)
        /\ UNCHANGED sessions
     \/ \E sid \in reqs[r].doomed :
          /\ sessions' = {s \in sessions : s.sid # sid}
          /\ Go(r, [reqs[r] EXCEPT !.doomed = @ \ {sid}])
  /\ UNCHANGED <<users, untracked, count, mode>>

-----------------------------------------------------------------------------
(* An account changes itself: update_me.  Only the request's own session   *)
(* is flushed.                                                             *)

MeBegin(r) ==
  \E s \in sessions, name \in Names \cup {Keep} :
    Begin(r, [pc |-> "me", ses |-> s, name |-> name])

MeRead(r) ==
  /\ At(r, "me")
  /\ LET q == reqs[r]
     IN  \/ Named(q.ses.name) = {} /\ Return(r)
         \/ \E u \in Named(q.ses.name) :
              Go(r, IF q.name = Keep THEN [pc |-> "meFlush", ses |-> q.ses]
                    ELSE [pc |-> "meCheck", ses |-> q.ses, name |-> q.name, id |-> u.id])
  /\ Reads

MeCheck(r) ==
  /\ At(r, "meCheck")
  /\ \/ Taken(reqs[r].id, reqs[r].name) /\ Return(r)
     \/ Go(r, [reqs[r] EXCEPT !.pc = "meWrite"])
  /\ Reads

MeWrite(r) ==
  LET q == reqs[r]
  IN  /\ At(r, "meWrite")
      /\ \/ WithId(q.id) # {} /\ Taken(q.id, q.name) /\ Return(r) /\ UNCHANGED <<users, untracked>>
         \/ /\ WithId(q.id) = {} \/ ~Taken(q.id, q.name)
            /\ UpdateName(q.id, q.name)
            /\ untracked' = untracked \cup Loses(q.id, {q.name})
            /\ Go(r, [pc |-> "meFlush", ses |-> q.ses])
      /\ UNCHANGED <<sessions, count, mode>>

MeFlush(r) ==
  /\ At(r, "meFlush")
  /\ sessions' = {s \in sessions : s.sid # reqs[r].ses.sid}
  /\ Return(r)
  /\ UNCHANGED <<users, untracked, count, mode>>

-----------------------------------------------------------------------------

Revoking(r) == reqs[r].pc \in {"revoke", "revoking"}

(* A request stops where it is.                                            *)
Abort(r) ==
  /\ reqs[r] # NoReq /\ count.aborts < MaxAborts
  /\ Return(r)
  /\ count' = [count EXCEPT !.aborts = @ + 1]
  /\ untracked' = untracked \cup IF Revoking(r) THEN {reqs[r].target.id} ELSE {}
  /\ UNCHANGED <<users, sessions, mode>>

Setup(r)  == SetupBegin(r) \/ SetupCount(r) \/ SetupInsert(r)
Login(r)  == LoginBegin(r) \/ LoginRead(r) \/ LoginCycle(r) \/ LoginSave(r)
Manage(r) ==
  \/ AdminBegin(r) \/ Authorize(r) \/ CreateCheck(r) \/ CreateInsert(r)
  \/ ReadTarget(r) \/ CountAdmins(r) \/ NameCheck(r) \/ UpdateWrite(r) \/ DeleteWrite(r)
  \/ Revoke(r) \/ RevokeRow(r)
Me(r)     == MeBegin(r) \/ MeRead(r) \/ MeCheck(r) \/ MeWrite(r) \/ MeFlush(r)

Next ==
  \/ \E r \in Reqs : Setup(r) \/ Login(r) \/ Manage(r) \/ Me(r) \/ Abort(r)
  \/ SessionEnds

Spec == Init /\ [][Next]_vars

-----------------------------------------------------------------------------
(* Properties.                                                             *)

(* The local variables of a request, by the step it is at.                 *)
NameLocals   == [pc : {"setupCount", "setupInsert", "login"}, name : Names]
LoginLocals  == [pc : {"cycle", "save"}, user : User]
AuthLocals   == [pc : {"authorize"}, ses : Session, ask : CreateAsk \cup UpdateAsk \cup DeleteAsk]
CreateLocals == [pc : {"createCheck", "createInsert"}, ask : CreateAsk]
ReadLocals   == [pc : {"read"}, actor : Names \cup {Unknown}, ask : UpdateAsk \cup DeleteAsk]
ChangeLocals == [pc : {"countAdmins", "write"}, ask : UpdateAsk \cup DeleteAsk, target : User,
                 admins : SUBSET Ids]
CheckLocals  == [pc : {"nameCheck"}, ask : UpdateAsk, target : User, admins : SUBSET Ids]
RevokeLocals == [pc : {"revoke"}, target : User]
RowsLocals   == [pc : {"revoking"}, target : User, doomed : SUBSET Sids]
MeLocals     == [pc : {"me"}, ses : Session, name : Names \cup {Keep}]
RenameLocals == [pc : {"meCheck", "meWrite"}, ses : Session, name : Names, id : Ids]
FlushLocals  == [pc : {"meFlush"}, ses : Session]

Locals ==
  {NoReq} \cup NameLocals \cup LoginLocals \cup AuthLocals \cup CreateLocals \cup ReadLocals
    \cup ChangeLocals \cup CheckLocals \cup RevokeLocals \cup RowsLocals \cup MeLocals \cup RenameLocals
    \cup FlushLocals

(* Types of the variables; ids given out are never given out again.        *)
TypeOK ==
  /\ users \subseteq User
  /\ sessions \subseteq Session
  /\ reqs \in [Reqs -> Locals]
  /\ untracked \subseteq Ids
  /\ count \in [id : Nat, sid : Nat, reqs : Nat, aborts : Nat]
  /\ mode \in Modes
  /\ \A u \in users : u.id <= count.id

(* Names identify accounts, although every handler checks that a name is   *)
(* free long before it writes it, and goes on when the check fails.        *)
NamesUnique == \A u, v \in users : u.id = v.id \/ u.name = v.name => u = v

(* Admins are not all lost unless requests race: a request that takes away *)
(* the last of them decided on a set of admins that has changed since      *)
(* (update_user and delete_user count, then write).                        *)
AdminsKept ==
  [][Admins # {} /\ Admins' = {} =>
       \E r \in Reqs : At(r, "write") /\ reqs'[r] # reqs[r] /\ reqs[r].admins # Admins]_vars

(* A session outlives its account, or the name it was opened under, in     *)
(* three cases only: it was saved after the name was gone, by a login that *)
(* had read it before; the account lost the name unnoticed (it renamed     *)
(* itself, or had been renamed since the request read it), or the request  *)
(* stopped before it had revoked; or the revocation is still under way     *)
(* (delete_by_username).                                                   *)
UnderRevocation(s) ==
  \E r \in Reqs :
    /\ Revoking(r) /\ reqs[r].target.id = s.uid
    /\ IF At(r, "revoke") THEN reqs[r].target.name = s.name ELSE s.sid \in reqs[r].doomed

SessionsTracked ==
  \A s \in sessions : Current(s) \/ s.late \/ s.uid \in untracked \/ UnderRevocation(s)
=============================================================================
