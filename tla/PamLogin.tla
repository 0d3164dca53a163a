------------------------------ MODULE PamLogin ------------------------------
(***************************************************************************)
(* Logging in when the server is built with PAM: login_pam of api/auth.rs, *)
(* the one-time claim of db/mod.rs, and the session in which the role is   *)
(* cached for as long as it lives (middleware/auth.rs consults no table in *)
(* this build).                                                            *)
(*                                                                         *)
(* The configuration lists the admins.  While the list is empty the first  *)
(* user to claim a row of the table settings is the admin: an INSERT, and, *)
(* when the row is there already, a SELECT in a statement of its own.  A   *)
(* request may stop at any await, and the server may be started again with *)
(* another list.  Who is authenticated is PAM's business: a login that is  *)
(* refused changes nothing here.                                           *)
(***************************************************************************)
EXTENDS Naturals

CONSTANTS
  Users,
  Nobody,   \* no value in the row of the claim
  Lists,    \* the values of pam_admin_users that the server is started with
  Reqs      \* slots for logins in flight

ASSUME PamAssumption ==
  /\ Nobody \notin Users
  /\ Lists \subseteq SUBSET Users

VARIABLES
  pam_admin_users,
  holder,     \* the value of the setting pam_bootstrap_admin
  sessions,   \* the table tower_sessions
  reqs,       \* the local variables of each login in flight
  told,       \* history: the users answered "admin" on the strength of the claim
  announced   \* the rows auth.pam_bootstrap_admin_granted in the audit log

vars == <<pam_admin_users, holder, sessions, reqs, told, announced>>

Roles == {"admin", "viewer"}

(* What a role was decided on: the list, the claim, or an error.           *)
Grounds == {"list", "claim", "error"}
Session == [user : Users, role : Roles, by : Grounds]

NoReq == [pc |-> "idle"]

Init ==
  /\ pam_admin_users \in Lists
  /\ holder = Nobody
  /\ sessions = {}
  /\ reqs = [r \in Reqs |-> NoReq]
  /\ told = {}
  /\ announced = 0

-----------------------------------------------------------------------------

At(r, pc) == reqs[r].pc = pc
Go(r, locals) == reqs' = [reqs EXCEPT ![r] = locals]

Decided(u, role, by) == [pc |-> "save", user |-> u, role |-> role, by |-> by]

(* PAM accepts the password.  cycle_id deletes the row of the session the  *)
(* client already had, if any, and the login goes on when that fails.  The *)
(* list is that of the running server.                                     *)
Arrive(r) ==
  /\ At(r, "idle")
  /\ \E u \in Users :
       Go(r, IF pam_admin_users = {} THEN [pc |-> "claim", user |-> u]
             ELSE Decided(u, IF u \in pam_admin_users THEN "admin" ELSE "viewer", "list"))
  /\ \E old \in {{}} \cup {{s} : s \in sessions} : sessions' = sessions \ old
  /\ UNCHANGED <<pam_admin_users, holder, told, announced>>

(* A statement fails: the user is a viewer in this session.                *)
Fails(r) ==
  /\ At(r, "claim") \/ At(r, "read")
  /\ Go(r, Decided(reqs[r].user, "viewer", "error"))
  /\ UNCHANGED <<pam_admin_users, holder, sessions, told, announced>>

(* Mutants: the claim overwrites the row; it goes on as if it had won.     *)
ClaimByUpsert(r) ==
  /\ At(r, "claim")
  /\ holder' = reqs[r].user
  /\ Go(r, [reqs[r] EXCEPT !.pc = IF holder = Nobody THEN "announce" ELSE "read"])
  /\ UNCHANGED <<pam_admin_users, sessions, told, announced>>

ClaimAgain(r) ==
  /\ At(r, "claim")
  /\ holder' = IF holder = Nobody THEN reqs[r].user ELSE holder
  /\ Go(r, [reqs[r] EXCEPT !.pc = IF holder' = reqs[r].user THEN "announce" ELSE "read"])
  /\ UNCHANGED <<pam_admin_users, sessions, told, announced>>

(* try_claim_setting: settings.key is the primary key.                     *)
Claim(r) ==
  /\ At(r, "claim")
  /\ IF holder = Nobody
     THEN holder' = reqs[r].user /\ Go(r, [reqs[r] EXCEPT !.pc = "announce"])
     ELSE UNCHANGED holder /\ Go(r, [reqs[r] EXCEPT !.pc = "read"])
  /\ UNCHANGED <<pam_admin_users, sessions, told, announced>>

(* The claim is logged, if the insert into the audit log succeeds.         *)
Announce(r) ==
  /\ At(r, "announce")
  /\ announced' \in {announced, announced + 1}
  /\ Go(r, Decided(reqs[r].user, "admin", "claim"))
  /\ told' = told \cup {reqs[r].user}
  /\ UNCHANGED <<pam_admin_users, holder, sessions>>

(* Mutant: whoever did not win is a viewer, the holder included.           *)
ReadNoHolder(r) ==
  /\ At(r, "read")
  /\ Go(r, Decided(reqs[r].user, "viewer", "claim"))
  /\ UNCHANGED <<pam_admin_users, holder, sessions, told, announced>>

(* claim_bootstrap_admin, when the row was there: whose is it?             *)
ReadHolder(r) ==
  /\ At(r, "read")
  /\ LET u == reqs[r].user
     IN  IF holder = u
         THEN Go(r, Decided(u, "admin", "claim")) /\ told' = told \cup {u}
         ELSE Go(r, Decided(u, "viewer", "claim")) /\ UNCHANGED told
  /\ UNCHANGED <<pam_admin_users, holder, sessions, announced>>

(* The handler has returned and the session layer saves the session.       *)
Save(r) ==
  /\ At(r, "save")
  /\ sessions' = sessions \cup
       {[user |-> reqs[r].user, role |-> reqs[r].role, by |-> reqs[r].by]}
  /\ Go(r, NoReq)
  /\ UNCHANGED <<pam_admin_users, holder, told, announced>>

(* A logout, or the expiry of a session.                                   *)
SessionEnds ==
  /\ \E s \in sessions : sessions' = sessions \ {s}
  /\ UNCHANGED <<pam_admin_users, holder, reqs, told, announced>>

(* The client goes away and the handler is dropped where it is.            *)
Abort(r) ==
  /\ ~At(r, "idle")
  /\ Go(r, NoReq)
  /\ UNCHANGED <<pam_admin_users, holder, sessions, told, announced>>

(* The tables survive, the logins in flight do not.                        *)
Restart ==
  /\ pam_admin_users' \in Lists
  /\ reqs' = [r \in Reqs |-> NoReq]
  /\ UNCHANGED <<holder, sessions, told, announced>>

Login(r) ==
  \/ Arrive(r) \/ Fails(r) \/ Claim(r) \/ Announce(r) \/ ReadHolder(r)
  \/ Save(r) \/ Abort(r)

Next ==
  \/ \E r \in Reqs : Login(r)
  \/ SessionEnds
  \/ Restart

Spec == Init /\ [][Next]_vars

-----------------------------------------------------------------------------
(* Properties.                                                             *)

Locals ==
  {NoReq}
    \cup [pc : {"claim", "announce", "read"}, user : Users]
    \cup [pc : {"save"}, user : Users, role : Roles, by : Grounds]

TypeOK ==
  /\ pam_admin_users \in Lists
  /\ holder \in Users \cup {Nobody}
  /\ sessions \subseteq Session
  /\ reqs \in [Reqs -> Locals]
  /\ told \subseteq Users
  /\ announced \in Nat

(* A role decided on the claim, and cached in a session across restarts    *)
(* and changes of the list, is admin exactly for the user who holds the    *)
(* claim: there is one implicit admin, and a later login does not demote   *)
(* it (the regression that claim_bootstrap_admin describes).               *)
RoleFollowsClaim ==
  \A s \in sessions : s.by = "claim" => (s.role = "admin" <=> s.user = holder)

(* The grant is logged at most once, and never before there is one         *)
(* (login_pam: no repeat of the one-time audit entry).                     *)
AnnouncedOnce == announced <= 1 /\ (announced = 1 => holder # Nobody)

(* The claim implements a grant that is made once.                         *)
Grant == INSTANCE OneTimeGrant WITH winner <- holder
ImplementsGrant == Grant!Spec
=============================================================================
