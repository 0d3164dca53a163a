----------------------------- MODULE LoginProofs -----------------------------
(***************************************************************************)
(* Proofs about what a login passes: PAM and the limiter.                  *)
(*                                                                         *)
(* PamLogin, for any users, lists and number of logins in flight.  A login *)
(* between its claim and its answer is where the row and the answer could  *)
(* drift apart: Claimed says what it knows at each step.                   *)
(*                                                                         *)
(* RateLimiter, for any addresses, callers, limit, window and bounds.  A   *)
(* deque need not be sorted; what bounds it is that an attempt still in    *)
(* the window is never evicted, whatever stands before it.                 *)
(***************************************************************************)
EXTENDS PamLogin, RateLimiter, FiniteSetTheorems, TLAPS

-----------------------------------------------------------------------------
(* PAM logins                                                              *)

Claimed(q) ==
  /\ q.pc = "announce" => q.user = holder
  /\ q.pc = "read" => holder # Nobody
  /\ q.pc = "save" /\ q.by = "claim" =>
       holder # Nobody /\ (q.role = "admin" <=> q.user = holder)

ClaimKnown == \A r \in Reqs : Claimed(reqs[r])

CachedKnown ==
  \A s \in sessions : s.by = "claim" =>
    holder # Nobody /\ (s.role = "admin" <=> s.user = holder)

(* At most one login, of the holder, is about to log the grant, and then   *)
(* nothing has been logged yet.                                            *)
OneAnnouncer ==
  /\ announced <= 1
  /\ announced = 1 => holder # Nobody
  /\ \A r, x \in Reqs : At(r, "announce") => announced = 0 /\ (At(x, "announce") => r = x)

IInv == TypeOK /\ ClaimKnown /\ CachedKnown /\ OneAnnouncer

(* What the local variables of a login are, by the step it is at.          *)
LEMMA LocalsAt ==
  ASSUME NEW q \in Locals
  PROVE  /\ q.pc \in {"claim", "announce", "read"} => q.user \in Users
         /\ q.pc = "save" => q.user \in Users /\ q.role \in Roles /\ q.by \in Grounds
  BY DEF Locals, NoReq

LEMMA DecidedType ==
  ASSUME NEW u \in Users, NEW role \in Roles, NEW by \in Grounds
  PROVE  Decided(u, role, by) \in Locals
  BY DEF Decided, Locals

LEMMA GoType ==
  ASSUME TypeOK, NEW r \in Reqs, NEW l \in Locals, Go(r, l)
  PROVE  reqs' \in [Reqs -> Locals]
  BY DEF TypeOK, Go

LEMMA InitInv == Init => IInv
<1> SUFFICES ASSUME Init PROVE IInv
  OBVIOUS
<1>1. TypeOK
  BY DEF Init, TypeOK, Locals
<1>2. ClaimKnown /\ OneAnnouncer
  BY DEF Init, ClaimKnown, Claimed, OneAnnouncer, At, NoReq
<1>3. QED
  BY <1>1, <1>2 DEF Init, IInv, CachedKnown

LEMMA LoginType ==
  ASSUME TypeOK, NEW r \in Reqs, Login(r)
  PROVE  TypeOK'
<1>1. reqs[r] \in Locals
  BY DEF TypeOK
<1>2. ASSUME NEW q \in {"announce", "read"}, At(r, "claim")
      PROVE  [reqs[r] EXCEPT !.pc = q] \in Locals
  <2>1. reqs[r] \in [pc : {"claim", "announce", "read"}, user : Users]
    BY <1>1, <1>2 DEF At, Locals, NoReq
  <2>2. [reqs[r] EXCEPT !.pc = q] \in [pc : {"claim", "announce", "read"}, user : Users]
    BY <2>1
  <2>3. QED
    BY <2>2 DEF Locals
<1>3. CASE Arrive(r)
  <2>1. PICK u \in Users :
          Go(r, IF pam_admin_users = {} THEN [pc |-> "claim", user |-> u]
                ELSE Decided(u, IF u \in pam_admin_users THEN "admin" ELSE "viewer", "list"))
    BY <1>3 DEF Arrive
  <2>2. [pc |-> "claim", user |-> u] \in Locals
    BY DEF Locals
  <2>3. reqs' \in [Reqs -> Locals]
    BY <2>1, <2>2, GoType, DecidedType DEF Roles, Grounds
  <2>4. sessions' \subseteq sessions
    BY <1>3 DEF Arrive
  <2>5. QED
    BY <1>3, <2>3, <2>4 DEF Arrive, TypeOK
<1>4. CASE Fails(r)
  <2>1. reqs' \in [Reqs -> Locals]
    BY <1>1, <1>4, GoType, DecidedType, LocalsAt DEF Fails, At, Roles, Grounds
  <2>2. QED
    BY <1>4, <2>1 DEF Fails, TypeOK
<1>5. CASE Claim(r)
  <2>1. reqs' \in [Reqs -> Locals]
    BY <1>2, <1>5, GoType DEF Claim
  <2>2. holder' \in Users \cup {Nobody}
    BY <1>1, <1>5, LocalsAt DEF Claim, At, TypeOK
  <2>3. QED
    BY <1>5, <2>1, <2>2 DEF Claim, TypeOK
<1>6. CASE Announce(r)
  <2>1. reqs[r].user \in Users
    BY <1>1, <1>6, LocalsAt DEF Announce, At
  <2>2. reqs' \in [Reqs -> Locals]
    BY <1>6, <2>1, GoType, DecidedType DEF Announce, Roles, Grounds
  <2>3. announced' \in Nat
    BY <1>6 DEF Announce, TypeOK
  <2>4. QED
    BY <1>6, <2>1, <2>2, <2>3 DEF Announce, TypeOK
<1>7. CASE ReadHolder(r)
  <2>1. reqs[r].user \in Users
    BY <1>1, <1>7, LocalsAt DEF ReadHolder, At
  <2>2. reqs' \in [Reqs -> Locals]
    BY <1>7, <2>1, GoType, DecidedType DEF ReadHolder, Roles, Grounds
  <2>3. QED
    BY <1>7, <2>1, <2>2 DEF ReadHolder, TypeOK
<1>8. NoReq \in Locals
  BY DEF Locals
<1>9. CASE Save(r)
  <2>1. [user |-> reqs[r].user, role |-> reqs[r].role, by |-> reqs[r].by] \in Session
    BY <1>1, <1>9, LocalsAt DEF Save, At, Session
  <2>2. QED
    BY <1>8, <1>9, <2>1, GoType DEF Save, TypeOK
<1>10. CASE Abort(r)
  BY <1>8, <1>10, GoType DEF Abort, TypeOK
<1>11. QED
  BY <1>3, <1>4, <1>5, <1>6, <1>7, <1>9, <1>10 DEF Login

(* The holder is decided once.                                             *)
LEMMA HolderFixed ==
  ASSUME TypeOK, [Next]_vars, holder # Nobody
  PROVE  holder' = holder
  BY DEF Next, Login, Arrive, Fails, Claim, Announce, ReadHolder, Save, Abort, SessionEnds,
         Restart, vars

(* What a login knows of the claim stays true while others go on.          *)
LEMMA StaysClaimed ==
  ASSUME TypeOK, [Next]_vars, NEW q \in Locals, Claimed(q)
  PROVE  Claimed(q)'
<1>1. holder # Nobody => holder' = holder
  BY HolderFixed
<1>2. q.pc = "announce" => q.user # Nobody
  BY LocalsAt, PamAssumption
<1>3. QED
  BY <1>1, <1>2 DEF Claimed

LEMMA LoginClaims ==
  ASSUME IInv, NEW r \in Reqs, Login(r)
  PROVE  \E l \in Locals : Go(r, l) /\ Claimed(l)'
<1> DEFINE u == reqs[r].user
<1>1. TypeOK /\ reqs[r] \in Locals /\ Claimed(reqs[r])
  BY DEF IInv, TypeOK, ClaimKnown
<1>2. PICK l \in {reqs'[r]} : l = reqs'[r]
  OBVIOUS
<1>3. l \in Locals
  BY <1>1, <1>2, LoginType DEF TypeOK
<1>4. Go(r, l)
  BY <1>1, <1>2 DEF Login, Arrive, Fails, Claim, Announce, ReadHolder, Save, Abort, Go, TypeOK
<1>5. ASSUME NEW w, NEW role, NEW by, l = Decided(w, role, by)
      PROVE  l.pc = "save" /\ l.user = w /\ l.role = role /\ l.by = by
  BY <1>5 DEF Decided
<1>6. ASSUME NEW w, Go(r, w) PROVE l = w
  BY <1>1, <1>2, <1>6 DEF Go, TypeOK
<1>7. CASE Arrive(r)
  <2>1. l.pc = "claim" \/ (l.pc = "save" /\ l.by = "list")
    BY <1>5, <1>6, <1>7 DEF Arrive
  <2>2. QED
    BY <1>3, <1>4, <2>1 DEF Claimed
<1>8. CASE Fails(r)
  <2>1. l.pc = "save" /\ l.by = "error"
    BY <1>5, <1>6, <1>8 DEF Fails
  <2>2. QED
    BY <1>3, <1>4, <2>1 DEF Claimed
<1>9. CASE Claim(r)
  <2>1. reqs[r] \in [pc : {"claim", "announce", "read"}, user : Users]
    BY <1>1, <1>9 DEF Claim, At, Locals, NoReq
  <2>2. CASE holder = Nobody
    <3>1. l = [reqs[r] EXCEPT !.pc = "announce"] /\ holder' = u
      BY <1>6, <1>9, <2>2 DEF Claim
    <3>2. l.pc = "announce" /\ l.user = u
      BY <2>1, <3>1
    <3>3. QED
      BY <1>3, <1>4, <3>1, <3>2 DEF Claimed
  <2>3. CASE holder # Nobody
    <3>1. l = [reqs[r] EXCEPT !.pc = "read"] /\ holder' = holder
      BY <1>6, <1>9, <2>3 DEF Claim
    <3>2. l.pc = "read"
      BY <2>1, <3>1
    <3>3. QED
      BY <1>3, <1>4, <2>3, <3>1, <3>2 DEF Claimed
  <2>4. QED
    BY <2>2, <2>3
<1>10. CASE Announce(r)
  <2>1. l = Decided(u, "admin", "claim") /\ holder' = holder /\ reqs[r].pc = "announce"
    BY <1>6, <1>10 DEF Announce, At
  <2>2. u = holder /\ holder # Nobody
    BY <1>1, <2>1, LocalsAt, PamAssumption DEF Claimed
  <2>3. QED
    BY <1>3, <1>4, <1>5, <2>1, <2>2 DEF Claimed
<1>11. CASE ReadHolder(r)
  <2>1. holder' = holder /\ holder # Nobody
    BY <1>1, <1>11 DEF ReadHolder, At, Claimed
  <2>2. l = Decided(u, IF holder = u THEN "admin" ELSE "viewer", "claim")
    BY <1>6, <1>11 DEF ReadHolder
  <2>3. /\ l.pc = "save" /\ l.user = u /\ l.by = "claim"
        /\ l.role = IF holder = u THEN "admin" ELSE "viewer"
    BY <1>5, <2>2
  <2>4. QED
    BY <1>3, <1>4, <2>1, <2>3 DEF Claimed
<1>12. CASE Save(r) \/ Abort(r)
  <2>1. l = NoReq
    BY <1>6, <1>12 DEF Save, Abort
  <2>2. QED
    BY <1>3, <1>4, <2>1 DEF Claimed, NoReq
<1>13. QED
  BY <1>7, <1>8, <1>9, <1>10, <1>11, <1>12 DEF Login

LEMMA NextInv == IInv /\ [Next]_vars => IInv'
<1> SUFFICES ASSUME IInv, [Next]_vars PROVE IInv'
  OBVIOUS
<1>1. TypeOK /\ ClaimKnown /\ CachedKnown /\ OneAnnouncer
  BY DEF IInv
<1>2. NoReq \in Locals
  BY DEF Locals
<1>3. TypeOK'
  <2>1. CASE Restart
    BY <1>1, <1>2, <2>1 DEF Restart, TypeOK
  <2>2. CASE SessionEnds \/ UNCHANGED vars
    BY <1>1, <2>2 DEF SessionEnds, vars, TypeOK
  <2>3. QED
    BY <1>1, <2>1, <2>2, LoginType DEF Next
<1>4. ASSUME NEW r \in Reqs PROVE Claimed(reqs[r]) /\ reqs[r] \in Locals
  BY <1>1 DEF ClaimKnown, TypeOK
<1>5. ClaimKnown'
  <2>1. CASE \E r \in Reqs : Login(r)
    <3>1. PICK r \in Reqs : Login(r)
      BY <2>1
    <3>2. PICK l \in Locals : Go(r, l) /\ Claimed(l)'
      BY <3>1, LoginClaims
    <3>3. ASSUME NEW x \in Reqs PROVE Claimed(reqs[x])'
      <4>1. CASE x = r
        BY <1>1, <3>2, <4>1 DEF Go, TypeOK, Claimed
      <4>2. CASE x # r
        <5>1. PICK q \in Locals : q = reqs[x]
          BY <1>4
        <5>2. Claimed(q)'
          BY <1>1, <1>4, <5>1, StaysClaimed
        <5>3. reqs'[x] = q
          BY <1>1, <3>2, <4>2, <5>1 DEF Go, TypeOK
        <5>4. QED
          BY <5>2, <5>3 DEF Claimed
      <4>3. QED
        BY <4>1, <4>2
    <3>4. QED
      BY <3>3 DEF ClaimKnown
  <2>2. CASE Restart
    BY <2>2 DEF Restart, ClaimKnown, Claimed, NoReq
  <2>3. CASE SessionEnds \/ UNCHANGED vars
    BY <1>1, <2>3 DEF SessionEnds, vars, ClaimKnown, Claimed
  <2>4. QED
    BY <2>1, <2>2, <2>3 DEF Next
<1>6. CachedKnown'
  <2>1. ASSUME sessions' \subseteq sessions PROVE CachedKnown'
    BY <1>1, <2>1, HolderFixed DEF CachedKnown
  <2>2. ASSUME NEW r \in Reqs, Save(r) PROVE CachedKnown'
    <3>1. reqs[r].pc = "save" /\ holder' = holder /\ Claimed(reqs[r])
      BY <1>4, <2>2 DEF Save, At
    <3>2. ASSUME NEW s \in sessions' PROVE s \in sessions \/ (s.by = "claim" =>
                   holder # Nobody /\ (s.role = "admin" <=> s.user = holder))
      BY <2>2, <3>1 DEF Save, Claimed
    <3>3. QED
      BY <1>1, <3>1, <3>2 DEF CachedKnown
  <2>3. QED
    BY <2>1, <2>2 DEF Next, Login, Arrive, Fails, Claim, Announce, ReadHolder, Abort,
       SessionEnds, Restart, vars
<1>7. OneAnnouncer'
  <2>1. ASSUME NEW r \in Reqs PROVE At(r, "announce") => reqs[r].user = holder /\ holder # Nobody
    BY <1>4, LocalsAt, PamAssumption DEF Claimed, At
  <2>2. ASSUME UNCHANGED announced, \A r \in Reqs : At(r, "announce")' => At(r, "announce")
        PROVE  OneAnnouncer'
    BY <1>1, <2>2, HolderFixed DEF OneAnnouncer
  <2>3. ASSUME NEW r \in Reqs, NEW l, Go(r, l), l.pc # "announce"
        PROVE  \A x \in Reqs : At(x, "announce")' => At(x, "announce") /\ x # r
    BY <1>1, <2>3 DEF At, Go, TypeOK
  <2>4. ASSUME NEW r \in Reqs, Claim(r) PROVE OneAnnouncer'
    <3>1. reqs[r] \in [pc : {"claim", "announce", "read"}, user : Users] /\ UNCHANGED announced
      BY <1>4, <2>4 DEF Claim, At, Locals, NoReq
    <3>2. CASE holder = Nobody
      <4>1. \A x \in Reqs : At(x, "announce")' => x = r
        BY <1>1, <2>1, <2>4, <3>2 DEF Claim, Go, At, TypeOK
      <4>2. announced = 0
        BY <1>1, <3>2 DEF OneAnnouncer, TypeOK
      <4>3. QED
        BY <3>1, <4>1, <4>2 DEF OneAnnouncer
    <3>3. CASE holder # Nobody
      <4>1. [reqs[r] EXCEPT !.pc = "read"].pc # "announce"
        BY <3>1
      <4>2. QED
        BY <2>2, <2>3, <2>4, <3>1, <3>3, <4>1 DEF Claim
    <3>4. QED
      BY <3>2, <3>3
  <2>5. ASSUME NEW r \in Reqs, Announce(r) PROVE OneAnnouncer'
    <3>1. announced = 0 /\ announced' \in {0, 1} /\ holder' = holder /\ holder # Nobody
      BY <1>1, <2>1, <2>5 DEF Announce, OneAnnouncer
    <3>2. Decided(reqs[r].user, "admin", "claim").pc # "announce"
      BY DEF Decided
    <3>3. \A x \in Reqs : ~At(x, "announce")'
      BY <1>1, <2>3, <2>5, <3>2 DEF Announce, OneAnnouncer
    <3>4. QED
      BY <3>1, <3>3 DEF OneAnnouncer
  <2>6. ASSUME NEW r \in Reqs, Login(r), ~Claim(r), ~Announce(r) PROVE OneAnnouncer'
    <3>1. UNCHANGED announced
      BY <2>6 DEF Login, Arrive, Fails, ReadHolder, Save, Abort
    <3>2. \E l : Go(r, l) /\ l.pc # "announce"
      <4>1. \A u, role, by : Decided(u, role, by).pc # "announce"
        BY DEF Decided
      <4>2. CASE Arrive(r)
        <5>1. PICK u \in Users :
                Go(r, IF pam_admin_users = {} THEN [pc |-> "claim", user |-> u]
                      ELSE Decided(u, IF u \in pam_admin_users THEN "admin" ELSE "viewer", "list"))
          BY <4>2 DEF Arrive
        <5>2. [pc |-> "claim", user |-> u].pc # "announce"
          OBVIOUS
        <5>3. QED
          BY <4>1, <5>1, <5>2
      <4>3. CASE Fails(r) \/ ReadHolder(r)
        BY <4>1, <4>3 DEF Fails, ReadHolder
      <4>4. CASE Save(r) \/ Abort(r)
        BY <4>4 DEF Save, Abort, NoReq
      <4>5. QED
        BY <2>6, <4>2, <4>3, <4>4 DEF Login
    <3>3. QED
      BY <2>2, <2>3, <3>1, <3>2
  <2>7. CASE Restart
    <3>1. \A r \in Reqs : ~At(r, "announce")'
      BY <2>7 DEF Restart, At, NoReq
    <3>2. QED
      BY <2>2, <2>7, <3>1 DEF Restart
  <2>8. CASE SessionEnds \/ UNCHANGED vars
    BY <2>2, <2>8 DEF SessionEnds, vars, At
  <2>9. QED
    BY <2>4, <2>5, <2>6, <2>7, <2>8 DEF Next
<1>8. QED
  BY <1>3, <1>5, <1>6, <1>7 DEF IInv

THEOREM InvAlways == Spec => []IInv
  BY InitInv, NextInv, PTL DEF Spec

(* Types of the variables of the PAM login.                                *)
THEOREM TypeCorrect == Spec => []TypeOK
<1>1. IInv => TypeOK
  BY DEF IInv
<1>2. QED
  BY <1>1, InvAlways, PTL

(* Every role cached on the strength of the claim is admin exactly for the *)
(* user whose name is in the row, whatever races, stops or restarts.       *)
THEOREM RoleKept == Spec => []RoleFollowsClaim
<1>1. IInv => RoleFollowsClaim
  BY DEF IInv, CachedKnown, RoleFollowsClaim
<1>2. QED
  BY <1>1, InvAlways, PTL

(* The audit log records the grant at most once, and only after the claim. *)
THEOREM LoggedOnce == Spec => []AnnouncedOnce
<1>1. IInv => AnnouncedOnce
  BY DEF IInv, OneAnnouncer, AnnouncedOnce
<1>2. QED
  BY <1>1, InvAlways, PTL

LEMMA GrantStep ==
  ASSUME IInv, [Next]_vars
  PROVE  [Grant!Next]_<<holder, told>>
<1>1. ASSUME NEW r \in Reqs, Claim(r) PROVE [Grant!Next]_<<holder, told>>
  <2>1. reqs[r].user \in Users
    BY <1>1, LocalsAt DEF IInv, TypeOK, Claim, At
  <2>2. CASE holder = Nobody
    BY <1>1, <2>1, <2>2 DEF Claim, Grant!Next, Grant!Elect
  <2>3. CASE holder # Nobody
    BY <1>1, <2>3 DEF Claim
  <2>4. QED
    BY <2>2, <2>3
<1>2. ASSUME NEW r \in Reqs, Announce(r) PROVE [Grant!Next]_<<holder, told>>
  <2>1. reqs[r].user \in Users /\ reqs[r].user = holder
    BY <1>2, LocalsAt DEF IInv, TypeOK, ClaimKnown, Claimed, Announce, At
  <2>2. QED
    BY <1>2, <2>1 DEF Announce, Grant!Next, Grant!Tell
<1>3. ASSUME NEW r \in Reqs, ReadHolder(r) PROVE [Grant!Next]_<<holder, told>>
  <2>1. reqs[r].user \in Users
    BY <1>3, LocalsAt DEF IInv, TypeOK, ReadHolder, At
  <2>2. QED
    BY <1>3, <2>1 DEF ReadHolder, Grant!Next, Grant!Tell
<1>4. ASSUME UNCHANGED <<holder, told>> PROVE [Grant!Next]_<<holder, told>>
  BY <1>4
<1>5. QED
  BY <1>1, <1>2, <1>3, <1>4 DEF Next, Login, Arrive, Fails, Save, Abort, SessionEnds,
     Restart, vars

(* The two statements of claim_bootstrap_admin implement a grant that is   *)
(* made once: elected by the INSERT, told on the strength of either.       *)
THEOREM GrantMadeOnce == Spec => ImplementsGrant
<1>1. Init => Grant!Init
  BY DEF Init, Grant!Init
<1>2. IInv /\ [Next]_vars => [Grant!Next]_<<holder, told>>
  BY GrantStep
<1>3. QED
  BY <1>1, <1>2, InvAlways, PTL DEF Spec, ImplementsGrant, Grant!Spec, Grant!gvars

-----------------------------------------------------------------------------
(* The limiter                                                             *)

(* Every attempt allowed in the window that ends now is in its deque.      *)
Kept ==
  \A ip \in IPs : \A a \in InWindow(ip) : \E i \in 1 .. Len(state[ip]) : state[ip][i] = a

(* A time that a caller has read is not in the future.                     *)
ReadBefore == \A c \in Callers : calls[c].pc = "lock" => calls[c].now <= clock

Finite == \A ip \in IPs : IsFiniteSet(allowed[ip])

(* Attempts are numbered as they are allowed, so those in a deque are      *)
(* different ones.                                                         *)
Numbered ==
  \A ip \in IPs :
    /\ \A a \in allowed[ip] : a.n <= Cardinality(allowed[ip])
    /\ \A i \in 1 .. Len(state[ip]) : state[ip][i] \in allowed[ip]
    /\ \A i, j \in 1 .. Len(state[ip]) : i < j => state[ip][i].n < state[ip][j].n

LimiterInv == LimiterTypeOK /\ Finite /\ ReadBefore /\ Kept /\ Numbered

LEMMA LimiterStarts == LimiterInit => LimiterInv
<1> SUFFICES ASSUME LimiterInit PROVE LimiterInv
  OBVIOUS
<1>1. LimiterTypeOK
  BY LimiterAssumption DEF LimiterInit, LimiterTypeOK, CallLocals
<1>2. Finite
  BY FS_EmptySet DEF LimiterInit, Finite
<1>3. QED
  BY <1>1, <1>2 DEF LimiterInit, LimiterInv, ReadBefore, Kept, Numbered, InWindow, Idle

(* What stays after an eviction.                                           *)
LEMMA EvictedRest ==
  ASSUME NEW q \in Seq(Attempt), NEW now \in Nat, NEW k \in Evicted(q, now)
  PROVE  LET rest == SubSeq(q, k + 1, Len(q))
         IN  /\ rest \in Seq(Attempt)
             /\ Len(rest) = Len(q) - k /\ k \in 0 .. Len(q)
             /\ \A j \in 1 .. Len(rest) : j + k \in 1 .. Len(q) /\ rest[j] = q[j + k]
             /\ \A i \in 1 .. Len(q) : ~Expired(q[i], now) =>
                  \E j \in 1 .. Len(rest) : rest[j] = q[i]
<1> DEFINE rest == SubSeq(q, k + 1, Len(q))
<1>1. k \in 0 .. Len(q) /\ \A i \in 1 .. k : Expired(q[i], now)
  BY DEF Evicted
<1>2. rest \in Seq(Attempt) /\ Len(rest) = Len(q) - k
  BY <1>1
<1>3. \A j \in 1 .. Len(q) - k : j + k \in 1 .. Len(q) /\ rest[j] = q[j + k]
  BY <1>1
<1>4. ASSUME NEW i \in 1 .. Len(q), ~Expired(q[i], now)
      PROVE  \E j \in 1 .. Len(rest) : rest[j] = q[i]
  <2>1. i > k
    BY <1>1, <1>4
  <2>2. i - k \in 1 .. Len(rest) /\ rest[i - k] = q[i]
    BY <1>1, <1>2, <1>3, <2>1
  <2>3. QED
    BY <2>2
<1>5. QED
  BY <1>1, <1>2, <1>3, <1>4

(* Eviction keeps the rest in the order it was in.                        *)
LEMMA EvictedOrder ==
  ASSUME NEW q \in Seq(Attempt), NEW now \in Nat, NEW k \in Evicted(q, now), NEW S,
         \A i \in 1 .. Len(q) : q[i] \in S,
         \A i, j \in 1 .. Len(q) : i < j => q[i].n < q[j].n
  PROVE  LET rest == SubSeq(q, k + 1, Len(q))
         IN  /\ \A i \in 1 .. Len(rest) : rest[i] \in S
             /\ \A i, j \in 1 .. Len(rest) : i < j => rest[i].n < rest[j].n
<1> DEFINE rest == SubSeq(q, k + 1, Len(q))
<1>1. /\ Len(rest) \in Nat /\ k \in Nat
      /\ \A j \in 1 .. Len(rest) : j + k \in 1 .. Len(q) /\ rest[j] = q[j + k]
  BY EvictedRest
<1> HIDE DEF rest
<1>2. \A i \in 1 .. Len(rest) : rest[i] \in S
  BY <1>1
<1>3. ASSUME NEW i \in 1 .. Len(rest), NEW j \in 1 .. Len(rest), i < j
      PROVE  rest[i].n < rest[j].n
  <2>1. i + k \in 1 .. Len(q) /\ j + k \in 1 .. Len(q) /\ i + k < j + k
    BY <1>1, <1>3
  <2>2. rest[i] = q[i + k] /\ rest[j] = q[j + k]
    BY <1>1
  <2>3. QED
    BY <2>1, <2>2
<1>4. QED
  BY <1>2, <1>3 DEF rest

LEMMA CheckInv ==
  ASSUME LimiterInv, NEW c \in Callers, Check(c)
  PROVE  LimiterInv'
<1> DEFINE ip  == calls[c].ip
           now == calls[c].now
           q0  == state[ip]
           a   == [at |-> now, n |-> Cardinality(allowed[ip]) + 1]
<1>1. LimiterTypeOK /\ Finite /\ ReadBefore /\ Kept /\ Numbered
  BY DEF LimiterInv
<1>2. ip \in IPs /\ now \in Nat /\ now <= clock /\ clock' = clock /\ clock \in Nat
  <2>1. calls[c] \in CallLocals /\ calls[c].pc = "lock"
    BY <1>1 DEF Check, LimiterTypeOK
  <2>2. calls[c] \in [pc : {"lock"}, ip : IPs, now : Nat]
    BY <2>1 DEF CallLocals, Idle
  <2>3. ip \in IPs /\ now \in Nat
    BY <2>2
  <2>4. now <= clock
    BY <1>1, <2>1 DEF ReadBefore
  <2>5. clock \in Nat /\ clock' = clock
    BY <1>1 DEF LimiterTypeOK, Check
  <2>6. QED
    BY <2>3, <2>4, <2>5
<1>3. q0 \in Seq(Attempt) /\ Len(q0) <= MaxAttempts
  BY <1>1, <1>2 DEF LimiterTypeOK
<1>4. a \in Attempt
  BY <1>1, <1>2, FS_CardinalityType DEF Finite, Attempt
<1>5. PICK k \in Evicted(q0, now) :
        LET q == SubSeq(q0, k + 1, Len(q0))
        IN  IF HasRoom(q)
            THEN /\ state' = [state EXCEPT ![ip] = Append(q, a)]
                 /\ allowed' = [allowed EXCEPT ![ip] = @ \cup {a}]
                 /\ calls' = [calls EXCEPT ![c] = [pc |-> "allowed"]]
            ELSE /\ state' = [state EXCEPT ![ip] = q]
                 /\ calls' = [calls EXCEPT ![c] = [pc |-> "refused"]]
                 /\ UNCHANGED allowed
  BY DEF Check
<1> DEFINE q == SubSeq(q0, k + 1, Len(q0))
<1>6. k \in 0 .. Len(q0)
  BY DEF Evicted
<1>7. /\ q \in Seq(Attempt) /\ Len(q) = Len(q0) - k
      /\ \A j \in 1 .. Len(q) : j + k \in 1 .. Len(q0) /\ q[j] = q0[j + k]
      /\ \A i \in 1 .. Len(q0) : ~Expired(q0[i], now) => \E j \in 1 .. Len(q) : q[j] = q0[i]
  BY <1>2, <1>3, EvictedRest
<1>8. ASSUME NEW x \in InWindow(ip) PROVE \E j \in 1 .. Len(q) : q[j] = x
  <2>1. PICK i \in 1 .. Len(q0) : q0[i] = x
    BY <1>1, <1>2 DEF Kept
  <2>2. ~Expired(x, now)
    <3>1. x \in Attempt /\ x.at + Window >= clock
      BY <1>1, <1>2 DEF InWindow, LimiterTypeOK
    <3>2. x.at \in Nat
      BY <3>1 DEF Attempt
    <3> HIDE DEF now
    <3>3. QED
      BY <1>2, <3>1, <3>2, LimiterAssumption DEF Expired
  <2>3. QED
    <3> HIDE DEF q, q0, ip, now
    <3>1. QED
      BY <1>7, <2>1, <2>2
<1>9. ReadBefore'
  <2>1. calls' = [calls EXCEPT ![c] = [pc |-> "allowed"]]
          \/ calls' = [calls EXCEPT ![c] = [pc |-> "refused"]]
    BY <1>5
  <2>2. \A x \in Callers : calls'[x].pc = "lock" => calls'[x] = calls[x]
    BY <1>1, <2>1 DEF LimiterTypeOK
  <2>3. QED
    BY <1>1, <1>2, <2>2 DEF ReadBefore
<1>10. /\ \A i \in 1 .. Len(q) : q[i] \in allowed[ip]
       /\ \A i, j \in 1 .. Len(q) : i < j => q[i].n < q[j].n
  <2>1. /\ \A i \in 1 .. Len(q0) : q0[i] \in allowed[ip]
        /\ \A i, j \in 1 .. Len(q0) : i < j => q0[i].n < q0[j].n
    BY <1>1, <1>2 DEF Numbered
  <2> HIDE DEF q0, ip, now
  <2>2. QED
    BY <1>2, <1>3, <2>1, EvictedOrder
<1>11. calls' \in [Callers -> CallLocals]
  BY <1>1, <1>5 DEF LimiterTypeOK, CallLocals
<1>12. CASE HasRoom(q)
  <2>1. /\ state' = [state EXCEPT ![ip] = Append(q, a)]
        /\ allowed' = [allowed EXCEPT ![ip] = @ \cup {a}]
    BY <1>5, <1>12
  <2>2. /\ allowed'[ip] = allowed[ip] \cup {a} /\ state'[ip] = Append(q, a)
        /\ \A y \in IPs \ {ip} : allowed'[y] = allowed[y] /\ state'[y] = state[y]
    BY <1>1, <1>2, <2>1 DEF LimiterTypeOK
  <2>3. a.n = Cardinality(allowed[ip]) + 1
    OBVIOUS
  <2> HIDE DEF a, q, q0, ip, now
  <2>4. /\ Append(q, a) \in Seq(Attempt) /\ Len(Append(q, a)) = Len(q) + 1
        /\ Append(q, a)[Len(q) + 1] = a
        /\ \A i \in 1 .. Len(q) : Append(q, a)[i] = q[i]
    BY <1>4, <1>7
  <2>5. Len(Append(q, a)) <= MaxAttempts
    BY <1>7, <1>12, <2>4, LimiterAssumption DEF HasRoom
  <2>6. LimiterTypeOK'
    BY <1>1, <1>2, <1>4, <1>11, <2>1, <2>4, <2>5 DEF LimiterTypeOK
  <2>7. Finite'
    <3>1. IsFiniteSet(allowed[ip] \cup {a})
      BY <1>1, <1>2, FS_AddElement DEF Finite
    <3>2. QED
      BY <1>1, <2>2, <3>1 DEF Finite
  <2>8. Kept'
    <3>1. ASSUME NEW y \in IPs, NEW x \in allowed'[y], x.at + Window >= clock
          PROVE  \E i \in 1 .. Len(state'[y]) : state'[y][i] = x
      <4>1. CASE y # ip
        <5>1. allowed'[y] = allowed[y] /\ state'[y] = state[y]
          BY <2>2, <4>1
        <5>2. x \in InWindow(y)
          BY <3>1, <5>1 DEF InWindow
        <5>3. QED
          BY <1>1, <5>1, <5>2 DEF Kept
      <4>2. CASE y = ip /\ x \in allowed[ip]
        <5>1. PICK j \in 1 .. Len(q) : q[j] = x
          BY <1>8, <3>1, <4>2 DEF InWindow
        <5>2. j \in 1 .. Len(Append(q, a)) /\ Append(q, a)[j] = x
          BY <1>7, <2>4, <5>1
        <5>3. QED
          BY <2>2, <4>2, <5>2
      <4>3. CASE y = ip /\ x = a
        <5>1. Len(q) + 1 \in 1 .. Len(Append(q, a)) /\ Append(q, a)[Len(q) + 1] = x
          <6>1. Len(q) \in Nat
            BY <1>7
          <6>2. QED
            BY <2>4, <4>3, <6>1
        <5>2. QED
          BY <2>2, <4>3, <5>1
      <4>4. QED
        BY <2>2, <3>1, <4>1, <4>2, <4>3
    <3>2. QED
      BY <1>2, <3>1 DEF Kept, InWindow
  <2>9. Numbered'
    <3>1. Cardinality(allowed[ip]) \in Nat /\ \A x \in allowed[ip] : x \in Attempt /\ x # a
      <4>1. Cardinality(allowed[ip]) \in Nat /\ allowed[ip] \subseteq Attempt
        BY <1>1, <1>2, FS_CardinalityType DEF Finite, LimiterTypeOK
      <4>2. \A x \in allowed[ip] : x.n <= Cardinality(allowed[ip])
        BY <1>1, <1>2 DEF Numbered
      <4>3. QED
        BY <2>3, <4>1, <4>2
    <3>2. Cardinality(allowed[ip] \cup {a}) = Cardinality(allowed[ip]) + 1
      BY <1>1, <1>2, <3>1, FS_AddElement DEF Finite
    <3>4. \A x \in allowed[ip] : x.n \in Nat /\ x.n <= Cardinality(allowed[ip])
      BY <1>1, <1>2, <3>1 DEF Numbered, Attempt
    <3>6. \A x \in allowed[ip] \cup {a} : x.n <= Cardinality(allowed[ip]) + 1
      BY <3>1, <3>4, <2>3
    <3>7. \A i \in 1 .. Len(Append(q, a)) : Append(q, a)[i] \in allowed[ip] \cup {a}
      BY <1>7, <1>10, <2>4
    <3>8. ASSUME NEW i \in 1 .. Len(Append(q, a)), NEW j \in 1 .. Len(Append(q, a)), i < j
          PROVE  Append(q, a)[i].n < Append(q, a)[j].n
      <4>1. i \in 1 .. Len(q) /\ Append(q, a)[i] = q[i]
        BY <1>7, <2>4, <3>8
      <4>2. CASE j \in 1 .. Len(q)
        BY <1>10, <2>4, <3>8, <4>1, <4>2
      <4>3. CASE j = Len(q) + 1
        BY <1>10, <2>4, <3>1, <3>4, <2>3, <4>1, <4>3
      <4>4. QED
        BY <1>7, <2>4, <4>2, <4>3
    <3>9. QED
      BY <1>1, <2>2, <3>2, <3>6, <3>7, <3>8 DEF Numbered
  <2>10. QED
    BY <1>9, <2>6, <2>7, <2>8, <2>9 DEF LimiterInv
<1>13. CASE ~HasRoom(q)
  <2>1. state' = [state EXCEPT ![ip] = q] /\ UNCHANGED allowed
    BY <1>5, <1>13
  <2>2. Len(q) <= MaxAttempts
    BY <1>3, <1>6, <1>7, LimiterAssumption
  <2>3. LimiterTypeOK'
    BY <1>1, <1>2, <1>7, <1>11, <2>1, <2>2 DEF LimiterTypeOK
  <2>4. Kept'
    <3>1. ASSUME NEW y \in IPs, NEW x \in InWindow(y)
          PROVE  \E i \in 1 .. Len(state'[y]) : state'[y][i] = x
      <4>1. CASE y # ip
        <5>1. state'[y] = state[y]
          BY <1>1, <2>1, <4>1 DEF LimiterTypeOK
        <5>2. QED
          BY <1>1, <3>1, <5>1 DEF Kept
      <4>2. CASE y = ip
        <5>1. state'[y] = q
          BY <1>1, <1>2, <2>1, <4>2 DEF LimiterTypeOK
        <5>2. QED
          BY <1>8, <3>1, <4>2, <5>1
      <4>3. QED
        BY <4>1, <4>2
    <3>2. QED
      BY <1>2, <2>1, <3>1 DEF Kept, InWindow
  <2>5. Numbered'
    <3>1. state'[ip] = q /\ \A y \in IPs \ {ip} : state'[y] = state[y]
      BY <1>1, <1>2, <2>1 DEF LimiterTypeOK
    <3> HIDE DEF q, ip
    <3>2. ASSUME NEW y \in IPs
          PROVE  /\ \A x \in allowed[y] : x.n <= Cardinality(allowed[y])
                 /\ \A i \in 1 .. Len(state'[y]) : state'[y][i] \in allowed[y]
                 /\ \A i, j \in 1 .. Len(state'[y]) :
                      i < j => state'[y][i].n < state'[y][j].n
      <4>1. CASE y = ip
        BY <1>1, <1>10, <3>1, <4>1 DEF Numbered
      <4>2. CASE y # ip
        BY <1>1, <3>1, <4>2 DEF Numbered
      <4>3. QED
        BY <4>1, <4>2
    <3>3. QED
      BY <2>1, <3>2 DEF Numbered
  <2>6. QED
    BY <1>1, <1>9, <2>1, <2>3, <2>4, <2>5 DEF LimiterInv, Finite
<1>14. QED
  BY <1>12, <1>13

LEMMA LimiterSteps == LimiterInv /\ [LimiterNext]_limiterVars => LimiterInv'
<1> SUFFICES ASSUME LimiterInv, [LimiterNext]_limiterVars PROVE LimiterInv'
  OBVIOUS
<1>1. LimiterTypeOK /\ Finite /\ ReadBefore /\ Kept /\ Numbered
  BY DEF LimiterInv
<1>2. CASE Tick
  <2>1. clock' = clock + 1 /\ clock \in Nat /\ clock' \in Nat /\ UNCHANGED <<state, calls, allowed>>
    BY <1>1, <1>2 DEF Tick, LimiterTypeOK
  <2>2. LimiterTypeOK' /\ Finite'
    BY <1>1, <2>1 DEF LimiterTypeOK, Finite
  <2>3. ReadBefore'
    BY <1>1, <2>1 DEF ReadBefore, LimiterTypeOK, CallLocals, Idle
  <2>4. \A ip \in IPs : InWindow(ip)' \subseteq InWindow(ip)
    BY <1>1, <2>1, LimiterAssumption DEF InWindow, LimiterTypeOK, Attempt
  <2>5. Kept'
    BY <1>1, <2>1, <2>4 DEF Kept
  <2>6. QED
    BY <1>1, <2>1, <2>2, <2>3, <2>5 DEF LimiterInv, Numbered
<1>3. ASSUME UNCHANGED <<clock, state, allowed>>, calls' \in [Callers -> CallLocals], ReadBefore'
      PROVE  LimiterInv'
  BY <1>1, <1>3 DEF LimiterInv, LimiterTypeOK, Finite, Kept, Numbered, InWindow
<1>4. ASSUME NEW c \in Callers, ReadClock(c) PROVE LimiterInv'
  <2>1. PICK ip \in IPs : calls' = [calls EXCEPT ![c] = [pc |-> "lock", ip |-> ip, now |-> clock]]
    BY <1>4 DEF ReadClock
  <2>2. calls' \in [Callers -> CallLocals]
    BY <1>1, <2>1 DEF LimiterTypeOK, CallLocals
  <2>3. ReadBefore'
    BY <1>1, <1>4, <2>1 DEF ReadClock, ReadBefore, LimiterTypeOK
  <2>4. QED
    BY <1>3, <1>4, <2>2, <2>3 DEF ReadClock
<1>5. ASSUME NEW c \in Callers, Answer(c) PROVE LimiterInv'
  <2>1. calls' \in [Callers -> CallLocals] /\ ReadBefore'
    BY <1>1, <1>5 DEF Answer, ReadBefore, LimiterTypeOK, CallLocals, Idle
  <2>2. QED
    BY <1>3, <1>5, <2>1 DEF Answer
<1>6. CASE UNCHANGED limiterVars
  BY <1>1, <1>3, <1>6 DEF limiterVars, LimiterTypeOK, ReadBefore
<1>7. QED
  BY <1>2, <1>4, <1>5, <1>6, CheckInv DEF LimiterNext

THEOREM LimiterSound == LimiterSpec => []LimiterInv
  BY LimiterStarts, LimiterSteps, PTL DEF LimiterSpec

(* Types of the variables; a deque holds at most MaxAttempts attempts.     *)
THEOREM LimiterTypeCorrect == LimiterSpec => []LimiterTypeOK
<1>1. LimiterInv => LimiterTypeOK
  BY DEF LimiterInv
<1>2. QED
  BY <1>1, LimiterSound, PTL

(* A set all of whose elements are in a sequence is no larger.             *)
LEMMA NoLargerThanSeq ==
  ASSUME NEW S, NEW q \in Seq(Attempt), \A x \in S : \E i \in 1 .. Len(q) : q[i] = x
  PROVE  Cardinality(S) <= Len(q)
<1> DEFINE I == 1 .. Len(q)
           R == {q[i] : i \in I}
           f == [i \in I |-> q[i]]
<1>1. IsFiniteSet(I) /\ Cardinality(I) = Len(q)
  <2>1. Len(q) \in Nat
    OBVIOUS
  <2>2. IsFiniteSet(1 .. Len(q)) /\ Cardinality(1 .. Len(q)) = IF 1 > Len(q) THEN 0 ELSE Len(q) - 1 + 1
    BY <2>1, FS_Interval
  <2>3. QED
    BY <2>1, <2>2
<1>2. IsFiniteSet(R) /\ Cardinality(R) <= Len(q)
  <2>1. f \in Surjection(I, R)
    BY DEF Surjection
  <2>2. IsFiniteSet(R) /\ Cardinality(R) <= Cardinality(I)
    <3> HIDE DEF I, R, f
    <3>1. QED
      BY <1>1, <2>1, FS_Surjection
  <2>3. QED
    <3> HIDE DEF I, R, f
    <3>1. QED
      BY <1>1, <2>2
<1>3. S \subseteq R
  OBVIOUS
<1>4. IsFiniteSet(S) /\ Cardinality(S) <= Cardinality(R)
  BY <1>2, <1>3, FS_Subset
<1>5. QED
  BY <1>2, <1>4, FS_CardinalityType

(* In the window that ends now no address has had more than MaxAttempts    *)
(* attempts allowed, in whatever order calls read the clock and entered.   *)
THEOREM LimitHolds == LimiterSpec => []WindowBound
<1>1. LimiterInv => WindowBound
  <2> SUFFICES ASSUME LimiterInv, NEW ip \in IPs PROVE Cardinality(InWindow(ip)) <= MaxAttempts
    BY DEF WindowBound
  <2>1. state[ip] \in Seq(Attempt) /\ Len(state[ip]) \in Nat /\ Len(state[ip]) <= MaxAttempts
    BY DEF LimiterInv, LimiterTypeOK
  <2>2. Cardinality(InWindow(ip)) <= Len(state[ip])
    BY <2>1, NoLargerThanSeq DEF LimiterInv, Kept
  <2>3. IsFiniteSet(InWindow(ip))
    BY FS_Subset DEF LimiterInv, Finite, InWindow
  <2>4. QED
    BY <2>1, <2>2, <2>3, FS_CardinalityType, LimiterAssumption
<1>2. QED
  BY <1>1, LimiterSound, PTL

(* When an attempt is refused, the deque is full of attempts that have not *)
(* expired.                                                                *)
LEMMA RefusedFull ==
  ASSUME LimiterInv, NEW c \in Callers, Check(c), calls'[c].pc = "refused",
         Sorted(state[calls[c].ip])
  PROVE  LET ip  == calls[c].ip
             now == calls[c].now
         IN  MaxAttempts <= Cardinality({a \in allowed[ip] : a.at + Window >= now})
<1> DEFINE ip  == calls[c].ip
           now == calls[c].now
           q   == state[ip]
           A   == {a \in allowed[ip] : a.at + Window >= now}
<1>1. LimiterTypeOK /\ Finite /\ Numbered
  BY DEF LimiterInv
<1>2. ip \in IPs /\ now \in Nat
  <2>1. calls[c] \in CallLocals /\ calls[c].pc = "lock"
    BY <1>1 DEF Check, LimiterTypeOK
  <2>2. calls[c] \in [pc : {"lock"}, ip : IPs, now : Nat]
    BY <2>1 DEF CallLocals, Idle
  <2>3. QED
    BY <2>2
<1>3. q \in Seq(Attempt) /\ Len(q) <= MaxAttempts
  BY <1>1, <1>2 DEF LimiterTypeOK
<1>4. PICK k \in Evicted(q, now) : ~HasRoom(SubSeq(q, k + 1, Len(q)))
  <2>1. \A k \in Evicted(q, now) :
          calls' = [calls EXCEPT ![c] = [pc |-> "allowed"]] => calls'[c].pc # "refused"
    BY <1>1 DEF LimiterTypeOK
  <2>2. QED
    BY <2>1 DEF Check
<1>5. Len(SubSeq(q, k + 1, Len(q))) = Len(q) - k /\ k \in 0 .. Len(q)
  BY <1>2, <1>3, EvictedRest
<1>6. k = 0 /\ Len(q) = MaxAttempts /\ MaxAttempts \in Nat \ {0}
  BY <1>3, <1>4, <1>5, LimiterAssumption DEF HasRoom
<1>7. ~Expired(q[1], now)
  BY <1>3, <1>4, <1>6 DEF Evicted
<1>8. \A i \in 1 .. Len(q) : q[i] \in A
  <2> SUFFICES ASSUME NEW i \in 1 .. Len(q) PROVE q[i] \in A
    OBVIOUS
  <2> HIDE DEF q, now
  <2>1. 1 \in 1 .. Len(q) /\ q[1] \in Attempt /\ q[i] \in Attempt
    BY <1>3, <1>6
  <2>2. q[1].at \in Nat /\ q[i].at \in Nat
    BY <2>1 DEF Attempt
  <2>3. q[1].at <= q[i].at
    <3>1. CASE i = 1
      BY <2>2, <3>1
    <3>2. CASE i # 1
      <4>1. 1 < i
        BY <2>1, <3>2
      <4>2. Sorted(q)
        BY DEF q, ip
      <4>3. QED
        BY <2>1, <4>1, <4>2 DEF Sorted
    <3>3. QED
      BY <3>1, <3>2
  <2>4. q[1].at + Window >= now
    BY <1>2, <1>7, <2>2, LimiterAssumption DEF Expired
  <2>5. q[i].at + Window >= now
    BY <1>2, <2>2, <2>3, <2>4, LimiterAssumption
  <2>6. q[i] \in allowed[ip]
    BY <1>1, <1>2 DEF Numbered, q
  <2>7. QED
    BY <2>5, <2>6 DEF now
<1>9. \A i, j \in 1 .. Len(q) : q[i] = q[j] => i = j
  <2>1. \A i, j \in 1 .. Len(q) : i < j => q[i].n < q[j].n
    BY <1>1, <1>2 DEF Numbered
  <2>2. \A i \in 1 .. Len(q) : q[i].n \in Nat
    <3> HIDE DEF q
    <3>1. \A i \in 1 .. Len(q) : q[i] \in Attempt
      BY <1>3
    <3>2. QED
      BY <3>1 DEF Attempt
  <2> HIDE DEF q
  <2> SUFFICES ASSUME NEW i \in 1 .. Len(q), NEW j \in 1 .. Len(q), q[i] = q[j] PROVE i = j
    OBVIOUS
  <2>3. ~(q[i].n < q[j].n) /\ ~(q[j].n < q[i].n)
    BY <2>2
  <2>4. QED
    BY <2>1, <2>3
<1>10. IsFiniteSet(A)
  BY <1>1, <1>2, FS_Subset DEF Finite
<1> HIDE DEF A, q
<1>11. MaxAttempts <= Cardinality(A)
  <2> DEFINE f == [i \in 1 .. Len(q) |-> q[i]]
  <2>1. f \in Injection(1 .. Len(q), A)
    BY <1>8, <1>9 DEF Injection, IsInjective
  <2>2. Cardinality(1 .. Len(q)) <= Cardinality(A)
    <3> HIDE DEF f
    <3>1. QED
      BY <1>10, <2>1, FS_Injection
  <2>3. Cardinality(1 .. Len(q)) = MaxAttempts
    BY <1>6, FS_Interval
  <2>4. QED
    BY <2>2, <2>3
<1>12. QED
  BY <1>11 DEF A

(* An attempt is refused only when as many as the limit were allowed in    *)
(* the window before it, unless attempts were entered in another order     *)
(* than that of their times (check).                                       *)
THEOREM RefusalsJustified == LimiterSpec => RefusedForReason
<1>1. ASSUME LimiterInv, [LimiterNext]_limiterVars,
             NEW c \in Callers, calls[c].pc = "lock", calls'[c].pc = "refused"
      PROVE  Check(c)
  <2>1. LimiterTypeOK
    BY <1>1 DEF LimiterInv
  <2>2. CASE Tick \/ UNCHANGED limiterVars
    BY <1>1, <2>2 DEF Tick, limiterVars
  <2>3. ASSUME NEW d \in Callers, ReadClock(d) \/ Check(d) \/ Answer(d) PROVE d = c /\ Check(c)
    <3>1. d = c
      BY <1>1, <2>1, <2>3 DEF ReadClock, Check, Answer, LimiterTypeOK
    <3>2. QED
      BY <1>1, <2>1, <2>3, <3>1 DEF ReadClock, Answer, Idle
  <2>4. QED
    BY <1>1, <2>2, <2>3 DEF LimiterNext
<1>2. ASSUME LimiterInv, NEW c \in Callers, Check(c),
             calls'[c].pc = "refused", Sorted(state[calls[c].ip])
      PROVE  Cardinality({a \in allowed[calls[c].ip] : a.at + Window >= calls[c].now}) >= MaxAttempts
  <2>1. IsFiniteSet({a \in allowed[calls[c].ip] : a.at + Window >= calls[c].now})
    <3>1. calls[c].ip \in IPs
      <4>1. calls[c] \in CallLocals /\ calls[c].pc = "lock"
        BY <1>2 DEF LimiterInv, LimiterTypeOK, Check
      <4>2. calls[c] \in [pc : {"lock"}, ip : IPs, now : Nat]
        BY <4>1 DEF CallLocals, Idle
      <4>3. QED
        BY <4>2
    <3>2. IsFiniteSet(allowed[calls[c].ip])
      BY <1>2, <3>1 DEF LimiterInv, Finite
    <3>3. QED
      BY <3>2, FS_Subset
  <2>2. QED
    BY <1>2, <2>1, FS_CardinalityType, RefusedFull, LimiterAssumption
<1>3. LimiterInv /\ [LimiterNext]_limiterVars =>
        [\A c \in Callers :
           calls[c].pc = "lock" /\ calls'[c].pc = "refused" /\ Sorted(state[calls[c].ip]) =>
             Cardinality({a \in allowed[calls[c].ip] : a.at + Window >= calls[c].now})
               >= MaxAttempts]_limiterVars
  BY <1>1, <1>2
<1>4. QED
  BY <1>3, LimiterSound, PTL DEF LimiterSpec, RefusedForReason
=============================================================================
