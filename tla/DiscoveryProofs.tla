-------------------------- MODULE DiscoveryProofs --------------------------
(***************************************************************************)
(* Proofs about Discovery, for any units, containers, bodies, refreshes,   *)
(* requests and failed reads; and, from the second part on, about the      *)
(* address UrlHint suggests for a unit, for any processes, sockets and     *)
(* containers, and for hosts that change as often as they like.            *)
(*                                                                         *)
(* AnswersHold is about the list alone, and a list is only as good as the  *)
(* passes that wrote it: the invariant adds what each pass under way knows *)
(* of the answers given since it read the tables.  What a detection of an  *)
(* address has read is old, too, when it is used: its invariant (Knows)    *)
(* compares it with what there has been, not with what there is.           *)
(***************************************************************************)
EXTENDS Discovery, UrlHint, WellFoundedInduction, TLAPS

(* What a pass keeps although it was answered, it could not know of; what  *)
(* is left to consider was not dismissed when it looked.                   *)
PassesKnow ==
  \A p \in Checking :
    /\ passes[p].late \subseteq passes[p].todo \cup passes[p].kept
    /\ passes[p].todo \cap passes[p].kept = {}
    /\ \A e \in passes[p].todo : e \in dismissed => e \in passes[p].late
    /\ \A e \in passes[p].kept : Answered(e) => e \in passes[p].late

IInv == TypeOK /\ PassesKnow /\ AnswersHold

CheckLocals == [pc : {"check"}, todo : SUBSET Entries, kept : SUBSET Entries, late : SUBSET Entries]

LEMMA CheckingType ==
  ASSUME TypeOK, NEW p \in Checking
  PROVE  /\ p \in Passes /\ passes[p] \in CheckLocals
         /\ passes[p].todo \subseteq OfKind(p.kind)
         /\ passes[p].kept \subseteq OfKind(p.kind)
         /\ passes[p].late \subseteq OfKind(p.kind)
  BY DEF Checking, TypeOK, PassLocals, CheckLocals, Idle, Ready

LEMMA KindType ==
  ASSUME NEW e \in Entries
  PROVE  Kind(e) \in Kinds
  BY DEF Kind, Kinds

(* An answer depends on the two tables only.                               *)
LEMMA AnsweredSame ==
  ASSUME UNCHANGED <<dismissed, services>>, NEW e
  PROVE  Answered(e)' <=> Answered(e)
  BY DEF Answered, Rows

LEMMA InitInv == Init => IInv
<1> SUFFICES ASSUME Init PROVE IInv
  OBVIOUS
<1>1. Checking = {} /\ list = {}
  BY DEF Init, Checking, Rest, Idle, Ready
<1>2. TypeOK
  BY DiscoveryAssumption DEF Init, TypeOK, PassLocals, Rest, Idle, Ready, DiscoveryAssumption
<1>3. QED
  BY <1>1, <1>2 DEF IInv, PassesKnow, AnswersHold

-----------------------------------------------------------------------------
(* A step that touches no table and starts or ends passes: those that go   *)
(* on checking are as they were.                                           *)
LEMMA PassesOnly ==
  ASSUME IInv, UNCHANGED <<dismissed, services>>,
         \A p \in Passes : passes'[p] = passes[p] \/ passes'[p].pc # "check"
  PROVE  PassesKnow'
<1> SUFFICES ASSUME NEW p \in Checking'
             PROVE  /\ passes'[p].late \subseteq passes'[p].todo \cup passes'[p].kept
                    /\ passes'[p].todo \cap passes'[p].kept = {}
                    /\ \A e \in passes'[p].todo : e \in dismissed' => e \in passes'[p].late
                    /\ \A e \in passes'[p].kept : Answered(e)' => e \in passes'[p].late
  BY DEF PassesKnow
<1>1. p \in Checking /\ passes'[p] = passes[p]
  BY DEF Checking
<1>2. QED
  BY <1>1, AnsweredSame DEF IInv, PassesKnow

(* A step that leaves the list, its history and the tables as they are,    *)
(* and ends no request.                                                    *)
LEMMA ListSame ==
  ASSUME IInv, UNCHANGED <<list, blind, dismissed, services, reqs>>
  PROVE  AnswersHold'
  BY AnsweredSame DEF IInv, AnswersHold

LEMMA RefreshInv ==
  ASSUME IInv, NEW f \in Refreshers, Refresh(f) PROVE IInv'
<1>1. PassesKnow'
  BY PassesOnly DEF Refresh, Ready
<1>2. AnswersHold'
  BY ListSame DEF Refresh
<1>3. TypeOK'
  BY DEF IInv, TypeOK, Refresh, PassLocals, Ready
<1>4. QED
  BY <1>1, <1>2, <1>3 DEF IInv

LEMMA BeginInv ==
  ASSUME IInv, NEW p \in Passes, Begin(p) PROVE IInv'
<1> DEFINE units == {e.unit : e \in list \cap OfKind("systemd")}
<1>1. units \subseteq SystemdUnits
  <2> SUFFICES ASSUME NEW e \in list \cap OfKind("systemd") PROVE e.unit \in SystemdUnits
    OBVIOUS
  <2>1. e \in Entries /\ e.source = "systemd"
    BY DEF IInv, TypeOK, OfKind, Kind
  <2>2. e \notin Containers
    BY <2>1, DiscoveryAssumption DEF DiscoveryAssumption
  <2>3. QED
    BY <2>1, <2>2 DEF Entries, Entry
<1>2. [pc |-> "read", units |-> units] \in PassLocals
  BY <1>1 DEF PassLocals
<1>3. passes' = [passes EXCEPT ![p] = [pc |-> "read", units |-> units]]
  BY DEF Begin, Go
<1> HIDE DEF units
<1>4. PassesKnow'
  BY <1>3, PassesOnly DEF Begin, IInv, TypeOK
<1>5. AnswersHold'
  BY ListSame DEF Begin
<1>6. TypeOK'
  BY <1>2, <1>3 DEF IInv, TypeOK, Begin
<1>7. QED
  BY <1>4, <1>5, <1>6 DEF IInv

LEMMA FailInv ==
  ASSUME IInv, NEW p \in Passes, Fail(p) PROVE IInv'
<1>1. Rest(p) \in PassLocals /\ Rest(p).pc # "check"
  BY DEF Rest, Idle, Ready, PassLocals
<1>2. PassesKnow'
  BY <1>1, PassesOnly DEF Fail, Go, IInv, TypeOK
<1>3. AnswersHold'
  BY ListSame DEF Fail
<1>4. TypeOK'
  BY <1>1 DEF IInv, TypeOK, Fail, Go
<1>5. QED
  BY <1>2, <1>3, <1>4 DEF IInv

(* A step that sets one pass to checking, with what it must know.          *)
LEMMA PassSet ==
  ASSUME IInv, UNCHANGED <<dismissed, services>>, NEW p \in Passes, NEW locals \in CheckLocals,
         Go(p, locals),
         locals.late \subseteq locals.todo \cup locals.kept,
         locals.todo \cap locals.kept = {},
         \A e \in locals.todo : e \in dismissed => e \in locals.late,
         \A e \in locals.kept : Answered(e) => e \in locals.late
  PROVE  PassesKnow'
<1> SUFFICES ASSUME NEW q \in Checking'
             PROVE  /\ passes'[q].late \subseteq passes'[q].todo \cup passes'[q].kept
                    /\ passes'[q].todo \cap passes'[q].kept = {}
                    /\ \A e \in passes'[q].todo : e \in dismissed' => e \in passes'[q].late
                    /\ \A e \in passes'[q].kept : Answered(e)' => e \in passes'[q].late
  BY DEF PassesKnow
<1>1. CASE q = p
  <2>1. passes'[q] = locals
    BY <1>1 DEF Go, IInv, TypeOK
  <2>2. QED
    BY <2>1, AnsweredSame
<1>2. CASE q # p
  <2>1. q \in Checking /\ passes'[q] = passes[q]
    BY <1>2 DEF Checking, Go, IInv, TypeOK
  <2>2. QED
    BY <2>1, AnsweredSame DEF IInv, PassesKnow
<1>3. QED
  BY <1>1, <1>2

LEMMA CandidatesType ==
  ASSUME NEW p \in Passes
  PROVE  Candidates(p) \subseteq OfKind(p.kind)
<1>1. p.kind \in Kinds
  BY DEF Passes
<1>2. \A c \in Containers : c \in OfKind("container")
  BY DiscoveryAssumption DEF DiscoveryAssumption, OfKind, Kind, Entries
<1>3. QED
  BY <1>1, <1>2 DEF Candidates, Kinds

(* The types after a pass is set.                                          *)
LEMMA PassSetType ==
  ASSUME TypeOK, NEW p \in Passes, NEW locals \in CheckLocals, Go(p, locals),
         locals.todo \cup locals.kept \cup locals.late \subseteq OfKind(p.kind),
         UNCHANGED <<list, dismissed, services, reqs, blind>>,
         faults' = faults \/ Fault
  PROVE  TypeOK'
<1>1. faults' \in 0 .. MaxFaults
  BY DiscoveryAssumption DEF DiscoveryAssumption, TypeOK, Fault
<1>2. passes' \in [Passes -> PassLocals]
  BY DEF TypeOK, Go, PassLocals, CheckLocals
<1>3. \A q \in Passes : passes'[q].pc = "check" =>
        passes'[q].todo \cup passes'[q].kept \cup passes'[q].late \subseteq OfKind(q.kind)
  BY DEF TypeOK, Go
<1>4. QED
  BY <1>1, <1>2, <1>3 DEF TypeOK, OfKind, Kind, Entries, Entry

LEMMA ReadDismissedInv ==
  ASSUME IInv, NEW p \in Passes, ReadDismissed(p) PROVE IInv'
<1>1. PICK found \in SUBSET Candidates(p) :
        \/ Go(p, Locals(NotDismissed(found), {}, {})) /\ UNCHANGED faults
        \/ Go(p, Locals(found, {}, found \cap dismissed)) /\ Fault
  BY DEF ReadDismissed
<1>2. found \subseteq OfKind(p.kind) /\ OfKind(p.kind) \subseteq Entries
  BY CandidatesType DEF OfKind
<1>3. UNCHANGED <<list, dismissed, services, reqs, blind>>
  BY DEF ReadDismissed
<1>4. AnswersHold'
  BY <1>3, ListSame
<1>5. CASE Go(p, Locals(NotDismissed(found), {}, {})) /\ UNCHANGED faults
  <2> DEFINE locals == Locals(NotDismissed(found), {}, {})
  <2>1. locals \in CheckLocals
    BY <1>2 DEF CheckLocals, NotDismissed, Locals
  <2>2. PassesKnow'
    BY <1>3, <1>5, <2>1, PassSet DEF NotDismissed, Locals
  <2>3. TypeOK'
    BY <1>2, <1>3, <1>5, <2>1, PassSetType DEF IInv, NotDismissed, Locals
  <2>4. QED
    BY <1>4, <2>2, <2>3 DEF IInv
<1>6. CASE Go(p, Locals(found, {}, found \cap dismissed)) /\ Fault
  <2> DEFINE locals == Locals(found, {}, found \cap dismissed)
  <2>1. locals \in CheckLocals
    BY <1>2 DEF CheckLocals, Locals
  <2>2. PassesKnow'
    BY <1>3, <1>6, <2>1, PassSet DEF Locals
  <2>3. TypeOK'
    BY <1>2, <1>3, <1>6, <2>1, PassSetType DEF IInv, Locals
  <2>4. QED
    BY <1>4, <2>2, <2>3 DEF IInv
<1>7. QED
  BY <1>1, <1>5, <1>6

(* A unit claimed as what it is, is claimed.                               *)
LEMMA AnsweredOrNot ==
  ASSUME NEW e, ~Claimed(e)
  PROVE  Answered(e) => e \in dismissed
  BY DEF Answered, Claimed

LEMMA CheckInv ==
  ASSUME IInv, NEW p \in Passes, Check(p) PROVE IInv'
<1>1. p \in Checking
  BY DEF Check, Checking
<1> DEFINE now == passes[p]
<1>2. PICK e \in now.todo :
        LET left == now.todo \ {e}
            told == {x \in {e} : Answered(x)}
        IN  \/ Claimed(e) /\ Go(p, Locals(left, now.kept, now.late \ {e})) /\ UNCHANGED faults
            \/ ~Claimed(e) /\ Go(p, Locals(left, now.kept \cup {e}, now.late)) /\ UNCHANGED faults
            \/ Claimed(e) /\ Go(p, Locals(left, now.kept \cup {e}, now.late \cup told)) /\ Fault
  BY DEF Check
<1>3. /\ now \in CheckLocals
      /\ now.todo \subseteq OfKind(p.kind)
      /\ now.kept \subseteq OfKind(p.kind)
      /\ now.late \subseteq OfKind(p.kind)
  BY <1>1, CheckingType DEF IInv
<1>4. /\ now.late \subseteq now.todo \cup now.kept
      /\ now.todo \cap now.kept = {}
      /\ \A x \in now.todo : x \in dismissed => x \in now.late
      /\ \A x \in now.kept : Answered(x) => x \in now.late
  BY <1>1 DEF IInv, PassesKnow
<1>5. UNCHANGED <<list, dismissed, services, reqs, blind>>
  BY DEF Check
<1>6. AnswersHold'
  BY <1>5, ListSame
<1>7. PICK todo, kept, late :
        /\ Go(p, Locals(todo, kept, late))
        /\ faults' = faults \/ Fault
        /\ todo = now.todo \ {e}
        /\ \/ kept = now.kept /\ late = now.late \ {e} /\ Claimed(e)
           \/ kept = now.kept \cup {e} /\ late = now.late /\ ~Claimed(e)
           \/ kept = now.kept \cup {e} /\ late = now.late \cup {x \in {e} : Answered(x)}
  <2> HIDE DEF now
  <2>1. QED
    BY <1>2
<1> DEFINE locals == Locals(todo, kept, late)
<1> HIDE DEF now
<1>8. todo \cup kept \cup late \subseteq OfKind(p.kind)
  BY <1>2, <1>3, <1>7
<1>9. locals \in CheckLocals
  BY <1>8 DEF CheckLocals, OfKind, Locals
<1>10. /\ late \subseteq todo \cup kept
       /\ todo \cap kept = {}
       /\ \A x \in todo : x \in dismissed => x \in late
  BY <1>2, <1>4, <1>7
<1>11. \A x \in kept : Answered(x) => x \in late
  <2> SUFFICES ASSUME NEW x \in kept, Answered(x) PROVE x \in late
    OBVIOUS
  <2>1. CASE kept = now.kept /\ late = now.late \ {e} /\ Claimed(e)
    BY <1>2, <1>4, <2>1
  <2>2. CASE kept = now.kept \cup {e} /\ late = now.late /\ ~Claimed(e)
    <3>1. Answered(e) => e \in now.late
      BY <1>2, <1>4, <2>2, AnsweredOrNot
    <3>2. QED
      BY <1>4, <2>2, <3>1
  <2>3. CASE kept = now.kept \cup {e} /\ late = now.late \cup {y \in {e} : Answered(y)}
    BY <1>4, <2>3
  <2>4. QED
    BY <1>7, <2>1, <2>2, <2>3
<1>12. PassesKnow'
  BY <1>5, <1>7, <1>9, <1>10, <1>11, PassSet DEF Locals
<1>13. TypeOK'
  BY <1>5, <1>7, <1>8, <1>9, PassSetType DEF IInv, Locals
<1>14. QED
  BY <1>6, <1>12, <1>13 DEF IInv

LEMMA WriteInv ==
  ASSUME IInv, NEW p \in Passes, Write(p) PROVE IInv'
<1>1. p \in Checking
  BY DEF Write, Checking
<1>2. Rest(p) \in PassLocals /\ Rest(p).pc # "check"
  BY DEF Rest, Idle, Ready, PassLocals
<1>3. PassesKnow'
  BY <1>2, PassesOnly DEF Write, Go, IInv, TypeOK
<1>4. /\ list' = Others(p) \cup passes[p].kept
      /\ blind' = (blind \ OfKind(p.kind)) \cup passes[p].late
      /\ UNCHANGED <<dismissed, services, reqs, faults>>
  BY DEF Write
<1>5. /\ passes[p].kept \subseteq OfKind(p.kind) /\ OfKind(p.kind) \subseteq Entries
      /\ passes[p].late \subseteq passes[p].kept
  BY <1>1, CheckingType DEF IInv, PassesKnow, Write, OfKind
<1>6. AnswersHold'
  <2> SUFFICES ASSUME NEW e \in list', Answered(e)'
               PROVE  e \in blind' \/ \E r \in Reqs : reqs'[r] = [pc |-> "retain", entry |-> e]
    BY DEF AnswersHold
  <2>1. Answered(e)
    BY <1>4, AnsweredSame
  <2>2. CASE e \in passes[p].kept
    BY <1>1, <1>4, <2>1, <2>2 DEF IInv, PassesKnow
  <2>3. CASE e \in Others(p)
    BY <1>4, <2>1, <2>3 DEF IInv, AnswersHold, Others, OfKind
  <2>4. QED
    BY <1>4, <2>2, <2>3
<1>7. TypeOK'
  <2>1. list' \subseteq Entries /\ blind' \subseteq list'
    BY <1>4, <1>5 DEF IInv, TypeOK, Others, OfKind
  <2>2. QED
    BY <1>2, <1>4, <2>1 DEF IInv, TypeOK, Write, Go
<1>8. QED
  BY <1>3, <1>6, <1>7 DEF IInv

-----------------------------------------------------------------------------
(* Requests.  What outrunning a set of passes makes of them.               *)
LEMMA OutrunFields ==
  ASSUME TypeOK, NEW ps \in SUBSET Checking, NEW e \in Entries, passes' = Outrun(e, ps),
         NEW q \in Passes
  PROVE  /\ passes'[q].pc = passes[q].pc
         /\ q \notin ps => passes'[q] = passes[q]
         /\ q \in ps => /\ passes'[q] \in CheckLocals
                        /\ passes'[q].todo = passes[q].todo
                        /\ passes'[q].kept = passes[q].kept
                        /\ passes'[q].late = passes[q].late \cup {e}
<1>1. passes'[q] = IF q \in ps THEN [passes[q] EXCEPT !.late = @ \cup {e}] ELSE passes[q]
  BY DEF Outrun
<1>2. CASE q \in ps
  <2>1. passes[q] \in CheckLocals
    BY <1>2, CheckingType
  <2>2. QED
    BY <1>1, <1>2, <2>1 DEF CheckLocals
<1>3. CASE q \notin ps
  BY <1>1, <1>3
<1>4. QED
  BY <1>2, <1>3

LEMMA OutrunType ==
  ASSUME TypeOK, NEW ps \in SUBSET Checking, NEW e \in Entries, passes' = Outrun(e, ps),
         \A q \in ps : e \in passes[q].todo \cup passes[q].kept
  PROVE  /\ passes' \in [Passes -> PassLocals]
         /\ \A q \in Passes : passes'[q].pc = "check" =>
              passes'[q].todo \cup passes'[q].kept \cup passes'[q].late \subseteq OfKind(q.kind)
<1>1. ASSUME NEW q \in Passes PROVE passes'[q] \in PassLocals
  <2>1. CASE q \in ps
    <3>1. passes'[q] \in CheckLocals
      BY <2>1, OutrunFields, Zenon
    <3>2. QED
      BY <3>1 DEF PassLocals, CheckLocals
  <2>2. CASE q \notin ps
    <3>1. passes'[q] = passes[q]
      BY <2>2, OutrunFields, Zenon
    <3>2. QED
      BY <3>1 DEF TypeOK
  <2>3. QED
    BY <2>1, <2>2
<1>2. DOMAIN passes' = Passes /\ passes' = [q \in Passes |-> passes'[q]]
  BY DEF Outrun
<1>3. ASSUME NEW q \in Passes, passes'[q].pc = "check"
      PROVE  passes'[q].todo \cup passes'[q].kept \cup passes'[q].late \subseteq OfKind(q.kind)
  <2>1. q \in Checking
    BY <1>3, OutrunFields DEF Checking
  <2>2. CASE q \in ps
    BY <2>1, <2>2, CheckingType, OutrunFields
  <2>3. CASE q \notin ps
    <3>1. passes'[q] = passes[q]
      BY <2>3, OutrunFields, Zenon
    <3>2. QED
      BY <2>1, <3>1, CheckingType
  <2>4. QED
    BY <2>2, <2>3
<1>4. QED
  BY <1>1, <1>2, <1>3

(* Passes go on knowing what they must when at most e is newly answered,   *)
(* and those that keep it, or have it before them although it is newly     *)
(* dismissed, are told.                                                    *)
LEMMA OutrunKnow ==
  ASSUME TypeOK, PassesKnow, NEW ps \in SUBSET Checking, NEW e \in Entries,
         passes' = Outrun(e, ps),
         \A q \in ps : e \in passes[q].todo \cup passes[q].kept,
         \A q \in Checking \ ps : e \notin passes[q].kept,
         \A x \in Entries : Answered(x)' => Answered(x) \/ x = e,
         \/ dismissed' \subseteq dismissed
         \/ dismissed' = dismissed \cup {e} /\ \A q \in Checking \ ps : e \notin passes[q].todo
  PROVE  PassesKnow'
<1> SUFFICES ASSUME NEW q \in Checking'
             PROVE  /\ passes'[q].late \subseteq passes'[q].todo \cup passes'[q].kept
                    /\ passes'[q].todo \cap passes'[q].kept = {}
                    /\ \A x \in passes'[q].todo : x \in dismissed' => x \in passes'[q].late
                    /\ \A x \in passes'[q].kept : Answered(x)' => x \in passes'[q].late
  BY DEF PassesKnow
<1>1. q \in Checking
  BY OutrunFields DEF Checking
<1>2. /\ passes'[q].todo = passes[q].todo /\ passes'[q].kept = passes[q].kept
      /\ passes'[q].late = IF q \in ps THEN passes[q].late \cup {e} ELSE passes[q].late
  <2>1. q \in Passes
    BY <1>1 DEF Checking
  <2>2. CASE q \in ps
    BY <2>1, <2>2, OutrunFields
  <2>3. CASE q \notin ps
    <3>1. passes'[q] = passes[q]
      BY <2>1, <2>3, OutrunFields
    <3>2. QED
      BY <2>3, <3>1
  <2>4. QED
    BY <2>2, <2>3
<1>3. /\ passes[q].late \subseteq passes[q].todo \cup passes[q].kept
      /\ passes[q].todo \cap passes[q].kept = {}
      /\ \A x \in passes[q].todo : x \in dismissed => x \in passes[q].late
      /\ \A x \in passes[q].kept : Answered(x) => x \in passes[q].late
  BY <1>1 DEF PassesKnow
<1>4. passes[q].kept \subseteq Entries
  BY <1>1, CheckingType DEF OfKind
<1>5. CASE q \in ps
  BY <1>2, <1>3, <1>4, <1>5
<1>6. CASE q \notin ps
  BY <1>1, <1>2, <1>3, <1>4, <1>6
<1>7. QED
  BY <1>5, <1>6

LEMMA DismissInv ==
  ASSUME IInv, NEW r \in Reqs, NEW e \in Entries, Dismiss(r, e) PROVE IInv'
<1> DEFINE ps == {p \in Checking : e \in passes[p].todo \cup passes[p].kept}
<1>1. passes' = Outrun(e, ps) /\ ps \in SUBSET Checking
  BY DEF Dismiss
<1>2. \A x : Answered(x)' => Answered(x) \/ x = e
  BY DEF Dismiss, Answered, Rows
<1>3. PassesKnow'
  BY <1>1, <1>2, OutrunKnow DEF IInv, Dismiss
<1>4. AnswersHold'
  <2> SUFFICES ASSUME NEW x \in list', Answered(x)'
               PROVE  x \in blind' \/ \E q \in Reqs : reqs'[q] = [pc |-> "retain", entry |-> x]
    BY DEF AnswersHold
  <2>1. CASE x = e
    BY <2>1 DEF Dismiss, IInv, TypeOK
  <2>2. CASE x # e
    <3>1. x \in blind \/ \E q \in Reqs : reqs[q] = [pc |-> "retain", entry |-> x]
      BY <1>2, <2>2 DEF IInv, AnswersHold, Dismiss
    <3>2. QED
      BY <3>1 DEF Dismiss, Idle, IInv, TypeOK
  <2>3. QED
    BY <2>1, <2>2
<1>5. TypeOK'
  <2>1. /\ passes' \in [Passes -> PassLocals]
        /\ \A q \in Passes : passes'[q].pc = "check" =>
             passes'[q].todo \cup passes'[q].kept \cup passes'[q].late \subseteq OfKind(q.kind)
    BY <1>1, OutrunType DEF IInv
  <2>2. QED
    BY <2>1 DEF IInv, TypeOK, Dismiss, OfKind, Kind, Entries, Entry
<1>6. QED
  BY <1>3, <1>4, <1>5 DEF IInv

(* A step that only takes answers back.                                    *)
LEMMA FewerAnswers ==
  ASSUME IInv, UNCHANGED <<list, passes, reqs, blind>>, dismissed' \subseteq dismissed,
         \A x : Answered(x)' => Answered(x)
  PROVE  PassesKnow' /\ AnswersHold'
<1>1. Checking' = Checking
  BY DEF Checking
<1>2. QED
  BY <1>1 DEF IInv, PassesKnow, AnswersHold

LEMMA UndismissInv ==
  ASSUME IInv, NEW e \in Entries, Undismiss(e) PROVE IInv'
<1>1. \A x : Answered(x)' => Answered(x)
  BY DEF Undismiss, Answered, Rows
<1>2. PassesKnow' /\ AnswersHold'
  BY <1>1, FewerAnswers DEF Undismiss
<1>3. TypeOK'
  BY DEF IInv, TypeOK, Undismiss
<1>4. QED
  BY <1>2, <1>3 DEF IInv

LEMMA DeleteServiceInv ==
  ASSUME IInv, NEW i \in Ids, DeleteService(i) PROVE IInv'
<1>1. \A j \in Ids : services'[j] = services[j] \/ services'[j] = None
  BY DEF DeleteService, IInv, TypeOK
<1>2. \A x : Answered(x)' => Answered(x)
  BY <1>1 DEF DeleteService, Answered, Rows
<1>3. PassesKnow' /\ AnswersHold'
  BY <1>2, FewerAnswers DEF DeleteService
<1>4. TypeOK'
  BY DEF IInv, TypeOK, DeleteService
<1>5. QED
  BY <1>3, <1>4 DEF IInv

(* A request that ends, or goes on, with nothing else changed, and that    *)
(* was not about to take an entry off the list.                            *)
LEMMA RequestOnly ==
  ASSUME IInv, NEW r \in Reqs, reqs[r].pc # "retain",
         UNCHANGED <<list, passes, dismissed, services, blind>>,
         \A q \in Reqs : q # r => reqs'[q] = reqs[q]
  PROVE  PassesKnow' /\ AnswersHold'
<1>1. PassesKnow'
  BY PassesOnly
<1>2. AnswersHold'
  <2> SUFFICES ASSUME NEW e \in list', Answered(e)'
               PROVE  e \in blind' \/ \E q \in Reqs : reqs'[q] = [pc |-> "retain", entry |-> e]
    BY DEF AnswersHold
  <2>1. e \in blind \/ \E q \in Reqs : reqs[q] = [pc |-> "retain", entry |-> e]
    BY AnsweredSame DEF IInv, AnswersHold
  <2>2. QED
    BY <2>1
<1>3. QED
  BY <1>1, <1>2

LEMMA CreateCheckInv ==
  ASSUME IInv, NEW r \in Reqs, NEW body \in Bodies, CreateCheck(r, body) PROVE IInv'
<1>1. PassesKnow' /\ AnswersHold'
  BY RequestOnly DEF CreateCheck, Idle, IInv, TypeOK
<1>2. faults' \in 0 .. MaxFaults
  BY DiscoveryAssumption DEF DiscoveryAssumption, CreateCheck, Fault, IInv, TypeOK
<1>3. TypeOK'
  BY <1>2 DEF IInv, TypeOK, CreateCheck
<1>4. QED
  BY <1>1, <1>3 DEF IInv

(* Only r is served: what the others were about to take off the list they  *)
(* still are.                                                              *)
LEMMA CreateInsertInv ==
  ASSUME IInv, NEW r \in Reqs, CreateInsert(r) PROVE IInv'
<1> DEFINE body == reqs[r].body
           e    == Entry(body.source, body.unit)
           ps   == {p \in Checking : e \in passes[p].kept}
<1>1. reqs[r] \in [pc : {"insert"}, body : Bodies] /\ body \in Bodies
  BY DEF CreateInsert, IInv, TypeOK, Idle
<1>2. UNCHANGED <<list, dismissed, faults, blind>>
  BY DEF CreateInsert
<1>3. CASE /\ reqs' = [reqs EXCEPT ![r] = Idle]
           /\ UNCHANGED <<services, passes>>
  <2>1. PassesKnow' /\ AnswersHold'
    BY <1>1, <1>2, <1>3, RequestOnly DEF IInv, TypeOK
  <2>2. TypeOK'
    BY <1>2, <1>3 DEF IInv, TypeOK
  <2>3. QED
    BY <2>1, <2>2 DEF IInv
<1>4. ASSUME NEW i \in Ids, services' = [services EXCEPT ![i] = body]
      PROVE  services' \in [Ids -> Bodies \cup {None}]
  BY <1>1, <1>4 DEF IInv, TypeOK
<1>5. CASE /\ ~UnitTaken(body.unit)
           /\ \E i \in Ids : services[i] = None /\ services' = [services EXCEPT ![i] = body]
           /\ None \in {body.source, body.unit}
           /\ reqs' = [reqs EXCEPT ![r] = Idle] /\ UNCHANGED passes
  <2>1. PICK i \in Ids : services[i] = None /\ services' = [services EXCEPT ![i] = body]
    BY <1>5
  <2>2. services' \in [Ids -> Bodies \cup {None}]
    BY <1>4, <1>5, <2>1
  <2>3. \A x \in Entries : Answered(x)' => Answered(x)
    <3>1. \A x \in Entries : ~(body.source = x.source /\ body.unit = x.unit)
      BY <1>5, DiscoveryAssumption DEF DiscoveryAssumption
    <3>2. QED
      BY <1>2, <2>1, <3>1 DEF Answered, Rows, IInv, TypeOK
  <2>4. PassesKnow'
    <3>1. Checking' = Checking
      BY <1>5 DEF Checking
    <3>2. \A p \in Checking : passes[p].kept \subseteq Entries
      BY CheckingType DEF IInv, OfKind
    <3>3. QED
      BY <1>2, <1>5, <2>3, <3>1, <3>2 DEF IInv, PassesKnow
  <2>5. AnswersHold'
    <3> SUFFICES ASSUME NEW x \in list', Answered(x)'
                 PROVE  x \in blind' \/ \E q \in Reqs : reqs'[q] = [pc |-> "retain", entry |-> x]
      BY DEF AnswersHold
    <3>1. x \in list /\ x \in Entries /\ Answered(x)
      BY <1>2, <2>3 DEF IInv, TypeOK
    <3>2. x \in blind \/ \E q \in Reqs : reqs[q] = [pc |-> "retain", entry |-> x]
      BY <3>1 DEF IInv, AnswersHold
    <3>3. QED
      BY <1>1, <1>2, <1>5, <3>2 DEF IInv, TypeOK
  <2>6. TypeOK'
    BY <1>2, <1>5, <2>2 DEF IInv, TypeOK
  <2>7. QED
    BY <2>4, <2>5, <2>6 DEF IInv
<1>6. CASE /\ ~UnitTaken(body.unit)
           /\ \E i \in Ids : services[i] = None /\ services' = [services EXCEPT ![i] = body]
           /\ None \notin {body.source, body.unit}
           /\ reqs' = [reqs EXCEPT ![r] = [pc |-> "retain", entry |-> e]]
           /\ passes' = Outrun(e, ps)
  <2>1. PICK i \in Ids : services[i] = None /\ services' = [services EXCEPT ![i] = body]
    BY <1>6
  <2>2. services' \in [Ids -> Bodies \cup {None}]
    BY <1>4, <1>6, <2>1
  <2>3. e \in Entries
    BY <1>1, <1>6, DiscoveryAssumption DEF DiscoveryAssumption
  <2>4. \A x \in Entries : Answered(x)' => Answered(x) \/ x = e
    <3> SUFFICES ASSUME NEW x \in Entries, Answered(x)', ~Answered(x) PROVE x = e
      OBVIOUS
    <3>1. x.source = body.source /\ x.unit = body.unit
      BY <1>2, <2>1 DEF Answered, Rows, IInv, TypeOK
    <3>2. x = Entry(x.source, x.unit)
      BY DiscoveryAssumption DEF DiscoveryAssumption, Entries, Entry
    <3>3. QED
      BY <3>1, <3>2
  <2>5. PassesKnow'
    BY <1>2, <1>6, <2>3, <2>4, OutrunKnow DEF IInv
  <2>6. AnswersHold'
    <3> SUFFICES ASSUME NEW x \in list', Answered(x)'
                 PROVE  x \in blind' \/ \E q \in Reqs : reqs'[q] = [pc |-> "retain", entry |-> x]
      BY DEF AnswersHold
    <3>1. x \in list /\ x \in Entries
      BY <1>2 DEF IInv, TypeOK
    <3>2. CASE x = e
      BY <1>6, <3>2 DEF IInv, TypeOK
    <3>3. CASE x # e
      <4>1. x \in blind \/ \E q \in Reqs : reqs[q] = [pc |-> "retain", entry |-> x]
        BY <2>4, <3>1, <3>3 DEF IInv, AnswersHold
      <4>2. QED
        BY <1>1, <1>2, <1>6, <4>1 DEF IInv, TypeOK
    <3>4. QED
      BY <3>2, <3>3
  <2>7. TypeOK'
    <3>1. ps \in SUBSET Checking /\ \A q \in ps : e \in passes[q].todo \cup passes[q].kept
      OBVIOUS
    <3> HIDE DEF e, ps
    <3>2. /\ passes' \in [Passes -> PassLocals]
          /\ \A q \in Passes : passes'[q].pc = "check" =>
               passes'[q].todo \cup passes'[q].kept \cup passes'[q].late \subseteq OfKind(q.kind)
      BY <1>6, <2>3, <3>1, OutrunType DEF IInv
    <3>3. QED
      BY <1>2, <1>6, <2>2, <2>3, <3>2 DEF IInv, TypeOK, OfKind, Kind, Entries, Entry
  <2>8. QED
    BY <2>5, <2>6, <2>7 DEF IInv
<1>7. QED
  BY <1>3, <1>5, <1>6 DEF CreateInsert

LEMMA RetainInv ==
  ASSUME IInv, NEW r \in Reqs, Retain(r) PROVE IInv'
<1> DEFINE e == reqs[r].entry
<1>1. reqs[r] \in [pc : {"retain"}, entry : Entries]
  BY DEF Retain, IInv, TypeOK, Idle
<1>2. PassesKnow'
  BY PassesOnly DEF Retain
<1>3. AnswersHold'
  <2> SUFFICES ASSUME NEW x \in list', Answered(x)'
               PROVE  x \in blind' \/ \E q \in Reqs : reqs'[q] = [pc |-> "retain", entry |-> x]
    BY DEF AnswersHold
  <2>1. x \in list /\ x # e /\ Answered(x)
    BY AnsweredSame DEF Retain
  <2>2. x \in blind \/ \E q \in Reqs : reqs[q] = [pc |-> "retain", entry |-> x]
    BY <2>1 DEF IInv, AnswersHold
  <2>3. QED
    BY <2>1, <2>2 DEF Retain, IInv, TypeOK
<1>4. TypeOK'
  BY DEF IInv, TypeOK, Retain
<1>5. QED
  BY <1>2, <1>3, <1>4 DEF IInv

LEMMA AbandonInv ==
  ASSUME IInv, NEW r \in Reqs, Abandon(r) PROVE IInv'
<1>1. PassesKnow'
  BY PassesOnly DEF Abandon
<1>2. blind' \subseteq list /\ blind \subseteq blind'
  BY DEF Abandon, IInv, TypeOK
<1>3. AnswersHold'
  <2> SUFFICES ASSUME NEW x \in list', Answered(x)'
               PROVE  x \in blind' \/ \E q \in Reqs : reqs'[q] = [pc |-> "retain", entry |-> x]
    BY DEF AnswersHold
  <2>1. x \in list /\ Answered(x)
    BY AnsweredSame DEF Abandon
  <2>2. CASE reqs[r] = [pc |-> "retain", entry |-> x]
    BY <2>1, <2>2 DEF Abandon
  <2>3. CASE reqs[r] # [pc |-> "retain", entry |-> x]
    <3>1. x \in blind \/ \E q \in Reqs : reqs[q] = [pc |-> "retain", entry |-> x]
      BY <2>1 DEF IInv, AnswersHold
    <3>2. QED
      BY <1>2, <2>3, <3>1 DEF Abandon, IInv, TypeOK
  <2>4. QED
    BY <2>2, <2>3
<1>4. TypeOK'
  BY <1>2 DEF IInv, TypeOK, Abandon
<1>5. QED
  BY <1>1, <1>3, <1>4 DEF IInv

LEMMA RestartInv ==
  ASSUME IInv, Restart PROVE IInv'
<1>1. \A p \in Passes : Rest(p) \in PassLocals /\ Rest(p).pc # "check"
  BY DEF Rest, Idle, Ready, PassLocals
<1>2. PassesKnow'
  BY <1>1, PassesOnly DEF Restart
<1>3. AnswersHold'
  BY DEF Restart, AnswersHold
<1>4. TypeOK'
  BY <1>1 DEF IInv, TypeOK, Restart
<1>5. QED
  BY <1>2, <1>3, <1>4 DEF IInv

-----------------------------------------------------------------------------
LEMMA NextInv == IInv /\ [Next]_vars => IInv'
<1> SUFFICES ASSUME IInv, [Next]_vars PROVE IInv'
  OBVIOUS
<1>1. ASSUME NEW p \in Passes, Step(p) \/ Fail(p) PROVE IInv'
  BY <1>1, BeginInv, ReadDismissedInv, CheckInv, WriteInv, FailInv DEF Step
<1>2. ASSUME NEW r \in Reqs,
             \/ \E e \in Entries : Dismiss(r, e)
             \/ \E body \in Bodies : CreateCheck(r, body)
             \/ CreateInsert(r) \/ Retain(r) \/ Abandon(r)
      PROVE  IInv'
  BY <1>2, DismissInv, CreateCheckInv, CreateInsertInv, RetainInv, AbandonInv
<1>3. CASE UNCHANGED vars
  <2>1. PassesKnow' /\ AnswersHold'
    BY <1>3, PassesOnly, ListSame DEF vars
  <2>2. TypeOK'
    BY <1>3 DEF vars, IInv, TypeOK
  <2>3. QED
    BY <2>1, <2>2 DEF IInv
<1>4. QED
  BY <1>1, <1>2, <1>3, RefreshInv, UndismissInv, DeleteServiceInv, RestartInv DEF Next

THEOREM InvAlways == Spec => []IInv
  BY InitInv, NextInv, PTL DEF Spec

(* Types of the variables, and no history of what is not listed.           *)
THEOREM TypeCorrect == Spec => []TypeOK
<1>1. IInv => TypeOK
  BY DEF IInv
<1>2. QED
  BY <1>1, InvAlways, PTL

(* A unit the user dismissed or claimed as what it is, is offered only by  *)
(* a pass that could not know, or while the request is at work on it or    *)
(* after it stopped half way: however many passes overlap with however     *)
(* many requests.                                                          *)
THEOREM AnswersHoldAlways == Spec => []AnswersHold
<1>1. IInv => AnswersHold
  BY DEF IInv
<1>2. QED
  BY <1>1, InvAlways, PTL

-----------------------------------------------------------------------------
(* The address suggested for a unit                                        *)

(* The host: what a process has it has had, and the sockets it opens are   *)
(* of its user.                                                            *)
HostSound ==
  /\ alive \in SUBSET Pids
  /\ held \in [Pids -> SUBSET Inodes]
  /\ ever \in [Pids -> (SUBSET Inodes) \cup {Nil}]
  /\ \A p \in alive : ever[p] # Nil /\ held[p] \subseteq ever[p]
  /\ \A p \in Pids \ alive : held[p] = {}
  /\ main \in Pids \cup {Nil}
  /\ main # Nil => Proc[main].unit /\ ever[main] # Nil
  /\ containers \in [{"base", "systemd-base"} -> Published]

(* A process of the unit that has run since the detection began.           *)
OfUnit(p) == p \in Pids /\ Proc[p].unit /\ ever[p] # Nil

Looking == look.pc \in {"fds", "uid", "tcp", "tcp6"}

(* What the local variables tell.  A process that was gone when its files  *)
(* were read does not come back, so a user is known only of one whose      *)
(* files are not readable.                                                 *)
Knows ==
  /\ look.pc = "next" \/ Looking => look.todo = Nil \/ \A p \in look.todo : OfUnit(p)
  /\ Looking => OfUnit(look.pid)
  /\ look.pc = "uid" => look.pid \notin alive \/ ~Proc[look.pid].readable
  /\ look.pc \in {"tcp", "tcp6"} =>
       /\ look.inodes # Nil => look.inodes \subseteq ever[look.pid]
       /\ look.inodes = Nil =>
            look.uid = Nil \/ (look.uid = Proc[look.pid].uid /\ ~Proc[look.pid].readable)

Sound == HostSound /\ Knows /\ HintOwned

-----------------------------------------------------------------------------
(* A set of naturals that is not empty has a least element.               *)
LEMMA LeastOf ==
  ASSUME NEW T \in SUBSET Nat, T # {}
  PROVE  \E n \in T : \A m \in T : ~(m < n)
<1> DEFINE R == OpToRel(<, Nat)
<1>1. \E n \in T : \A m \in T : ~ (<<m, n>> \in R)
  <2>1. IsWellFoundedOn(R, Nat)
    BY NatLessThanWellFounded
  <2> HIDE DEF R
  <2>2. QED
    BY <2>1, WFMin
<1>2. \A n, m \in Nat : m < n => <<m, n>> \in R
  BY DEF R, OpToRel
<1>3. QED
  <2> HIDE DEF R
  <2>1. PICK n \in T : \A m \in T : ~ (<<m, n>> \in R)
    BY <1>1
  <2>2. QED
    BY <2>1, <1>2, Zenon

(* The port chosen is published, and one of HTTPS only if all are.         *)
LEMMA BestIsBest ==
  ASSUME NEW ports, DOMAIN ports \subseteq Nat, Best(ports) # 0
  PROVE  /\ Best(ports) \in DOMAIN ports
         /\ ports[Best(ports)].public # Nil
         /\ ports[Best(ports)].private \in Https =>
              \A m \in DOMAIN ports : ports[m].public = Nil \/ ports[m].private \in Https
<1> DEFINE ok == {n \in DOMAIN ports : ports[n].public # Nil}
           T(n) == Tier(ports[n].private)
           Before(n, m) == T(n) < T(m) \/ (T(n) = T(m) /\ n <= m)
<1>1. ok # {} /\ Best(ports) = CHOOSE n \in ok : \A m \in ok : Before(n, m)
  BY DEF Best
<1>2. ok \subseteq Nat /\ \A n \in ok : T(n) \in Nat
  BY DEF Tier
<1>3. \E n \in ok : \A m \in ok : Before(n, m)
  <2> DEFINE tiers == {T(n) : n \in ok}
  <2>1. PICK t \in tiers : \A u \in tiers : ~(u < t)
    <3>1. tiers \in SUBSET Nat /\ tiers # {}
      BY <1>1, <1>2
    <3> HIDE DEF tiers
    <3>2. QED
      BY <3>1, LeastOf
  <2> DEFINE same == {n \in ok : T(n) = t}
  <2>2. PICK n \in same : \A m \in same : ~(m < n)
    <3>1. same \in SUBSET Nat /\ same # {}
      BY <1>2, <2>1
    <3> HIDE DEF same
    <3>2. QED
      BY <3>1, LeastOf
  <2>3. n \in ok /\ T(n) = t
    BY <2>2
  <2>4. ASSUME NEW m \in ok PROVE Before(n, m)
    <3>1. T(m) \in Nat /\ t \in Nat /\ n \in Nat /\ m \in Nat
      BY <1>2, <2>1, <2>3
    <3>2. ~(T(m) < t)
      BY <2>1
    <3>3. T(m) = t => ~(m < n)
      BY <2>2
    <3> HIDE DEF T
    <3>4. QED
      BY <2>3, <3>1, <3>2, <3>3
  <2>5. QED
    BY <2>3, <2>4
<1>4. Best(ports) \in ok /\ \A m \in ok : Before(Best(ports), m)
  <2> HIDE DEF ok, Before
  <2>1. QED
    BY <1>1, <1>3
<1>5. ports[Best(ports)].private \in Https => \A m \in ok : ports[m].private \in Https
  <2> SUFFICES ASSUME ports[Best(ports)].private \in Https, NEW m \in ok
               PROVE  ports[m].private \in Https
    OBVIOUS
  <2>1. Before(Best(ports), m)
    BY <1>4
  <2>2. T(Best(ports)) = 3
    BY DEF Tier
  <2>3. T(m) = 3
    <3>1. T(m) \in {1, 2, 3}
      BY DEF Tier
    <3> HIDE DEF T
    <3>2. QED
      BY <2>1, <2>2, <3>1
  <2>4. QED
    BY <2>3 DEF Tier
<1>6. QED
  BY <1>4, <1>5

LEMMA NoneOfNothing == Best(<< >>) = 0
BY DEF Best

-----------------------------------------------------------------------------
LEMMA HintInitSound == HintInit => Sound
<1> SUFFICES ASSUME HintInit PROVE Sound
  OBVIOUS
<1>1. HostSound
  <2>1. held \in [Pids -> SUBSET Inodes]
    BY DEF HintInit
  <2>2. ever \in [Pids -> (SUBSET Inodes) \cup {Nil}]
    BY <2>1 DEF HintInit
  <2>3. \A p \in alive : ever[p] = held[p] /\ held[p] \in SUBSET Inodes
    BY <2>1 DEF HintInit
  <2>4. \A p \in alive : ever[p] # Nil
    BY <2>3, UrlHintAssumption
  <2>5. QED
    BY <2>1, <2>2, <2>3, <2>4 DEF HintInit, HostSound
<1>2. Knows /\ HintOwned
  BY DEF HintInit, Knows, Looking, HintOwned
<1>3. QED
  BY <1>1, <1>2 DEF Sound

(* A step of the detection that finds nothing.                             *)
LEMMA SearchSound ==
  ASSUME Sound, Quiet, UNCHANGED hint, Knows'
  PROVE  Sound'
<1>1. HostSound'
  BY DEF Sound, HostSound, Quiet, host
<1>2. HintOwned'
  BY DEF Sound, HintOwned, Publishes, Had, Quiet, host
<1>3. QED
  BY <1>1, <1>2 DEF Sound

(* A step that finds a hint.                                               *)
LEMMA FoundSound ==
  ASSUME Sound, Quiet, NEW via, NEW port, NEW at, Found(via, port, at),
         port # Nil,
         \/ via = "socket" /\ \E n \in DOMAIN listens : listens[n] = port
         \/ via = "oci" /\ \E name \in DOMAIN containers : Publishes(name, port)
         \/ via = "container" /\ Publishes("base", port)
         \/ via = "process" /\ \E p \in Pids : Proc[p].unit /\ Had(p, port)
  PROVE  Sound'
<1>1. HostSound'
  BY DEF Sound, HostSound, Quiet, host
<1>2. Knows'
  BY DEF Found, Knows, Looking
<1>3. /\ hint'.via = via /\ hint'.port = port
      /\ UNCHANGED <<listens, containers, ever>>
  BY DEF Found, Quiet, host
<1>4. HintOwned'
  BY <1>3 DEF HintOwned, Publishes, Had
<1>5. QED
  BY <1>1, <1>2, <1>4 DEF Sound

LEMMA PublishedBest ==
  ASSUME Sound, NEW name \in {"base", "systemd-base"}, Best(containers[name]) # 0
  PROVE  LET port == containers[name][Best(containers[name])].public
         IN  port # Nil /\ name \in DOMAIN containers /\ Publishes(name, port)
<1>1. containers[name] \in Published /\ name \in DOMAIN containers
  BY DEF Sound, HostSound
<1>2. DOMAIN containers[name] \subseteq Nat
  BY <1>1, UrlHintAssumption
<1>3. QED
  BY <1>1, <1>2, BestIsBest DEF Publishes

-----------------------------------------------------------------------------
(* The stages                                                              *)

LEMMA SocketsSound ==
  ASSUME Sound, ReadSockets
  PROVE  Sound'
<1>1. Quiet
  BY DEF ReadSockets
<1>2. CASE Then([pc |-> "pid"])
  <2>1. Knows'
    BY <1>2 DEF Then, Knows, Looking
  <2>2. QED
    BY <1>1, <1>2, <2>1, SearchSound DEF Then
<1>3. CASE \E n \in DOMAIN listens : HasPort(listens[n]) /\ Found("socket", listens[n], "localhost")
  BY <1>1, <1>3, FoundSound DEF HasPort
<1>4. QED
  BY <1>2, <1>3 DEF ReadSockets

LEMMA ContainerSound ==
  ASSUME Sound, HintContainer
  PROVE  Sound'
<1>1. Quiet
  BY DEF HintContainer
<1>2. CASE Best(containers["base"]) = 0
  <2>1. Then([pc |-> "done"])
    BY <1>2 DEF HintContainer
  <2>2. Knows'
    BY <2>1 DEF Then, Knows, Looking
  <2>3. QED
    BY <1>1, <2>1, <2>2, SearchSound DEF Then
<1>3. CASE Best(containers["base"]) # 0
  <2> DEFINE n == Best(containers["base"])
             ports == containers["base"]
  <2>1. Found("container", ports[n].public, At(ports[n]))
    BY <1>3 DEF HintContainer
  <2>2. ports[n].public # Nil /\ Publishes("base", ports[n].public)
    BY <1>3, PublishedBest
  <2>3. QED
    BY <1>1, <2>1, <2>2, FoundSound
<1>4. QED
  BY <1>2, <1>3

LEMMA OciSound ==
  ASSUME Sound, ReadPidForOci \/ ReadExe \/ AskRuntime
  PROVE  Sound'
<1>1. Quiet
  BY DEF ReadPidForOci, ReadExe, AskRuntime
<1>2. CASE \E y : Then(y) /\ y.pc \in {"main", "exe", "ports", "done"}
  <2>1. Knows'
    BY <1>2 DEF Then, Knows, Looking
  <2>2. QED
    BY <1>1, <1>2, <2>1, SearchSound DEF Then
<1>3. CASE ReadPidForOci \/ ReadExe
  BY <1>2, <1>3 DEF ReadPidForOci, ReadExe
<1>4. CASE AskRuntime
  <2>1. PICK first \in Answers("base"), second \in Answers("systemd-base") :
          \/ Best(first) # 0 /\ Found("oci", first[Best(first)].public, "localhost")
          \/ Best(second) # 0 /\ Found("oci", second[Best(second)].public, "localhost")
          \/ Then([pc |-> "done"])
    BY <1>4 DEF AskRuntime
  <2>2. /\ Best(first) # 0 => first = containers["base"]
        /\ Best(second) # 0 => second = containers["systemd-base"]
    BY NoneOfNothing DEF Answers
  <2>3. CASE Best(first) # 0 /\ Found("oci", first[Best(first)].public, "localhost")
    BY <1>1, <2>2, <2>3, PublishedBest, FoundSound
  <2>4. CASE Best(second) # 0 /\ Found("oci", second[Best(second)].public, "localhost")
    BY <1>1, <2>2, <2>4, PublishedBest, FoundSound
  <2>5. CASE Then([pc |-> "done"])
    BY <1>2, <2>5
  <2>6. QED
    BY <2>1, <2>3, <2>4, <2>5
<1>5. QED
  BY <1>3, <1>4

LEMMA ProcessSound ==
  ASSUME Sound, ReadMainPid \/ ReadCgroup \/ NextPid \/ ReadFds \/ ReadUid
  PROVE  Sound'
<1>1. Quiet /\ UNCHANGED hint
  BY DEF ReadMainPid, ReadCgroup, NextPid, ReadFds, ReadUid, Then
<1>2. UNCHANGED <<alive, held, main, ever>>
  BY <1>1 DEF Quiet, host
<1>3. CASE ReadMainPid
  <2>1. PICK pid \in {main, Nil} :
          look' = IF pid = Nil THEN [pc |-> "cgroup"] ELSE [pc |-> "fds", pid |-> pid, todo |-> Nil]
    BY <1>3 DEF ReadMainPid, Then, Scan
  <2>2. pid # Nil => OfUnit(pid)
    BY <2>1 DEF Sound, HostSound, OfUnit
  <2>3. Knows'
    BY <1>2, <2>1, <2>2 DEF Knows, Looking, OfUnit
  <2>4. QED
    BY <1>1, <2>3, SearchSound
<1>4. CASE ReadCgroup
  <2>1. \/ look' = [pc |-> "next", todo |-> {p \in alive : Proc[p].unit}]
        \/ look' = [pc |-> "done"]
    BY <1>4 DEF ReadCgroup, Then
  <2>2. \A p \in {p \in alive : Proc[p].unit} : OfUnit(p)
    BY DEF Sound, HostSound, OfUnit
  <2>3. Knows'
    BY <1>2, <2>1, <2>2 DEF Knows, Looking, OfUnit
  <2>4. QED
    BY <1>1, <2>3, SearchSound
<1>5. CASE NextPid
  <2>1. look.pc = "next"
    BY <1>5 DEF NextPid
  <2>2. \/ look'.pc \in {"cgroup", "done"}
        \/ /\ look.todo # Nil
           /\ \E pid \in look.todo : look' = [pc |-> "fds", pid |-> pid, todo |-> look.todo \ {pid}]
    BY <1>5 DEF NextPid, Then, Scan
  <2>3. Knows'
    BY <1>2, <2>1, <2>2 DEF Sound, Knows, Looking, OfUnit
  <2>4. QED
    BY <1>1, <2>3, SearchSound
<1>6. CASE ReadFds
  <2>1. look.pc = "fds" /\ OfUnit(look.pid) /\ (look.todo = Nil \/ \A p \in look.todo : OfUnit(p))
    BY <1>6 DEF ReadFds, Sound, Knows, Looking
  <2>2. CASE look.pid \in alive /\ Proc[look.pid].readable
    <3>1. look' = [pc |-> "tcp", pid |-> look.pid, todo |-> look.todo,
                   inodes |-> held[look.pid], uid |-> Nil]
      BY <1>6, <2>2 DEF ReadFds, Then
    <3>2. held[look.pid] \subseteq ever[look.pid]
      BY <2>2 DEF Sound, HostSound
    <3>3. Knows'
      BY <1>2, <2>1, <3>1, <3>2 DEF Knows, Looking, OfUnit
    <3>4. QED
      BY <1>1, <3>3, SearchSound
  <2>3. CASE ~(look.pid \in alive /\ Proc[look.pid].readable)
    <3>1. look' = [pc |-> "uid", pid |-> look.pid, todo |-> look.todo]
      BY <1>6, <2>3 DEF ReadFds, Then
    <3>2. Knows'
      BY <1>2, <2>1, <2>3, <3>1 DEF Knows, Looking, OfUnit
    <3>3. QED
      BY <1>1, <3>2, SearchSound
  <2>4. QED
    BY <2>2, <2>3
<1>7. CASE ReadUid
  <2>1. /\ OfUnit(look.pid) /\ (look.todo = Nil \/ \A p \in look.todo : OfUnit(p))
        /\ look.pid \notin alive \/ ~Proc[look.pid].readable
    BY <1>7 DEF ReadUid, Sound, Knows, Looking
  <2>2. look' = [pc |-> "tcp", pid |-> look.pid, todo |-> look.todo, inodes |-> Nil,
              uid |-> IF look.pid \in alive THEN Proc[look.pid].uid ELSE Nil]
    BY <1>7 DEF ReadUid, Then
  <2>3. Knows'
    BY <1>2, <2>1, <2>2 DEF Knows, Looking, OfUnit
  <2>4. QED
    BY <1>1, <2>3, SearchSound
<1>8. QED
  BY <1>3, <1>4, <1>5, <1>6, <1>7

LEMMA TableSound ==
  ASSUME Sound, ReadTable
  PROVE  Sound'
<1>1. /\ Quiet /\ look.pc \in {"tcp", "tcp6"} /\ OfUnit(look.pid)
      /\ look.todo = Nil \/ \A p \in look.todo : OfUnit(p)
  BY DEF ReadTable, Sound, Knows, Looking
<1>2. CASE \E s \in Open : OwnedByPid(s) /\ Found("process", Socket[s].port, "localhost")
  <2>1. PICK s \in Open : OwnedByPid(s) /\ Found("process", Socket[s].port, "localhost")
    BY <1>2
  <2>2. PICK q \in alive : s \in held[q]
    BY DEF Open
  <2>3. q \in Pids /\ ever[q] # Nil /\ s \in ever[q] /\ s \in Inodes
    BY <2>2 DEF Sound, HostSound
  <2>4. CASE look.inodes = Nil
    <3>1. Socket[s].uid = Proc[look.pid].uid /\ ~Proc[look.pid].readable
      BY <1>1, <2>1, <2>4 DEF Sound, Knows, OwnedByPid
    <3>2. Had(look.pid, Socket[s].port)
      BY <2>3, <3>1 DEF Had
    <3>3. QED
      BY <1>1, <2>1, <2>3, <3>2, FoundSound, UrlHintAssumption DEF OfUnit
  <2>5. CASE look.inodes # Nil
    <3>1. s \in ever[look.pid]
      BY <1>1, <2>1, <2>5 DEF Sound, Knows, OwnedByPid
    <3>2. Had(look.pid, Socket[s].port)
      BY <1>1, <3>1 DEF Had, OfUnit
    <3>3. QED
      BY <1>1, <2>1, <2>3, <3>2, FoundSound, UrlHintAssumption DEF OfUnit
  <2>6. QED
    BY <2>4, <2>5
<1>3. CASE Then([look EXCEPT !.pc = "tcp6"]) /\ look.pc = "tcp"
  <2>1. /\ look'.pid = look.pid /\ look'.todo = look.todo /\ look'.inodes = look.inodes /\ look'.uid = look.uid
        /\ look'.pc \in {"tcp", "tcp6"} /\ hint' = hint
    BY <1>3 DEF Then
  <2>2. UNCHANGED <<alive, ever>>
    BY <1>1 DEF Quiet, host
  <2>3. Knows'
    BY <1>1, <2>1, <2>2 DEF Sound, Knows, Looking, OfUnit
  <2>4. QED
    BY <1>1, <2>1, <2>3, SearchSound
<1>4. CASE Then([pc |-> "next", todo |-> look.todo])
  <2>1. Knows'
    BY <1>1, <1>4 DEF Then, Knows, Looking, OfUnit, Quiet
  <2>2. QED
    BY <1>1, <1>4, <2>1, SearchSound DEF Then
<1>5. QED
  BY <1>2, <1>3, <1>4 DEF ReadTable

(* The host only ever adds to what a process has had.                      *)
LEMMA HostStepSound ==
  ASSUME Sound, Host
  PROVE  Sound'
<1>1. PICK p \in Pids : Starts(p) \/ Exits(p) \/ \E s \in Inodes : Opens(p, s) \/ Closes(p, s)
  BY DEF Host
<1>2. UNCHANGED <<look, hint, listens, containers>>
  BY <1>1 DEF Starts, Exits, Opens, Closes, Event
<1>3. HostSound'
  <2>1. CASE Starts(p)
    <3>1. /\ alive' = alive \cup {p} /\ held' = held /\ ever' = [ever EXCEPT ![p] = {}]
          /\ main' = main \/ (main' = p /\ Proc[p].unit)
          /\ ever[p] = Nil /\ p \notin alive
      BY <2>1 DEF Starts
    <3>2. ever'[p] = {} /\ {} # Nil /\ \A q \in Pids : q # p => ever'[q] = ever[q]
      BY <3>1, UrlHintAssumption DEF Sound, HostSound
    <3>3. ever' \in [Pids -> (SUBSET Inodes) \cup {Nil}]
      BY <3>1 DEF Sound, HostSound
    <3>4. main' \in Pids \cup {Nil} /\ (main' # Nil => Proc[main'].unit /\ ever'[main'] # Nil)
      BY <3>1, <3>2 DEF Sound, HostSound
    <3>5. ASSUME NEW q \in alive' PROVE q \in Pids /\ ever'[q] # Nil /\ held'[q] \subseteq ever'[q]
      <4>1. CASE q = p
        <5>1. held[p] = {}
          BY <3>1 DEF Sound, HostSound
        <5>2. QED
          BY <3>1, <3>2, <4>1, <5>1
      <4>2. CASE q # p
        BY <3>1, <3>2, <4>2 DEF Sound, HostSound
      <4>3. QED
        BY <4>1, <4>2
    <3>6. QED
      BY <1>2, <3>1, <3>2, <3>3, <3>4, <3>5 DEF Sound, HostSound
  <2>2. CASE Exits(p)
    BY <1>2, <2>2 DEF Exits, Sound, HostSound
  <2>3. CASE \E s \in Inodes : Opens(p, s)
    <3>1. PICK s \in Inodes : Opens(p, s)
      BY <2>3
    <3>2. /\ held' = [held EXCEPT ![p] = held[p] \cup {s}]
          /\ ever' = [ever EXCEPT ![p] = ever[p] \cup {s}]
          /\ UNCHANGED <<alive, main>> /\ p \in alive
      BY <3>1 DEF Opens
    <3>3. ever[p] \in SUBSET Inodes /\ ever[p] \cup {s} # Nil
      BY <3>2, UrlHintAssumption DEF Sound, HostSound
    <3>4. held' \in [Pids -> SUBSET Inodes] /\ ever' \in [Pids -> (SUBSET Inodes) \cup {Nil}]
      BY <3>2, <3>3 DEF Sound, HostSound
    <3>5. \A q \in alive : ever'[q] # Nil /\ held'[q] \subseteq ever'[q]
      BY <3>2, <3>3 DEF Sound, HostSound
    <3>6. main # Nil => ever'[main] # Nil
      BY <3>2, <3>3 DEF Sound, HostSound
    <3>7. QED
      BY <1>2, <3>2, <3>4, <3>5, <3>6 DEF Sound, HostSound
  <2>4. CASE \E s \in Inodes : Closes(p, s)
    BY <1>2, <2>4 DEF Closes, Sound, HostSound
  <2>5. QED
    BY <1>1, <2>1, <2>2, <2>3, <2>4
<1>4. /\ \A q \in Pids : ever[q] # Nil => ever'[q] # Nil /\ ever[q] \subseteq ever'[q]
      /\ \A q \in Pids : ever[q] # Nil /\ q \notin alive => q \notin alive'
  <2>1. \A q \in Pids : ever[q] # Nil =>
          (ever'[q] = ever[q] \/ (q \in alive /\ \E s : ever'[q] = ever[q] \cup {s}))
    <3>1. CASE Starts(p)
      BY <3>1 DEF Starts, Sound, HostSound
    <3>2. CASE Exits(p)
      BY <3>2 DEF Exits
    <3>3. CASE \E s \in Inodes : Opens(p, s)
      <4>1. PICK s \in Inodes : Opens(p, s)
        BY <3>3
      <4>2. p \in alive /\ ever' = [ever EXCEPT ![p] = ever[p] \cup {s}]
        BY <4>1 DEF Opens
      <4>3. QED
        BY <4>2 DEF Sound, HostSound
    <3>4. CASE \E s \in Inodes : Closes(p, s)
      BY <3>4 DEF Closes
    <3>5. QED
      BY <1>1, <3>1, <3>2, <3>3, <3>4
  <2>2. \A q \in Pids : ever[q] # Nil /\ q \notin alive => q \notin alive'
    BY <1>1 DEF Starts, Exits, Opens, Closes
  <2>3. \A q \in alive' : ever'[q] # Nil
    BY <1>3 DEF HostSound
  <2>4. \A q \in Pids : ever[q] # Nil => ever'[q] # Nil
    BY <1>1, <2>1, <2>3 DEF Starts, Exits, Opens, Closes
  <2>5. QED
    BY <2>1, <2>2, <2>4
<1>5. \A q : OfUnit(q) => OfUnit(q)'
  BY <1>4 DEF OfUnit
<1>6. Knows'
  BY <1>2, <1>4, <1>5 DEF Sound, Knows, Looking, OfUnit
<1>7. HintOwned'
  <2>1. \A q, port : Had(q, port) => Had(q, port)'
    <3>1. SUFFICES ASSUME NEW q, NEW port, Had(q, port)
                   PROVE  Had(q, port)'
      OBVIOUS
    <3>2. PICK o \in Pids : ever[o] # Nil /\ \E s \in ever[o] :
            /\ Socket[s].port = port
            /\ o = q \/ (Socket[s].uid = Proc[q].uid /\ ~Proc[q].readable)
      BY <3>1 DEF Had
    <3>3. ever'[o] # Nil /\ ever[o] \subseteq ever'[o]
      BY <1>4, <3>2
    <3>4. QED
      BY <3>2, <3>3 DEF Had
  <2>2. \A name, port : Publishes(name, port) => Publishes(name, port)'
    BY <1>2 DEF Publishes
  <2>3. QED
    BY <1>2, <2>1, <2>2 DEF Sound, HintOwned
<1>8. QED
  BY <1>3, <1>6, <1>7 DEF Sound

LEMMA HintStepSound ==
  ASSUME Sound, [HintNext]_hintVars
  PROVE  Sound'
<1>1. CASE UNCHANGED hintVars
  BY <1>1 DEF hintVars, host, Sound, HostSound, Knows, Looking, OfUnit, HintOwned, Publishes, Had
<1>2. QED
  BY <1>1, SocketsSound, ContainerSound, OciSound, ProcessSound, TableSound, HostStepSound
     DEF HintNext, DetectUrlHint

(* The suggested port is one the unit's socket units listen on, one its    *)
(* container publishes, of HTTPS only if there is no other, or one that a  *)
(* process of the unit had while it was looked for; of a process whose     *)
(* files nobody may read, perhaps one of its user's (systemd.rs:537).      *)
THEOREM HintsOwned == HintSpec => []HintOwned
<1>1. Sound => HintOwned
  BY DEF Sound
<1>2. QED
  BY <1>1, HintInitSound, HintStepSound, PTL DEF HintSpec
=============================================================================
