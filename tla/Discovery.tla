----------------------------- MODULE Discovery -----------------------------
(***************************************************************************)
(* The list of discovered units: discovery/mod.rs, systemd.rs, docker.rs,  *)
(* and create_service and delete_service of api/services.rs, by which a    *)
(* unit is claimed and released.                                           *)
(*                                                                         *)
(* Two loops, and the passes that requests start beside them, each read    *)
(* what was dismissed and what is claimed, ask the host, and only then     *)
(* overwrite their part of one shared list: the answer a pass writes is as *)
(* old as the pass.  What the host answers is a free choice; the filters   *)
(* that depend on nothing else (patterns, labels, states) are part of it.  *)
(***************************************************************************)
EXTENDS Naturals

CONSTANTS
  SystemdUnits,  \* names of .service units
  Containers,    \* entries: a container of a docker or of a podman socket
  UnitNamed,     \* UnitNamed[c]: the unit "<name of c>.service", or None
  Title,         \* Title[e]: the display name the panel suggests
  None,
  Bodies,        \* what clients post to create a service
  Ids,           \* bound: services at a time
  Refreshers,    \* bound: refreshes at a time
  Reqs,          \* bound: requests at a time
  MaxFaults      \* bound: reads that fail

Entry(source, unit) == [source |-> source, unit |-> unit]
Entries == {Entry("systemd", u) : u \in SystemdUnits} \cup Containers

ASSUME DiscoveryAssumption ==
  /\ \A c \in Containers :
       c.source \in {"docker", "podman"} /\ c = Entry(c.source, c.unit)
  /\ \A e \in Entries : None \notin {e.source, e.unit}
  /\ UnitNamed \in [Containers -> SystemdUnits \cup {None}]
  /\ "loop" \notin Refreshers
  /\ None \notin Bodies
  /\ \A b \in Bodies : None \notin {b.source, b.unit} => Entry(b.source, b.unit) \in Entries
  /\ MaxFaults \in Nat

VARIABLES
  list,       \* the shared list
  passes,     \* the local variables of each pass
  dismissed,  \* the table dismissed_units
  services,   \* the table services
  reqs,       \* the local variables of each request
  faults,
  blind       \* history: entries listed by a pass that could not know the answer

vars == <<list, passes, dismissed, services, reqs, faults, blind>>

-----------------------------------------------------------------------------
(* A pass is one of systemd or of the containers, run by its loop or by a  *)
(* task of a refresh.                                                      *)
Kinds  == {"systemd", "container"}
Passes == [kind : Kinds, by : {"loop"} \cup Refreshers]

Kind(e) == IF e.source = "systemd" THEN "systemd" ELSE "container"
OfKind(k) == {e \in Entries : Kind(e) = k}

Idle  == [pc |-> "idle"]
Ready == [pc |-> "ready"]
Rest(p) == IF p.by = "loop" THEN Ready ELSE Idle

Rows == {services[i] : i \in Ids} \ {None}

Init ==
  /\ list = {} /\ blind = {}
  /\ passes = [p \in Passes |-> Rest(p)]
  /\ dismissed = {}
  /\ services = [i \in Ids |-> None]
  /\ reqs = [r \in Reqs |-> Idle]
  /\ faults = 0

(* A read that fails: .unwrap_or_default(), .unwrap_or(false).             *)
Fault == faults < MaxFaults /\ faults' = faults + 1

(* Whether a pass takes e for claimed.  A container is by its name, in     *)
(* either column; a unit by the column systemd_unit, whatever the source.  *)
Claimed(e) ==
  \E s \in Rows : s.unit = e.unit \/ (Kind(e) = "container" /\ s.name = e.unit)

(* The user answered e: dismissed it, or claimed it as the unit it is.     *)
Answered(e) ==
  e \in dismissed \/ \E s \in Rows : s.source = e.source /\ s.unit = e.unit

-----------------------------------------------------------------------------
(* Passes                                                                  *)

Locals(todo, kept, late) == [pc |-> "check", todo |-> todo, kept |-> kept, late |-> late]

Go(p, locals) == passes' = [passes EXCEPT ![p] = locals]

(* trigger_refresh spawns both passes.                                     *)
Refresh(f) ==
  /\ \A p \in Passes : p.by = f => passes[p] = Idle
  /\ passes' = [p \in Passes |-> IF p.by = f THEN Ready ELSE passes[p]]
  /\ UNCHANGED <<list, dismissed, services, reqs, faults, blind>>

(* A container pass first notes the units in the list.                     *)
Begin(p) ==
  /\ p.kind = "container" /\ passes[p] = Ready
  /\ Go(p, [pc |-> "read", units |-> {e.unit : e \in list \cap OfKind("systemd")}])
  /\ UNCHANGED <<list, dismissed, services, reqs, faults, blind>>

(* D-Bus does not answer, and a systemd pass ends before it has read a     *)
(* table.                                                                  *)
Fail(p) ==
  /\ p.kind = "systemd" /\ passes[p] = Ready
  /\ Go(p, Rest(p))
  /\ UNCHANGED <<list, dismissed, services, reqs, faults, blind>>

(* Mutant: a container is listed beside its unit.                          *)
NeverSuppressed(c, units) == FALSE

(* A container represented by a unit in the list is passed over.           *)
Suppressed(c, units) == UnitNamed[c] \in units

(* The units a pass may come to consider: what the host answers a systemd  *)
(* pass before it reads a table, a container pass after.                   *)
Candidates(p) ==
  IF p.kind = "systemd" THEN OfKind("systemd")
  ELSE {c \in Containers : ~Suppressed(c, passes[p].units)}

(* Mutant: what was dismissed is not left out.                             *)
AllOf(found) == found

NotDismissed(found) == found \ dismissed

(* The table dismissed_units is read; todo are the units left to consider. *)
ReadDismissed(p) ==
  /\ passes[p].pc = (IF p.kind = "systemd" THEN "ready" ELSE "read")
  /\ \E found \in SUBSET Candidates(p) :
       \/ Go(p, Locals(NotDismissed(found), {}, {})) /\ UNCHANGED faults
       \/ Go(p, Locals(found, {}, found \cap dismissed)) /\ Fault
  /\ UNCHANGED <<list, dismissed, services, reqs, blind>>

(* Is e claimed?  A query for each; what follows it (the url hint) takes   *)
(* its time.                                                               *)
Check(p) ==
  /\ passes[p].pc = "check"
  /\ \E e \in passes[p].todo :
       LET now  == passes[p]
           left == now.todo \ {e}
           told == {x \in {e} : Answered(x)}
       IN  \/ Claimed(e) /\ Go(p, Locals(left, now.kept, now.late \ {e})) /\ UNCHANGED faults
           \/ ~Claimed(e) /\ Go(p, Locals(left, now.kept \cup {e}, now.late)) /\ UNCHANGED faults
           \/ Claimed(e) /\ Go(p, Locals(left, now.kept \cup {e}, now.late \cup told)) /\ Fault
  /\ UNCHANGED <<list, dismissed, services, reqs, blind>>

(* What the pass leaves in the list: the entries of the other kind.        *)
Others(p) == {e \in list : Kind(e) # p.kind}

(* The pass overwrites its part of the list.                               *)
Write(p) ==
  /\ passes[p].pc = "check" /\ passes[p].todo = {}
  /\ list'  = Others(p) \cup passes[p].kept
  /\ blind' = (blind \ OfKind(p.kind)) \cup passes[p].late
  /\ Go(p, Rest(p))
  /\ UNCHANGED <<dismissed, services, reqs, faults>>

Step(p) == Begin(p) \/ ReadDismissed(p) \/ Check(p) \/ Write(p)

-----------------------------------------------------------------------------
(* Requests                                                                *)

(* History: e was answered when these passes could no longer see it.       *)
Outrun(e, ps) ==
  [p \in Passes |-> IF p \in ps THEN [passes[p] EXCEPT !.late = @ \cup {e}] ELSE passes[p]]

Checking == {p \in Passes : passes[p].pc = "check"}

(* dismiss_unit: INSERT OR IGNORE, then the entry leaves the list.         *)
Dismiss(r, e) ==
  /\ reqs[r] = Idle
  /\ dismissed' = dismissed \cup {e}
  /\ reqs' = [reqs EXCEPT ![r] = [pc |-> "retain", entry |-> e]]
  /\ passes' = Outrun(e, {p \in Checking : e \in passes[p].todo \cup passes[p].kept})
  /\ UNCHANGED <<list, services, faults, blind>>

Undismiss(e) ==
  /\ e \in dismissed
  /\ dismissed' = dismissed \ {e}
  /\ UNCHANGED <<list, passes, services, reqs, faults, blind>>

(* What the panel posts when the user adds e and keeps the title; what     *)
(* another client posts that names the container in systemd_unit.          *)
PanelBody(e) ==
  [unit |-> IF e.source = "systemd" THEN e.unit ELSE None,
   source |-> e.source, name |-> Title[e], adds |-> e]
ClientBody(e) == [PanelBody(e) EXCEPT !.unit = e.unit]

UnitTaken(unit) == unit # None /\ \E s \in Rows : s.unit = unit

(* create_service: is the unit claimed already?                            *)
CreateCheck(r, body) ==
  /\ reqs[r] = Idle
  /\ \/ ~UnitTaken(body.unit) /\ UNCHANGED faults
     \/ UnitTaken(body.unit) /\ Fault
  /\ reqs' = [reqs EXCEPT ![r] = [pc |-> "insert", body |-> body]]
  /\ UNCHANGED <<list, passes, dismissed, services, blind>>

(* create_service: the INSERT, under the unique index on systemd_unit.  An *)
(* entry that was claimed with source and unit leaves the list.            *)
CreateInsert(r) ==
  /\ reqs[r].pc = "insert"
  /\ LET body == reqs[r].body
         e    == Entry(body.source, body.unit)
     IN  \/ /\ UnitTaken(body.unit)
            /\ reqs' = [reqs EXCEPT ![r] = Idle]
            /\ UNCHANGED <<services, passes>>
         \/ /\ ~UnitTaken(body.unit)
            /\ \E i \in Ids : services[i] = None /\ services' = [services EXCEPT ![i] = body]
            /\ IF None \in {body.source, body.unit}
               THEN reqs' = [reqs EXCEPT ![r] = Idle] /\ UNCHANGED passes
               ELSE /\ reqs' = [reqs EXCEPT ![r] = [pc |-> "retain", entry |-> e]]
                    /\ passes' = Outrun(e, {p \in Checking : e \in passes[p].kept})
  /\ UNCHANGED <<list, dismissed, faults, blind>>

(* Both handlers: discoveries.retain.                                      *)
Retain(r) ==
  /\ reqs[r].pc = "retain"
  /\ list'  = list \ {reqs[r].entry}
  /\ blind' = blind \ {reqs[r].entry}
  /\ reqs' = [reqs EXCEPT ![r] = Idle]
  /\ UNCHANGED <<passes, dismissed, services, faults>>

(* The client goes away, or the statement fails: the handler stops where   *)
(* it is.                                                                  *)
Abandon(r) ==
  /\ reqs[r] # Idle
  /\ reqs' = [reqs EXCEPT ![r] = Idle]
  /\ blind' = IF reqs[r].pc = "retain" THEN blind \cup (list \cap {reqs[r].entry}) ELSE blind
  /\ UNCHANGED <<list, passes, dismissed, services, faults>>

DeleteService(i) ==
  /\ services[i] # None
  /\ services' = [services EXCEPT ![i] = None]
  /\ UNCHANGED <<list, passes, dismissed, reqs, faults, blind>>

(* The list and every pass are lost, the tables are not.                   *)
Restart ==
  /\ list' = {} /\ blind' = {}
  /\ passes' = [p \in Passes |-> Rest(p)]
  /\ reqs' = [r \in Reqs |-> Idle]
  /\ UNCHANGED <<dismissed, services, faults>>

Next ==
  \/ \E f \in Refreshers : Refresh(f)
  \/ \E p \in Passes : Step(p) \/ Fail(p)
  \/ \E r \in Reqs :
       \/ \E e \in Entries : Dismiss(r, e)
       \/ \E body \in Bodies : CreateCheck(r, body)
       \/ CreateInsert(r) \/ Retain(r) \/ Abandon(r)
  \/ \E e \in Entries : Undismiss(e)
  \/ \E i \in Ids : DeleteService(i)
  \/ Restart

Spec == Init /\ [][Next]_vars

(* Every pass that is begun ends, and the loops begin again: they are      *)
(* tasks of their own, a sleep lasts its time, and D-Bus answers sometime. *)
FairSpec == Spec /\ \A p \in Passes : WF_vars(Step(p))

-----------------------------------------------------------------------------
(* Properties                                                              *)

PassLocals ==
  {Idle, Ready} \cup [pc : {"read"}, units : SUBSET SystemdUnits]
    \cup [pc : {"check"}, todo : SUBSET Entries, kept : SUBSET Entries, late : SUBSET Entries]

(* Types; a history of what is not listed would be about nothing.          *)
TypeOK ==
  /\ list \subseteq Entries
  /\ blind \subseteq list
  /\ passes \in [Passes -> PassLocals]
  /\ \A p \in Passes : passes[p].pc = "check" =>
       passes[p].todo \cup passes[p].kept \cup passes[p].late \subseteq OfKind(p.kind)
  /\ dismissed \subseteq Entries
  /\ services \in [Ids -> Bodies \cup {None}]
  /\ reqs \in [Reqs -> {Idle} \cup [pc : {"insert"}, body : Bodies]
                               \cup [pc : {"retain"}, entry : Entries]]
  /\ faults \in 0 .. MaxFaults

(* A unit that the user dismissed, or claimed as what it is, is offered    *)
(* only while that request is still at work, or by a pass that read the    *)
(* tables before the answer was in them or could not read them, or because *)
(* the request stopped half way.                                           *)
AnswersHold ==
  \A e \in list : Answered(e) =>
    e \in blind \/ \E r \in Reqs : reqs[r] = [pc |-> "retain", entry |-> e]

(* An answer that stands is followed in the end: however stale the passes  *)
(* that were under way, the unit leaves the list and does not come back.   *)
AnswersSettle ==
  \A e \in Entries :
    /\ <>[](e \in dismissed) => <>[](e \notin list)
    /\ <>[]Claimed(e) => <>[](e \notin list)

(* "suppressed so they don't appear twice in the panel": a container and   *)
(* its unit are never listed side by side for good.                        *)
DuplicatesClear ==
  \A c \in Containers :
    []<>~(c \in list /\ Entry("systemd", UnitNamed[c]) \in list)
=============================================================================
