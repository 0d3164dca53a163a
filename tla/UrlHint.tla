------------------------------ MODULE UrlHint ------------------------------
(***************************************************************************)
(* The address that discovery suggests for a unit: detect_url_hint of      *)
(* discovery/systemd.rs and the choice among a container's ports.          *)
(*                                                                         *)
(* A detection is a row of reads, of D-Bus, of a container runtime and of  *)
(* /proc, each of the host as it is by then: processes come and go between *)
(* them.  Neither a pid nor an inode is used twice.                        *)
(***************************************************************************)
EXTENDS Naturals, Sequences

CONSTANTS
  Nil,
  Pids,       \* processes that may run
  Proc,       \* Proc[p]: of the unit?, its user, are its files readable?, its program
  Inodes,     \* sockets that may listen
  Socket,     \* Socket[s]: its port, its user, the table that lists it
  Listens,    \* what the unit's socket units may listen on: ports, and Nil for paths
  Published,  \* what a container may publish: private port, public port, bound address
  Here,       \* the address of the host the containers run on
  Wildcards,  \* addresses that are every address
  MaxEvents,  \* bound: what the host does meanwhile
  MaxFailed   \* bound: reads that fail though they need not

ASSUME UrlHintAssumption ==
  /\ Nil \notin Pids /\ \A sockets \in SUBSET Inodes : sockets # Nil
  /\ \A ports \in Published : DOMAIN ports \subseteq Nat
  /\ \A s \in Inodes : Socket[s].table \in {"tcp", "tcp6"} /\ Socket[s].port # Nil

VARIABLES
  alive,       \* processes that run
  held,        \* held[p]: the listening sockets p has open
  main,        \* MainPID of the unit
  listens,     \* a sequence of Listens
  containers,  \* what the containers publish that may be the unit's, by name
  look,        \* the local variables of the detection
  hint,        \* what it found
  ever,        \* history: ever[p], the sockets p had since the detection began
  events, failed

host == <<alive, held, main, listens, containers>>
hintVars == <<host, look, hint, ever, events, failed>>

Failing == failed < MaxFailed /\ failed' = failed + 1

Open == UNION {held[p] : p \in alive}

Then(y)      == look' = y /\ UNCHANGED hint
Found(via, port, at) == look' = [pc |-> "done"] /\ hint' = [via |-> via, port |-> port, at |-> at]

Quiet == UNCHANGED <<host, ever, events>>

-----------------------------------------------------------------------------
(* A container's ports                                                     *)

Https == {443, 8443, 4443, 8444}

(* What is not HTTPS comes before 80, and that before HTTPS.               *)
Tier(private) == IF private \in Https THEN 3 ELSE IF private = 80 THEN 2 ELSE 1

(* The first of the best tier: a place in what is published, or 0.         *)
Best(ports) ==
  LET ok == {n \in DOMAIN ports : ports[n].public # Nil}
      Before(n, m) == \/ Tier(ports[n].private) < Tier(ports[m].private)
                      \/ Tier(ports[n].private) = Tier(ports[m].private) /\ n <= m
  IN  IF ok = {} THEN 0 ELSE CHOOSE n \in ok : \A m \in ok : Before(n, m)

(* Where a port is reached: at the address it is bound to.                 *)
At(port) == IF port.bound \in Wildcards THEN Here ELSE port.bound

(* A container's hint, of the list its socket answers.                     *)
HintContainer ==
  /\ look.pc = "container"
  /\ LET ports == containers["base"]
         n     == Best(ports)
     IN  IF n = 0 THEN Then([pc |-> "done"]) ELSE Found("container", ports[n].public, At(ports[n]))
  /\ Quiet /\ UNCHANGED failed

-----------------------------------------------------------------------------
(* Stage 1: socket activation                                              *)

(* The port of a Listen address; a path has none.                          *)
HasPort(address) == address # Nil

(* The first port of the sockets that could be read.                       *)
ReadSockets ==
  /\ look.pc = "sockets"
  /\ \E unread \in SUBSET DOMAIN listens :
       LET ports == {n \in DOMAIN listens \ unread : HasPort(listens[n])} IN
       /\ \/ unread = {} /\ UNCHANGED failed
          \/ unread # {} /\ Failing
       /\ \/ ports = {} /\ Then([pc |-> "pid"])
          \/ \E n \in ports :
               (\A m \in ports : n <= m) /\ Found("socket", listens[n], "localhost")
  /\ Quiet

-----------------------------------------------------------------------------
(* Stage 2: a container's unit                                             *)

(* read_main_pid: none, when D-Bus fails.                                  *)
MainPid(pid) == \/ pid = main /\ UNCHANGED failed
                \/ pid = Nil /\ Failing

ReadPidForOci ==
  /\ look.pc = "pid"
  /\ \E pid \in {main, Nil} :
       MainPid(pid) /\ Then(IF pid = Nil THEN [pc |-> "main"] ELSE [pc |-> "exe", pid |-> pid])
  /\ Quiet

(* /proc/{pid}/exe: as readable as the files are.                          *)
ReadExe ==
  /\ look.pc = "exe"
  /\ Then([pc |-> IF /\ look.pid \in alive
                     /\ Proc[look.pid].readable /\ Proc[look.pid].exe = "runtime"
                THEN "ports" ELSE "main"])
  /\ Quiet /\ UNCHANGED failed

(* What the runtime says of a name: nothing, when it cannot be run.        *)
Answers(name) == {containers[name]} \cup (IF failed < MaxFailed THEN {<< >>} ELSE {})

(* Both names are tried, "systemd-" before the second; a unit known to be  *)
(* a container's is not looked into any further.                           *)
AskRuntime ==
  /\ look.pc = "ports"
  /\ \E first \in Answers("base"), second \in Answers("systemd-base") :
       /\ IF first # containers["base"] \/ second # containers["systemd-base"]
          THEN Failing ELSE UNCHANGED failed
       /\ \/ Best(first) # 0 /\ Found("oci", first[Best(first)].public, "localhost")
          \/ /\ Best(first) = 0 /\ Best(second) # 0
             /\ Found("oci", second[Best(second)].public, "localhost")
          \/ Best(first) = 0 /\ Best(second) = 0 /\ Then([pc |-> "done"])
  /\ Quiet

-----------------------------------------------------------------------------
(* Stages 3 and 4: processes                                               *)

Scan(pid, todo) == [pc |-> "fds", pid |-> pid, todo |-> todo]

(* MainPID is read again; todo is Nil, as the cgroup comes after it.      *)
ReadMainPid ==
  /\ look.pc = "main"
  /\ \E pid \in {main, Nil} :
       MainPid(pid) /\ Then(IF pid = Nil THEN [pc |-> "cgroup"] ELSE Scan(pid, Nil))
  /\ Quiet

(* cgroup.procs: the processes of the unit now.                            *)
ReadCgroup ==
  /\ look.pc = "cgroup"
  /\ \/ Then([pc |-> "next", todo |-> {p \in alive : Proc[p].unit}]) /\ UNCHANGED failed
     \/ Then([pc |-> "done"]) /\ Failing
  /\ Quiet

NextPid ==
  /\ look.pc = "next"
  /\ \/ look.todo = Nil /\ Then([pc |-> "cgroup"])
     \/ look.todo = {} /\ Then([pc |-> "done"])
     \/ look.todo # Nil /\ \E pid \in look.todo : Then(Scan(pid, look.todo \ {pid}))
  /\ Quiet /\ UNCHANGED failed

(* /proc/{pid}/fd: the sockets it has open, or Nil when it is not         *)
(* readable or the process is gone.                                        *)
ReadFds ==
  /\ look.pc = "fds"
  /\ Then(IF look.pid \in alive /\ Proc[look.pid].readable
        THEN [pc |-> "tcp", pid |-> look.pid, todo |-> look.todo,
              inodes |-> held[look.pid], uid |-> Nil]
        ELSE [pc |-> "uid", pid |-> look.pid, todo |-> look.todo])
  /\ Quiet /\ UNCHANGED failed

(* /proc/{pid}/status is readable for everyone.                            *)
ReadUid ==
  /\ look.pc = "uid"
  /\ Then([pc |-> "tcp", pid |-> look.pid, todo |-> look.todo, inodes |-> Nil,
         uid |-> IF look.pid \in alive THEN Proc[look.pid].uid ELSE Nil])
  /\ Quiet /\ UNCHANGED failed

(* Mutant: without its files, any socket is its own.                       *)
Guessed(s) == look.inodes = Nil \/ s \in look.inodes

(* Is the socket of this row the process's, as far as is known?            *)
OwnedByPid(s) ==
  IF look.inodes = Nil THEN look.uid # Nil /\ Socket[s].uid = look.uid ELSE s \in look.inodes

(* /proc/{pid}/net/tcp, then tcp6: the first row that listens and is the   *)
(* process's.                                                              *)
ReadTable ==
  /\ look.pc \in {"tcp", "tcp6"}
  /\ LET rows == IF look.pid \in alive THEN {s \in Open : Socket[s].table = look.pc} ELSE {}
         mine == {s \in rows : OwnedByPid(s)}
     IN  \/ \E s \in mine : Found("process", Socket[s].port, "localhost")
         \/ mine = {} /\ look.pc = "tcp" /\ Then([look EXCEPT !.pc = "tcp6"])
         \/ mine = {} /\ look.pc = "tcp6" /\ Then([pc |-> "next", todo |-> look.todo])
  /\ Quiet /\ UNCHANGED failed

-----------------------------------------------------------------------------
(* The host                                                                *)

Event ==
  /\ events < MaxEvents /\ events' = events + 1
  /\ UNCHANGED <<look, hint, failed, listens, containers>>

(* A process of the unit may become its main one.                          *)
Starts(p) ==
  /\ Event
  /\ p \notin alive /\ ever[p] = Nil
  /\ alive' = alive \cup {p}
  /\ ever' = [ever EXCEPT ![p] = {}]
  /\ main' \in {main} \cup (IF Proc[p].unit THEN {p} ELSE {})
  /\ UNCHANGED held

Exits(p) ==
  /\ Event
  /\ p \in alive
  /\ alive' = alive \ {p}
  /\ held' = [held EXCEPT ![p] = {}]
  /\ main' = IF main = p THEN Nil ELSE main
  /\ UNCHANGED ever

Opens(p, s) ==
  /\ Event
  /\ p \in alive /\ Socket[s].uid = Proc[p].uid
  /\ \A q \in Pids : ever[q] # Nil => s \notin ever[q]
  /\ held' = [held EXCEPT ![p] = @ \cup {s}]
  /\ ever' = [ever EXCEPT ![p] = @ \cup {s}]
  /\ UNCHANGED <<alive, main>>

Closes(p, s) ==
  /\ Event
  /\ s \in held[p]
  /\ held' = [held EXCEPT ![p] = @ \ {s}]
  /\ UNCHANGED <<alive, main, ever>>

Host == \E p \in Pids : Starts(p) \/ Exits(p) \/ \E s \in Inodes : Opens(p, s) \/ Closes(p, s)

-----------------------------------------------------------------------------
(* Before, each process that runs may have one socket of its own.          *)
HintInit ==
  /\ alive \in SUBSET Pids
  /\ held \in [Pids -> {{}} \cup {{s} : s \in Inodes}]
  /\ \A p \in Pids : \A s \in held[p] : p \in alive /\ Socket[s].uid = Proc[p].uid
  /\ \A p, q \in alive : p # q => held[p] \cap held[q] = {}
  /\ ever = [p \in Pids |-> IF p \in alive THEN held[p] ELSE Nil]
  /\ main \in {Nil} \cup {p \in alive : Proc[p].unit}
  /\ listens \in Listens
  /\ containers \in [{"base", "systemd-base"} -> Published]
  /\ look \in [pc : {"sockets", "container"}]
  /\ hint = Nil
  /\ events = 0 /\ failed = 0

DetectUrlHint ==
  \/ ReadSockets
  \/ ReadPidForOci \/ ReadExe \/ AskRuntime
  \/ ReadMainPid \/ ReadCgroup \/ NextPid
  \/ ReadFds \/ ReadUid \/ ReadTable

HintNext == HintContainer \/ DetectUrlHint \/ Host

HintSpec == HintInit /\ [][HintNext]_hintVars

-----------------------------------------------------------------------------
(* Properties                                                              *)

(* Is port one that a container named so publishes, the best of it?        *)
Publishes(name, port) ==
  LET ports == containers[name] IN
  \E n \in DOMAIN ports :
    /\ ports[n].public = port
    /\ ports[n].private \in Https =>
         \A m \in DOMAIN ports : ports[m].public = Nil \/ ports[m].private \in Https

(* Did p have a socket of this port, or, if nobody may see what it has,    *)
(* did another process of its user?                                        *)
Had(p, port) ==
  \E q \in Pids : ever[q] # Nil /\ \E s \in ever[q] :
    /\ Socket[s].port = port
    /\ q = p \/ (Socket[s].uid = Proc[p].uid /\ ~Proc[p].readable)

(* What is suggested for a unit is a port that its socket units listen on, *)
(* that its container publishes, of HTTPS only if there is no other, or    *)
(* that one of its processes had while it was looked for, whatever starts, *)
(* ends or takes a port meanwhile.  Only of a process whose files are not  *)
(* readable is it perhaps the port of another process of the same user     *)
(* (systemd.rs:534: "Avoids false positives from other services").         *)
HintOwned ==
  hint # Nil =>
    /\ hint.port # Nil
    /\ \/ hint.via = "socket" /\ \E n \in DOMAIN listens : listens[n] = hint.port
       \/ hint.via = "oci" /\ \E name \in DOMAIN containers : Publishes(name, hint.port)
       \/ hint.via = "container" /\ Publishes("base", hint.port)
       \/ hint.via = "process" /\ \E p \in Pids : Proc[p].unit /\ Had(p, hint.port)
=============================================================================
