------------------------------ MODULE Startup ------------------------------
(***************************************************************************)
(* From a stopped server to a serving one: AppConfig::load (config.rs),    *)
(* init_pool and run_migrations (db/mod.rs) over a database that any       *)
(* release may have left, the stored auth mode that overrides the          *)
(* configuration (main.rs), and the setting of that mode (settings.rs).    *)
(*                                                                         *)
(* A migration is a query that says whether it is due, and then its        *)
(* statements, each committed by itself; only unify_quick_link_groups is   *)
(* one transaction.  The process may stop between any two statements.      *)
(***************************************************************************)
EXTENDS Naturals, SequencesExt

CONSTANTS
  None,
  Old,         \* databases as older releases left them
  MaxCrashes,  \* bound: stops of the process
  MaxFaults    \* bound: queries that fail and are passed over

(* A sequence of whatever.                                                 *)
IsSequence(s) == Len(s) \in Nat /\ s = [n \in 1..Len(s) |-> s[n]]

(* The names of groups, without duplicates (UNIQUE): each is a sequence,   *)
(* of the text and the numbers appended to it.                             *)
Named(groups) ==
  /\ IsSequence(groups) /\ IsInjective(groups)
  /\ \A name \in Range(groups) : IsSequence(name)

(* A database is whole: a link is in a group of the table it refers to,    *)
(* which is the one of its own as long as there is one, or in none.        *)
ASSUME StartupAssumption ==
  /\ MaxCrashes \in Nat /\ MaxFaults \in Nat
  /\ None \notin Nat
  /\ \A old \in Old :
       /\ "spare" \notin old.has
       /\ DOMAIN old.data = {"units", "groups", "oldGroups", "links", "channels", "spare"}
       /\ DOMAIN old.data.units \subseteq Nat \ {0}
       /\ Named(old.data.groups) /\ Named(old.data.oldGroups)
       /\ "link_groups" \notin old.has => old.data.oldGroups = << >>
       /\ \A l \in DOMAIN old.data.links : old.data.links[l] # None =>
            /\ "link_group_id" \in old.has
            /\ old.data.links[l] \in DOMAIN (IF "link_groups" \in old.has THEN old.data.oldGroups
                                                                          ELSE old.data.groups)

VARIABLES
  pc,        \* the next statement; "down" or "serving"
  has,       \* tables, columns and indexes that exist
  data,      \* the rows
  origin,    \* history: the rows before the first start
  torn,      \* history: it was stopped between the statements of 011
  failed,    \* history: the statement that ended the last start, if one did
  config,    \* the configuration files and environment
  loaded,    \* what this process read of them
  stored,    \* the row auth_mode of settings
  active,    \* the mode this process serves in
  told,      \* history: the mode the next start was said to have
  crashes, faults

schemaVars == <<has, data, origin>>
modeVars   == <<config, loaded, stored, active, told>>
vars == <<pc, schemaVars, torn, failed, modeVars, crashes, faults>>

Modes   == {"session", "none"}
Configs == [mode : Modes, long : BOOLEAN]

(* auth.secret has 32 bytes, or the mode does not need it.                 *)
Acceptable(mode, c) == mode = "session" => c.long

-----------------------------------------------------------------------------
(* The process                                                             *)

(* A statement that fails ends the process: `?`.                           *)
Die(at) == pc' = "down" /\ failed' = at

Goto(next) == pc' = next /\ UNCHANGED failed

(* AppConfig::load.                                                        *)
Load ==
  /\ pc = "down"
  /\ \/ Acceptable(config.mode, config) /\ pc' = "groups" /\ failed' = None /\ loaded' = config
     \/ ~Acceptable(config.mode, config) /\ Die("config") /\ UNCHANGED loaded
  /\ UNCHANGED <<schemaVars, torn, config, stored, active, told, crashes, faults>>

(* The process is stopped, or a statement fails for want of disk.          *)
Crash ==
  /\ pc # "down" /\ crashes < MaxCrashes
  /\ crashes' = crashes + 1
  /\ torn' = (torn \/ pc \in {"copy", "drop", "rename"})
  /\ pc' = "down"
  /\ UNCHANGED <<schemaVars, failed, modeVars, faults>>

-----------------------------------------------------------------------------
(* The migrations                                                          *)

Migrating == UNCHANGED <<torn, modeVars, crashes, faults>>

(* CREATE TABLE or INDEX IF NOT EXISTS: what is missing is made.  A table  *)
(* services made today has its column discovery_source at once.            *)
CreateMissing(name, next) ==
  /\ pc = name /\ Goto(next)
  /\ has' = has \cup {name}
              \cup (IF name = "services" /\ name \notin has THEN {"source"} ELSE {})
  /\ UNCHANGED <<data, origin>> /\ Migrating

(* 001, six tables, and 002, one with its two indexes.                     *)
InitTables ==
  \/ CreateMissing("groups", "services")
  \/ CreateMissing("services", "probe_results")
  \/ CreateMissing("probe_results", "users")
  \/ CreateMissing("users", "settings")
  \/ CreateMissing("settings", "quick_links")
  \/ CreateMissing("quick_links", "audit_log")
  \/ CreateMissing("audit_log", "audit_log_created_at")
  \/ CreateMissing("audit_log_created_at", "audit_log_actor")
  \/ CreateMissing("audit_log_actor", "source")

(* Mutant: the column is added without a look at the table.                *)
NotThere(column) == TRUE

(* pragma_table_info names no such column.                                 *)
Missing(column) == column \notin has

(* ALTER TABLE ADD COLUMN, when it is due; twice, and it fails.            *)
AddColumn(at, column, next) ==
  /\ pc = at
  /\ \/ ~Missing(column) /\ Goto(next) /\ UNCHANGED has
     \/ Missing(column) /\ column \notin has /\ Goto(next) /\ has' = has \cup {column}
     \/ Missing(column) /\ column \in has /\ Die(at) /\ UNCHANGED has
  /\ UNCHANGED <<data, origin>> /\ Migrating

AddSource == AddColumn("source", "source", "role")
AddRole   == AddColumn("role", "role", "color")
AddColor  == AddColumn("color", "color", "dismissed")

CreateDismissed == CreateMissing("dismissed", "link_groups")

(* 006: two statements, due while quick_links has no group_id.             *)
CreateLinkGroups ==
  /\ pc = "link_groups"
  /\ IF "link_group_id" \in has THEN Goto("clear_units") /\ UNCHANGED has
     ELSE Goto("link_group_id") /\ has' = has \cup {"link_groups"}
  /\ UNCHANGED <<data, origin>> /\ Migrating

AddLinkGroupId == AddColumn("link_group_id", "link_group_id", "clear_units")

(* Mutant: the claims are left as they are.                                *)
AllKept(units) == units

(* The claims of a unit but the earliest are cleared.                      *)
Cleared(units) ==
  [s \in DOMAIN units |->
     IF \E e \in DOMAIN units : e < s /\ units[e] = units[s] THEN None ELSE units[s]]

(* 007: so they are ...                                                    *)
ClearUnits ==
  /\ pc = "clear_units" /\ Goto("unit_index")
  /\ data' = [data EXCEPT !.units = Cleared(@)]
  /\ UNCHANGED <<has, origin>> /\ Migrating

Duplicates == \E s, e \in DOMAIN data.units :
                e < s /\ data.units[e] = data.units[s] /\ data.units[s] # None

(* ... and then none can be made any more.                                 *)
CreateUnitIndex ==
  /\ pc = "unit_index"
  /\ IF Duplicates THEN Die("unit_index") /\ UNCHANGED has
     ELSE Goto("unify") /\ has' = has \cup {"unit_index"}
  /\ UNCHANGED <<data, origin>> /\ Migrating

(* A number is appended to the name, but for the first.                    *)
Suffixed(name, k) == IF k = 1 THEN name ELSE Append(name, k)

(* The first of name, "name (2)", "name (3)", ... that no group has.       *)
FreeName(name, names) ==
  Suffixed(name, CHOOSE k \in 1..(Cardinality(names) + 1) :
    /\ Suffixed(name, k) \notin names
    /\ \A j \in 1..(k - 1) : Suffixed(name, j) \in names)

(* Mutant: a link keeps the number of its group.                           *)
SameNumber(g, n) == g

(* CASE group_id WHEN old THEN new: n groups were there before.            *)
Renumbered(g, n) == IF g = None THEN None ELSE n + g

(* The names of all groups after each of the old ones.                     *)
Joining(groups, old) ==
  LET names[k \in 0..Len(old)] ==
        IF k = 0 THEN groups
        ELSE Append(names[k - 1], FreeName(old[k], Range(names[k - 1])))
  IN  names

Joined(groups, old) == Joining(groups, old)[Len(old)]

(* 008: the old groups are appended to groups one after another, by their  *)
(* ids, and the links follow them.  One transaction.                       *)
Unify ==
  /\ pc = "unify" /\ Goto("tls")
  /\ IF "link_groups" \notin has THEN UNCHANGED <<has, data>>
     ELSE
       /\ has' = has \ {"link_groups"}
       /\ data' = [data EXCEPT
            !.groups = Joined(@, data.oldGroups),
            !.oldGroups = << >>,
            !.links = [l \in DOMAIN @ |-> Renumbered(@[l], Len(data.groups))]]
  /\ UNCHANGED origin /\ Migrating

AddTls == AddColumn("tls", "tls", "channels")

(* 010: with the kinds of that release.                                    *)
CreateChannels == CreateMissing("channels", "widen")

(* 011, four statements: the table is made anew under another name, which  *)
(* must be free, ...                                                       *)
CreateWide ==
  /\ pc = "widen"
  /\ \/ "wide" \in has /\ Goto("mode") /\ UNCHANGED has
     \/ "wide" \notin has /\ "spare" \notin has /\ Goto("copy") /\ has' = has \cup {"spare"}
     \/ "wide" \notin has /\ "spare" \in has /\ Die("widen") /\ UNCHANGED has
  /\ UNCHANGED <<data, origin>> /\ Migrating

CopyChannels ==
  /\ pc = "copy" /\ Goto("drop")
  /\ data' = [data EXCEPT !.spare = data.channels]
  /\ UNCHANGED <<has, origin>> /\ Migrating

DropChannels ==
  /\ pc = "drop" /\ Goto("rename")
  /\ has' = has \ {"channels"}
  /\ data' = [data EXCEPT !.channels = {}]
  /\ UNCHANGED origin /\ Migrating

(* ... and takes the name of the one dropped.                              *)
RenameWide ==
  /\ pc = "rename" /\ Goto("mode")
  /\ has' = (has \ {"spare"}) \cup {"channels", "wide"}
  /\ data' = [data EXCEPT !.channels = data.spare, !.spare = {}]
  /\ UNCHANGED origin /\ Migrating

-----------------------------------------------------------------------------
(* The auth mode                                                           *)

(* Mutant: the mode of the configuration wins where there is one.          *)
Ignored(row, default) == default

(* The row auth_mode, when it holds a mode.                                *)
Override(row, default) == IF row \in Modes THEN row ELSE default

(* A row that cannot be read is passed over with a warning.                *)
ReadMode ==
  /\ pc = "mode"
  /\ \/ active' = Override(stored, loaded.mode) /\ UNCHANGED faults
     \/ faults < MaxFaults /\ faults' = faults + 1 /\ active' = loaded.mode
  /\ \/ Acceptable(active', loaded) /\ Goto("serving")
     \/ ~Acceptable(active', loaded) /\ Die("secret")
  /\ UNCHANGED <<schemaVars, torn, config, loaded, stored, told, crashes>>

(* An answer holds for the configuration this process has read.            *)
Told(mode) == told' = IF config = loaded THEN mode ELSE None

(* set_auth_mode: nothing is asked of the secret.                          *)
SetAuthMode(mode) ==
  /\ pc = "serving"
  /\ stored' = mode /\ Told(mode)
  /\ UNCHANGED <<pc, schemaVars, torn, failed, config, loaded, active, crashes, faults>>

(* get_auth_mode; a query that fails counts as no override.                *)
GetAuthMode ==
  /\ pc = "serving"
  /\ \/ Told(Override(stored, active)) /\ UNCHANGED faults
     \/ faults < MaxFaults /\ faults' = faults + 1 /\ Told(active)
  /\ UNCHANGED <<pc, schemaVars, torn, failed, config, loaded, stored, active, crashes>>

(* The operator writes another configuration; what was told is about the   *)
(* one before.                                                             *)
EditConfig(c) ==
  /\ c # config
  /\ config' = c /\ told' = None
  /\ UNCHANGED <<pc, schemaVars, torn, failed, loaded, stored, active, crashes, faults>>

-----------------------------------------------------------------------------
Init ==
  /\ pc = "down" /\ torn = FALSE /\ failed = None
  /\ \E old \in Old : has = old.has /\ data = old.data
  /\ origin = data
  /\ config \in Configs /\ loaded = None
  /\ stored \in Modes \cup {None} /\ active = None /\ told = None
  /\ crashes = 0 /\ faults = 0

(* A start, as it goes on without the operator.                            *)
Start ==
  \/ Load
  \/ InitTables \/ AddSource \/ AddRole \/ AddColor \/ CreateDismissed
  \/ CreateLinkGroups \/ AddLinkGroupId \/ ClearUnits \/ CreateUnitIndex
  \/ Unify \/ AddTls \/ CreateChannels
  \/ CreateWide \/ CopyChannels \/ DropChannels \/ RenameWide
  \/ ReadMode

Next ==
  \/ Start
  \/ Crash
  \/ \E mode \in Modes : SetAuthMode(mode)
  \/ GetAuthMode
  \/ \E c \in Configs : EditConfig(c)

(* A server that stops is started again (restart: unless-stopped,          *)
(* docker-compose.yml), and what is started goes on.                       *)
Spec == Init /\ [][Next]_vars /\ WF_vars(Start)

-----------------------------------------------------------------------------
(* Properties                                                              *)

(* The name of the group link l is in, wherever its group is kept.         *)
GroupName(d, l) ==
  IF d.links[l] = None THEN None
  ELSE IF d.oldGroups # << >> THEN d.oldGroups[d.links[l]] ELSE d.groups[d.links[l]]

(* Whatever release left the database and wherever a start was stopped, no *)
(* row is lost: a link stays in its group, which may have got a number but *)
(* has not been merged with another, or with a group of services that had  *)
(* its name; a unit is claimed by the service that claimed it first; every *)
(* channel is in one of the two tables, and in the right one once the      *)
(* server serves (db/mod.rs:139, 148; 007, 008, 011).                      *)
LinksKept ==
  \A l \in DOMAIN origin.links :
    /\ (origin.links[l] = None) = (data.links[l] = None)
    /\ origin.links[l] # None =>
         /\ IsPrefix(GroupName(origin, l), GroupName(data, l))
         /\ data.oldGroups # origin.oldGroups => data.links[l] \notin DOMAIN origin.groups
    /\ \A m \in DOMAIN origin.links :
         (origin.links[l] = origin.links[m]) = (data.links[l] = data.links[m])

UnitsKept ==
  \A s \in DOMAIN origin.units :
    \/ data.units[s] = origin.units[s]
    \/ data.units[s] = None /\ \E e \in 1..(s - 1) : data.units[e] = origin.units[s]

ChannelsKept ==
  /\ origin.channels \subseteq data.channels \cup data.spare
  /\ pc = "serving" => data.channels = origin.channels

DataKept ==
  /\ LinksKept /\ UnitsKept /\ ChannelsKept
  /\ IsPrefix(origin.groups, data.groups) /\ IsInjective(data.groups)

(* Every statement may be run again after a stop anywhere (db/mod.rs says  *)
(* idempotent of each migration), but for 011: a stop between its          *)
(* statements leaves its second table, and no later start gets past it.    *)
Rerunnable ==
  failed \in {None, "config", "secret"} \/ (failed = "widen" /\ torn)

(* What the settings page said of the next start is what that start does,  *)
(* unless the row could not be read or the configuration has been edited   *)
(* since it was read (settings.rs:43, main.rs:150).                        *)
ToldTrue ==
  [][pc # "serving" /\ pc' = "serving" /\ told # None /\ faults' = 0 => active' = told]_vars

(* A configuration no start accepts: session with a short secret in the    *)
(* file, whatever is stored, or stored over a file that says none.         *)
LockedOut ==
  \/ ~Acceptable(config.mode, config)
  \/ ~Acceptable(Override(stored, config.mode), config)

(* A server that is stopped comes back, however often it is stopped; but   *)
(* for those two ends.                                                     *)
Recovers == []<>(pc = "serving" \/ LockedOut \/ torn)
=============================================================================
