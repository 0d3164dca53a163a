# VexBoard in TLA+

VexBoard is a dashboard server for self-hosted services: it discovers units and
containers, probes the services it is told about, raises alerts, and lets
accounts with roles manage all of it. The server is one process (axum and tokio
over one SQLite file); the frontend is a Leptos application that talks to its
API. This directory holds models of the server's state and concurrency, the TLC
runs that check them on small instances, and TLAPS proofs of the results that
matter most. `PROJECT.json` maps every definition to the lines it models and
lists the runs, the hazards and the theorems.

    tlc -config MCAccounts.cfg MCAccounts      # one run
    tlapm AccountsProofs.tla                   # one module of proofs

`S` below stands for `src/crates/vexboard-server/src` and `F` for
`src/crates/vexboard-frontend/src`.

## Inventory

| Component | State | Operations | What makes it correct |
|---|---|---|---|
| Alerting, `S/notify.rs` | map of `ServiceAlertState` in memory; two rule rows in `settings`; the broadcast channel; delivery tasks | receive a probe result, judge it (`decide_fire`), read channels, deliver with retries | outages are announced once the threshold is met, repeated at the interval, closed once; deliveries end within their budget |
| Accounts and sessions, `S/api/users.rs`, `S/api/setup.rs`, `S/api/auth.rs`, `S/middleware/auth.rs`, `S/session_store.rs` | tables `users` and `tower_sessions`; local variables of the handlers | setup, login, logout, create, update, delete, update oneself, revoke | one account per name; an admin remains; a session does not outlive its account |
| PAM login, `S/api/auth.rs`, `S/db/mod.rs` | `settings.pam_bootstrap_admin`, the list of admins, cached roles | login, claim | one implicit admin, who stays admin |
| Login rate limiter, `S/rate_limit.rs` | map from address to a deque of instants, under a mutex | `check` | at most the limit in a window; no refusal without reason |
| Discovery, `S/discovery` | one list behind a read-write lock; `dismissed_units`; `services` | two loops, refresh, dismiss, undismiss, list | what is dismissed or claimed is not offered again; no unit twice |
| Probe pipeline, `S/probe` | `last_probed` in the loop; `probe_results`; the broadcast channel | tick, probe, record, prune, broadcast; the summary | no probe records what never was; list and pages come to tell the state; the incidents are the outages of the history |
| Service catalog, `S/api/services.rs`, `groups.rs`, `quick_links.rs`, `config_export.rs` | tables `services`, `groups`, `quick_links` | create, claim, update, delete, reorder, export, import | unique units; a deletion leaves no dangling row; an update keeps what it was not sent; a bundle names only what it carries; an import only adds |
| Notification channels and rules, `S/api/notifications.rs` | `notification_channels`, rule rows | create, update, delete, test, rules | a channel that needs a token has one; a merged update loses no field; rules are consistent |
| Migrations and start-up, `S/db/mod.rs`, `S/main.rs`, `S/api/settings.rs` | the schema; `settings.auth_mode` | `run_migrations`, start, set the mode | every start ends with the new schema and all the rows; a stop anywhere can be started from; the mode told is the mode served |
| Audit log, `S/db/audit.rs`, `S/api/audit.rs` | `audit_log` | insert, list | a row per change, failures ignored by design |
| Service control, `S/control` | the job queue of systemd; the daemons | start, stop or restart, then a probe | the status shown afterwards is the true one |
| Dashboard pages, `F/pages/dashboard`, `F/components` | the lists a page fetched, the card dragged, the modals; tasks of requests | drag and drop, reset, add, edit, delete; groups; history modal | cards stand where they were dropped; groups keep distinct orders; a modal tells of its service |
| Other pages, `F/pages` | forms | calls of the API | - |
| Metrics, health, routing, OpenAPI | none that lasts | sample, serve | pure input and output |

How they interact. Handlers, loops and spawned tasks share the SQLite pool, in
which each statement is a transaction of its own (only `reorder` and migration
008 open one), and four pieces of memory: the discovery list, two broadcast
channels, and the limiter's map. The probe loop spawns one task per due
service; each writes a row and then broadcasts, and the notification loop is
one receiver of those broadcasts. The session layer (tower-sessions) loads a
session when a handler first asks for it and saves it only after the handler
has returned. A handler may be dropped at any await when its client goes away.

What is hard here is therefore: statements of two requests interleaved; local
variables that are stale when they are written back; a stop between a write and
the revocation that should follow; state in memory that a restart forgets;
results lost to a slow receiver; tasks that outlive what they are about; a
process stopped between two statements of a migration; and pages that act on
lists another page has changed since.
`PROJECT.json` lists these hazards one by one, each at its line.

## Modules

| Module | Models |
|---|---|
| `Alerts` | notification loop, `decide_fire`, the broadcast channel, `update_rules`, delivery tasks, restarts |
| `OutageAlerts` | what alerting promises: alerts form outages |
| `Accounts` | accounts, local sessions and every request on them |
| `PamLogin` | `login_pam` and the bootstrap claim |
| `OneTimeGrant` | what the claim promises: one winner, told every time |
| `RateLimiter` | `LoginRateLimiter::check` |
| `Discovery` | the list of discovered units: passes, refresh, dismiss, undismiss, claim, release |
| `UrlHint` | one `detect_url_hint` beside a host that changes, and the choice among a container's ports |
| `Catalog` | groups, services, quick links and channels: every handler that writes them |
| `Backup` | export and import, composed with the requests of `Catalog` |
| `Startup` | loading the configuration, the migrations, the stored auth mode |
| `Uptime` | `derive_incidents`, with the definition it is compared to |
| `Probing` | scheduler, probes, control of units, events and the live status of a page |
| `HistoryModal` | the modal with uptime, controls and log of one service |
| `Dashboard` | the pages on which cards and groups are arranged, composed with `HistoryModal` |
| `AlertsProofs`, `AccountsProofs`, `LoginProofs`, `DiscoveryProofs`, `BackupProofs`, `ProbingProofs`, `StartupProofs`, `DashboardProofs` | the theorems |
| `MC*` | instances for TLC |

### Alerts

`loop.pc` is the await the loop is at: `recv` (with the tokio channel's lag
report, `ReceiveLagged`), `threshold` and `interval` (the two
`fetch_setting_i64` calls), `channels` (the SELECT that precedes the spawns).
`alert` and `observed` are the map `states`; `queue` and `lagged` the broadcast
channel, which overwrites its oldest entry when full; `ruleWrite` the second
half of `update_rules` requests. A read that fails counts as the default, as in
the code. A delivery may be taken by the destination and still be reported as
failed. Time is in minutes; `Restart` keeps the rules and nothing else.
Probe results come in any order and at any time: the probe tasks overlap, so
the loop may assume nothing about them.

Fairness: `LoopStep` and the steps of delivery tasks are weakly fair, for they
are tokio tasks waiting on nothing but timers, SQLite and requests with a
timeout. Probes, administrators, the clock and crashes owe nothing.

### Accounts

A request is a record of local variables with the step it is at; one action is
one SQL statement (or one call of the session store) and the code up to the
next. `target` is the account a handler read and goes on using; `Go`, `Return`
and `Abort` move, end and stop a request. `Insert`, `UpdateRow` and
`UpdateName` are the statements, with the UNIQUE and AUTOINCREMENT of the
schema. With `auth.mode` "none" (`mode`) the routes stand without `require_admin`,
and a request may have no session. `LoginSave` is apart from the login's read because the session layer
saves after the handler returns. `delete_by_username` reads all the rows and
deletes the matching ones one at a time. History: `untracked` (accounts that
lost a name without a completed revocation), `late` (a session saved after its
account's name had gone), `admins` (the admins there were when a request last
looked).

### PamLogin

`Claim` is the INSERT of `try_claim_setting`, `ReadHolder` the SELECT that
follows a lost race, `Announce` the audit row (whose failure is ignored),
`Save` the session layer. `Restart` forgets the logins in flight and may bring
another `pam_admin_users`. No bounds are needed: the state is finite.

### RateLimiter

`ReadClock` and `Check` are apart, as the instant is taken before the lock. A
deque is a sequence of instants in order of entry; the number `n` in an attempt
tells equal instants apart and is history. `Evicted` is the loop that pops from
the front until the first attempt that has not expired.

### Discovery

A pass is one of systemd or of the containers, run by its loop or by the task a
refresh spawned. Its record holds what it has read: `Begin` notes the systemd
entries a container pass compares with, `ReadDismissed` reads the table and
fixes the units under consideration, `Check` is the claim query of one unit (and
the slow look for a URL after it), `Write` overwrites the pass's part of the
list under the lock. What the host answers, and the filters that depend on
nothing else (patterns, labels, states, images), are a free choice of units.
Dismissed and suppressed units are left out when the table has been read; the
code does so unit by unit, from the same two sets. `Dismiss` and `CreateInsert`
are the statements, `Retain` what both handlers do to the list afterwards, and
`Abandon` the client that goes away in between. A service is what was posted to
create it; `update_service` is left to the catalog. History: `late` (answered
since the pass could know) and `blind` (the same, for what is listed).

Fairness: each step of a pass is weakly fair. Passes are tasks of their own,
the loops sleep for a fixed time, and D-Bus is assumed to answer in the end; no
fairness is assumed of requests, refreshes or restarts.

### UrlHint

`x` holds the local variables of one detection and the stage it is at
(`detect_url_hint`'s four stages, each one or more reads); `DetectUrlHint`
is the code, `Host` what processes do between its reads. `ReadSockets` reads all
the socket units in one step, since nothing else in the model changes what they
listen on. `OwnedByPid` is the test of a row of `/proc/{pid}/net/tcp`: by inode,
or by user when the file descriptors may not be read. `Best` is the choice among
the ports of a container, which the discovery of containers
(`HintContainer`) and of the units that run them (`AskRuntime`) share. A process
is not replaced by another of the same pid while it is looked at; inodes are
numbers the kernel does not hand out again so soon. `ever` is history.

### Catalog and Backup

`db` holds the four tables as functions on ids, `serial` the AUTOINCREMENT. A
request (`Asks`) is a handler at a statement; an update is `Read` and, later,
`Overwrite` of every column with the row it read and the fields it was sent
(`Merged`). `Refused` is the schema: unique group names, unique units, foreign
keys. `note` stands for the nullable texts, which an empty text clears when it
is sent; one that is not sent leaves the column as it was.
`Backup` adds the four SELECTs of an export (`saved` is the bundle that came
out) and the statements of an import, row after row, in any order within a
table. History: `since`, the rows others wrote since a request last read, and
`imported`, on channels whose secret an import did not bring.

### Startup

`pc` is the next statement of the start. `has` is the schema as the set of
tables, columns and indexes that exist, and a migration asks it what is due
(`Missing`). `data` is the rows the migrations touch: names of groups, the
group each link is in, the units claimed, the channels. `Crash` stops the
process between any two statements, those of 001 and 002 among them
(`CreateMissing`); 008 is one transaction, hence one action
(`Unify`), and 011 four. `ReadMode`, `SetAuthMode` and `GetAuthMode` are the
stored mode; `EditConfig` is the operator. A failed start is followed by another.
History: `origin`, `torn` (stopped inside 011) and `told` (what the settings
page said of the next start).

### Probing and Uptime

Time is in wakes of the scheduler; a row has an age instead of a timestamp, so
rows of one wake tie. `Wake` is one turn of the loop over the rows it selects;
`AskTarget`, `GetTarget`, `InsertRow` and `Finish` are the awaits of one probe
task. The task of a service just created (`Newcomer`) first reads the row again
(`ReadRow`), which may have been changed, disabled or deleted by then. A systemd target answers at once what state it is in, a container or
server by HEAD and then GET. `DoControl` leaves a job with systemd, which runs
later (`RunJob`), or has a daemon act at once, and both spawn a probe. `live` is
the status a page that is open has of each service, from the events. History:
`seen`, what was true of the target since the probe began. `Uptime` scans a
history for incidents as the code does, and states without a scan what its
outages are and what it is to tell each once, the latest first.

Fairness: the scheduler wakes and probe tasks go on, for they wait for nothing
but timers, SQLite and requests with a timeout (`timeout_secs`). What is probed
owes nothing; `Settles` is about the runs in which it stops changing.

### Dashboard and HistoryModal

A page (`pages[t]`) has the lists it fetched last; `stale` is what it is
fetching again. A drop is a task (`tasks[k]`): fetch the list, take the places
the drag began and ended at to it, send the orders; each of the five handlers
of a drop has its action, and they share `Dropped`. A reset sends the cards from
A to Z. A PUT is two steps, as in `update_service`, `update_quick_link` and
`update_group`: the row is read (`ReadCard`, `ReadGroup`), then written whole
(`WriteCard`, `WriteGroup`), with the order that was read if none was sent.
Editing a card and renaming a group are one PUT, moving a group is two. Of the
fields of a card an edit sends the group stands for all, for the order is what
the other requests are about. Sort modes divide the page in sections
(`SectionOf`). The modal has a state of its own in `HistoryModal`: requests
for the summary, the outcome of an action and lines of the log come whenever
they come. History: `want` (the order the user saw at the drop, `None` when
what the page showed is no longer so), `had`, `raced`, `late`.

## Runs

| Run | Instance | Shows |
|---|---|---|
| `alerts_rules` | one service, channel of 2, 6 results, 2 minutes, one restart, one edit of the rules | `OutageAnnounced`, `ThresholdMet`, `RepeatSpacing`, the refinement `AlertsFormOutages`, `LoopDrains` |
| `alerts_delivery` | two destinations, one retry, 3 results, one restart | `DeliveryAccounting`, `EveryDeliverySettles` |
| `accounts` | two requests in flight, three in all, one stop; a fresh database, with login and without, two admins, an admin and a viewer | `NamesUnique`, `AdminsKept`, `SessionsTracked` |
| `pam_login` | two users, three logins in flight, lists empty or naming one | `RoleFollowsClaim`, `AnnouncedOnce`, the refinement `ImplementsGrant` |
| `rate_limiter` | one address, three callers, limit 2, window 2, clock to 5, 5 attempts allowed | `WindowBound`, `RefusedForReason` |
| `discovery` | a unit and its container, both loops, one request at a time, two services, one failed read | `AnswersHold`, `AnswersSettle`, `DuplicatesClear` |
| `discovery_overlap` | one container, a loop and a refresh, two requests, one failed read | `AnswersHold` with passes of a kind that overlap |
| `url_hint` | a unit with one unreadable process and one client of a runtime, two processes of the same users beside them, three sockets; two events of the host, one failed read | `HintOwned` |
| `backup` | one row in each table; two requests in flight, three in all, one failed statement | `Integrity`, `CredentialHeld`, `BundleClosed`, `FieldsKept`, `ImportAdds` |
| `startup` | the databases after each of the 12 migrations and none; two stops, one failed query | `DataKept`, `Rerunnable`, `ToldTrue`, `Recovers` |
| `probing` | one service, a unit or a container with a page; two probes on their way, a creation and one more request, one failure | `NoFalseStatus`, `IncidentsExact`, `Settles` |
| `dashboard` | two pages, both by group, or one from A to Z and one by source; two tasks, up to five cards and three groups, two of them tied in one database; two acts of users, one failed request; or four clicks in the modal | `DropLands`, `PanicOnlyIfShrunk`, `GroupsDistinct`, `ShowsTarget` |

Why the bounds are enough. *Alerts*: services share only the queue and the
rules, so one service with a full queue meets every order of loss and judgement;
six results are enough for two outages with a recovery in between under a
threshold of 3 or 1, and two minutes for a repeat that is due and one that is
not. *Accounts*: the races are between two requests; the third lets a session be
opened under, or an account be created with, what the first two left. The four
databases are the states an administrator meets: none, with and without a login
asked for, a spare admin, a last admin. *PAM*: a claimant, the same user again
and another. *Limiter*: two
callers may hold old instants while the third enters a newer one, and the limit
is reached with attempts inside and outside the window. *Discovery*: entries of
one kind do not affect each other, so one of each is enough for what the kinds
do to one another, and one alone for passes of its kind that overlap. Nothing
but failed reads is counted: requests, refreshes and restarts go on for ever.
*UrlHint*: the two processes of the unit are the two ways of being looked at,
the two beside them the two ways of being mistaken for them. Two events are
enough for a socket to move, or for a main process to end and another to start,
between two reads. *Backup*: an import or export beside an update, a deletion or
another import is two requests; the third writes before both have ended. The bundle of another
server adds a group and a service in it; one exported here brings the rest.
*Startup*: a second stop is the stop in the start that repeats the first, after
which nothing new can happen. *Probing*: services do not affect each other but
by ids, so one is enough; two probes of it are the one that is late and the one
that overtakes it; one request after the creation, stored or new, is an
update, a deletion or a control action, before the new row is read again or
after. The state, the jobs and the wakes go on for ever.
*Dashboard*: a drag is one act, beside which another user or page has one; a
move and a rename, or two moves, are two. All that follows an act (fetches,
answers, the halves of a PUT, log lines) is not counted. The modal shares no
state with the pages, so a behaviour is of the one or the other; four clicks are
enough to open it, act, open it on another service and act again. Pages and tasks
are symmetric: only safety is checked, and no property names one.

`CHECK_DEADLOCK FALSE` stands where the bounds on requests, results or the clock
let a behaviour end; the server itself has nothing left to do there.

Each property of a passing run has a mutant, a plausible slip in the code that
the run must catch; it stands before the definition it replaces.

### What the models brought up

* `update_user` and `delete_user` count the admins and write in another
  statement; two requests, each demoting a different one of two admins, can
  leave none, although `S/api/users.rs:231` means to keep the last one.
  `AdminsKept` says exactly when it happens.
* Two concurrent setups with different names both succeed; the comment at
  `S/api/setup.rs:141` relies on UNIQUE, which stops only equal names.
* An account that renames itself (`S/api/auth.rs:520`) leaves its other sessions
  under the old name. No revocation finds them, and when the account is deleted
  the role cached in them still decides. These are the `untracked` accounts of
  `SessionsTracked`.
* With the default rules a service that was down already when the server
  started is announced on its second failure (`S/notify.rs:301`), although
  `src/config/default.toml:140` says that notifications fire on a change only.
* A container added from the panel is posted without a unit and under a title
  such as `Nginx Proxy Manager` (`F/components/discovery_panel.rs:101`), and a
  pass compares the container's name with exactly these two columns
  (`S/discovery/docker.rs:195`): it stays in the list of units not yet claimed.
* A stop between the statements of migration 011 leaves its second table, and
  CREATE TABLE then fails in every later start (`S/db/mod.rs:141`); no row is
  lost. `Rerunnable` and `Recovers` except exactly this.
* `set_auth_mode` stores `session` whatever the secret is; the next start then
  refuses (`S/main.rs:165`). `Recovers` calls it `LockedOut`.
* An import does not ask a channel for the token its kind needs
  (`CredentialHeld` excepts imported rows), and an export made beside changes of
  groups may name one it does not carry (`torn`).
* A drop in the flat list of links looks its places up in the order of the
  server, which breaks ties by id where the page breaks them by title
  (`F/pages/dashboard/quick_links_section.rs:121`); `.github/docs/subagent_docs/ANALYSIS_BUGS.md:158`
  has the same slip for services, where it is mended. `Unchanged` excepts ties.
* `update_group` and the two other PUTs write back the order they read when none
  was sent (`S/api/groups.rs:172`, `S/api/services.rs:499`): renaming a group may
  undo one half of a move made meanwhile, and leave two groups with one order. A
  move reads its list when the button is pressed, and its two PUTs may fail one
  without the other (`F/components/modal_groups.rs:136`); imports, migration 008
  and a POST without an order store ties. Moving one of two tied groups past the
  other changes nothing. `GroupsDistinct` excepts these, each exactly. In
  the same way an edit of a card may undo a drop; `DropLands` speaks of the
  moment the orders of the drop are written.
* The order the groups modal sets is shown nowhere: the sections of groups are
  sorted by name (`F/pages/dashboard/group_section.rs:170`).
* A late answer is written into whatever the history modal shows by then
  (`F/components/history_modal.rs:146`); `ShowsTarget` excepts what is `late`.
* When `/proc/{pid}/exe` may not be read, a client of a container runtime is not
  taken for one, and a port may be guessed by its user after all.
* The comment at `S/api/services.rs:820` has the probe after an action confirm
  it; systemd has only queued the job by then, so the first row may still tell
  the state before. `Settles` is what remains true.
* With `history_retention_days = 0` every row is deleted as soon as it is
  written; `ProbingAssumption` asks for a day.

## Proofs

All are for every value of the constants that meets the modules' assumptions
(`AlertsAssumption`, `AccountsAssumption`, `PamAssumption`, `LimiterAssumption`,
`DiscoveryAssumption`, `UrlHintAssumption`, `CatalogAssumption`,
`AsksAssumption`, `StoredAssumption`, `UptimeAssumption`, `ProbingAssumption`,
`StartupAssumption`, `DashboardAssumption`), which TLC evaluates in the runs.

* `AlertsProofs`. `TypeCorrect`; `MemoryAccurate`, the inductive invariant: the
  loop's memory of each service (count, flag, time) agrees with the history of
  the results judged, also in the middle of a judgement. From it
  `NoOutageMissed` (`OutageAnnounced`), `ThresholdRespected`, `RepeatsSpaced`
  and `AlertsRefine`, the refinement of `OutageAlerts`. The invariants checked
  are not inductive by themselves: nothing in them says that the flag the code
  tests and the last alert raised are the same thing. `DeliveriesAccounted`
  (`DeliveryAccounting`) has an invariant of its own: what a delivery task knows
  of its tries, and that an alert about to be spawned has no task yet, so that
  the channels of its tasks are exactly those it was to reach (`Reached`).
* `AccountsProofs`. `TypeCorrect`; `UniqueNames`; `LastAdminKept`;
  `SessionsAccountedFor`. The strengthening is `Sound`: a request that is about
  to write knows the account by its id (`target.id = ask.id`), and its last
  look at the admins would have left one (`Spares`). `SessionsTracked` needs
  the first of these: it is why the revocation that follows a write is about
  the account written to.
* `LoginProofs`, of a login by PAM and of the limiter before it. `TypeCorrect`;
  `RoleKept`; `LoggedOnce`; `GrantMadeOnce`, the refinement of `OneTimeGrant`. The
  invariant says what a login knows between its statements (`Claimed`): that it
  is the holder when it logs the grant, and that there is a holder when it reads
  the row. It is stable because the row is written once (`HolderFixed`).
  `LimiterTypeCorrect`; `LimitHolds`, from `Kept`: an attempt allowed in the
  window that ends now is still in its deque, because whoever evicts reads a
  clock that is not ahead; a deque need not be sorted. `RefusalsJustified`
  (`RefusedForReason`), from `Numbered`: the attempts in a full deque are
  different ones, and each was allowed.
* `DiscoveryProofs`, of the list and of a detection. `TypeCorrect`;
  `AnswersHoldAlways`. The list is as good as the passes that wrote it, so the
  invariant (`PassesKnow`) is about the passes under way: whatever a pass keeps
  although it was answered, or has before it although it was dismissed, was
  answered after its read.
  `HintsOwned` (`HintOwned`): by the time a detection uses what it read the host
  has changed, so that is not inductive: `Knows` compares the local variables with
  what each process has had since the detection began, and says that the user is
  looked at only for a process that is gone or whose files may not be read.
  `BestIsBest` is what the choice among a container's ports returns, by the least
  tier and the least place in it.
* `BackupProofs`. `AlwaysSound`, the inductive invariant, in two halves. `Stable`
  is about the rows: `Integrity` and `CredentialHeld`, the types (`Shaped`) and
  ids no greater than `serial` (`Numbered`: a row just inserted is no row
  another refers to). `Knows` is about what requests have read: a row read is
  still the stored one unless it is in `since`, an exporter's groups are those
  of the database unless it is `torn`, and the groups an import resolved exist.
  Without it neither the written row of an update nor a bundle could be known
  to be right. From it `SchemaHolds` (`Integrity`), `TokensHeld`
  (`CredentialHeld`), `ExportsClosed` (`BundleClosed`), `UpdatesKeepFields`
  (`FieldsKept`) and `ImportsAdd` (`ImportAdds`).
* `ProbingProofs`. `NothingFalse` (`NoFalseStatus`), from `Watched`: the state a
  target is in now is one its probes have had to be seen, and a probe that is
  about to record has seen what it records. `IncidentsTold` (`IncidentsExact`)
  rests on `IncidentsOfHistory`, which is about `derive_incidents` alone and any
  history: after n points the scan has listed the stretches that ended before n,
  in order, and the open incident is the stretch going on at n (`ScannedTo`). The
  induction is by the least point at which this would fail (`LeastOf`).
* `StartupProofs`. `StartsSound`, the inductive invariant, in parts: which
  of the two tables of channels exists and holds the rows at each statement of
  011 (`Held`), that the first service to claim a unit keeps it (`Claims`, from
  the lemma that clearing leaves no unit claimed twice), and what configuration
  and stored row say together (`Promise`). From it `MigrationsRerunnable`
  (`Rerunnable`) and `ModeAsTold` (`ToldTrue`). `RowsKept` (`DataKept`) needs
  `Grouping` too: links and groups are either as they were or what 008 made of
  them, for good. `FreeNameIsFree` is why its loop over suffixes ends: with one
  suffix more than there are names, one is free. `JoinedNames` is about all the
  old groups in turn: there is no least number of them for which it fails.
  `JoiningSteps` shows that the recursive function it is about exists.
* `DashboardProofs`. `ModalShowsTarget` (`ShowsTarget`) is inductive with what
  the fields are. `GroupsApart` (`GroupsDistinct`) is not: between the two PUTs
  of a move two groups have one order. `GroupsSound` says instead that, unless
  there was a race, one task at most moves groups and what they come to when it
  is done (`After`) has no ties; a new group comes after the last (`NextOrderLast`),
  and a swap keeps orders apart. `DropsLand` (`DropLands`) and `PanicsExplained`
  (`PanicOnlyIfShrunk`) rest on what a task knows of the page it was started on
  (`TasksSound`): the places are places in the row the page showed, and what is
  sent puts each card where the user saw it. `RankedHolds`, about a set sorted by
  a key and where that ties by another, is the lemma all of it needs: every
  member has one place, and every place one member.

Every invariant and action property of the runs, and each refinement, is a
theorem. Only model-checked is liveness (`LoopDrains`, `EveryDeliverySettles`,
`AnswersSettle`, `DuplicatesClear`, `Settles`, `Recovers`): TLAPS does not prove
properties under fairness.

## Plan

1. Alerts, accounts, PAM login, limiter, discovery, URL hints, start-up: done,
   with their proofs.
2. Catalog, backup, probing and uptime, the dashboard and its modal: done, with
   their proofs.
3. `Probing` and `Alerts` composed on one channel; `Alerts` now takes results
   in any order, which includes every order `Probing` produces.

## Not modelled

Metrics, health, routing and OpenAPI documents (no state that lasts, pure input
and output); the formatting of notifications; icons; the forms of the pages for
login, setup, settings and discovered units, whose state is what the server last
sent and the form being edited; on the dashboard, loading and saving the sort
mode and the confirmation dialogs; the percentages of the
uptime summary; the calls to D-Bus and to the container sockets themselves, and
the log stream; password hashing and cookies; the Nix and container packaging.
Expiry of sessions by time is a session that ends at any moment.
