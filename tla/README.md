# Formal model of podspawn

podspawn gives every SSH login, and every local `podspawn shell`, `run`, `dev`
or `create`, a container per *(user, project)*. Several processes share one
SQLite database, one directory of lock files and one Docker daemon; none of
them is a server that could serialise the others. This directory holds a TLA+
model of that coordination, the TLC configurations that check it, and TLAPS
proofs about it.

## 1. Inventory

| Component | State it keeps | Operations | Talks to |
|---|---|---|---|
| Session connections (`internal/spawn/spawn.go`, started by `cmd/spawn.go`, `run.go`, `shell.go`, `dev.go`, `create.go`) | in memory: project, mode, session id of this process | `RunAndCleanup` (`Run`, then `Disconnect`), `Ensure`; `reconcileUser`, `runHooks`, `cleanupFailedSession` | user lock, store, Docker |
| Session store (`internal/state/state.go`) | tables `sessions` and `workspaces`, schema version | one SQL statement per method; migrations in `Open` | every process |
| Container runtime (`internal/runtime/docker.go`) | containers, networks, volumes, images in the daemon | create, start, exec, inspect, list, remove | Docker |
| User lock (`internal/lock/lock.go`) | an flock on `<dir>/<user>.lock` | `Acquire` (polls every 50 ms until the context ends), release, `Remove` | connections, `remove-user` |
| Cleanup (`internal/cleanup/cleanup.go`) | none of its own; the rows and container lists it has read | `RunOnce` = `ExpireGracePeriods`, `EnforceMaxLifetimes`, `ReconcileOrphans`; `RunDaemon`; `DestroySession` | store, Docker, **not** the lock |
| Session plane (`internal/session`) | none | `Service.End` (stop, down, dev --fresh), create, list, inspect, workspaces | policy, store, Docker, **not** the lock |
| Workspaces (`session/create.go`, `workspaces.go`, `cmd/rm.go`, `switch_branch.go`) | `workspaces` rows, checkouts on disk | create, preserve, restore, switch branch, remove | store, git, connections |
| Service and network provisioning (`podfile/services.go`, `spawn.go`) | networks, companion containers | `StartServices`, roll-back, `cleanupServicesAndNetwork` | Docker |
| Project registry (`config/projects.go`, `cmd/*_project.go`) | `projects.yaml` | load, change, save by rename | file system, **no** lock |
| Podfile algorithms (`podfile/merge.go`, `resolve.go`, `ports.go`) | none | merge, extends chains, port parsing | pure |
| Server setup (`serversetup/serversetup.go`, `cmd/server_setup.go`) | `sshd_config`, its copy, directories | check, back up, append, validate or restore, reload; run again at will | sshd, file system, **no** lock |
| User administration (`adduser`, `authkeys`, `cmd/remove_user.go`) | key files, home directories | write, read and remove them | user lock, file system |
| Session listing (`session/list.go`) | none | joins two tables read one after the other | store |
| Policy, identity, audit, metrics | an append-only log | stateless decisions | |
| Client commands, terminal output | none | I/O | OpenSSH |

How they interact: connections of one user exclude each other by the lock,
but the lock is *not* held while a shell is attached, while hooks run, during
the clean-up after a failed hook, nor by `stop`, `down`, `dev --fresh` and
`cleanup`. These last ones read rows and then destroy, by name, two calls per
session (container, then row). A process that dies gives its flock back and
leaves its count, its container or a half-finished teardown behind.

What is hard, and what makes each component correct:

- *Reference counting over processes.* `connections` is raised and lowered by
  different processes; the last one to leave ends the session or starts its
  grace period. Correct: the count is the number of connections sharing the
  session; it never exceeds it even when sessions are replaced under them.
- *Knowledge across calls.* What was read (no row; container alive; count
  zero; below the limit) is acted on several calls later. Correct: what the
  holder of the lock relies on still holds, although others run without it.
- *Teardown beside the lock.* Correct: a row and a container of the same name
  always belong together; no session is ended under an attached user
  (this one fails beside a cleanup pass, see section 4).
- *Crashes, timeouts, failing calls.* Correct: nothing blocks for ever, leaked
  counts, orphaned containers and idle sessions are eventually gone.
- *Modes.* Correct: persistent sessions outlive disconnects (fails for modes
  that a project asks for), max_per_user is a bound.
- *The lock is a file.* An flock belongs to the file that was opened, not to its
  name, and `remove-user` unlinks it. Correct: mutual exclusion for every user
  who has not been removed, and nobody waits for ever on a file that is gone.
- *Upgrades.* Every process opens the database and may find itself upgrading it,
  while others do or after one was killed. Correct: an open store has the
  current schema, no row is left without what the upgrade gives it, and an
  interrupted upgrade can be completed (fails from version 4).
- *Provisioning.* A session is up to a dozen calls to Docker, any of which may
  fail, and each error return has its own roll-back. Correct: nothing of a session
  is left when it could not be completed (fails for malformed volumes); what
  crashes leave behind never becomes part of a session and is removed in the end.
- *Workspaces.* A workspace is a row and a directory; `create`, `shell`, `run`,
  `switch-branch` and `rm` read the row, work for minutes and write to either, in
  turn. Correct: the row and the checkout belong together and name the same
  branch, the row says initialized only of a branch that is, and a session keeps
  its files (fails when commands overlap on one name, and after a killed
  switch-branch).
- *Project registry.* Three commands load the whole of `projects.yaml`, work, and
  write it back. Correct: an entry has its image and its clone, and describes what
  is in it (an entry may lose its clone when commands overlap).
- *Podfiles.* A chain of files, some of them in a cache that is being rewritten,
  becomes one file. Correct: the resolution ends and says what is wrong with a
  chain; each value comes from the file that decides on it (fails for the shell);
  ports are forwarded as the strategy says (two may get the same port).
- *Server setup.* It changes the file without which nobody can log in to the host.
  Correct: sshd starts, the administrator's settings are never lost, and what is
  said to be complete has taken effect.

The complete list of hazards, each at its line, is `hazards` in
`PROJECT.json`.

## 2. The modules

| Module | Models | Main state |
|---|---|---|
| `SessionStore` | the `sessions` table and the session containers, one operator per SQL statement or Docker call; deadlines passing | `row`, `box` |
| `Connection` | one process running `spawn.Session`: `ensureContainerWithState`, `reconcileUser`, `runHooks`, `cleanupFailedSession`, `Disconnect` | `lock`, `pc`, `proj`, `mode`, `att`, `saw`, `after` |
| `SessionEnders` | `Service.End` and `cleanup.RunOnce`, call by call, without the lock | `target`, `boxGone`, `sweep`, `todo`, `doing`, `seen` |
| `SessionLifecycle` | their composition, `Spec`, `FairSpec`, and the properties | |
| `SharedSession` | abstract specification: what a user may rely on | `session`, `users` |
| `MCSessionLifecycle` | instances for TLC | |
| `SessionLifecycleProofs` | TLAPS proofs | |
| `UserLock` | `lock.Acquire`, its release and `lock.Remove`: name, file and flock as separate things; logins and `remove-user` as its users | `path`, `fd`, `holds`, `key`, `sessions`, `todo`, `failed` |
| `Migration` | `state.Open`: every statement or transaction of the upgrade from each old version, by several processes | `stamp`, `cols`, `sess`, `ws`, `ids`, `linked`, `persistent` |
| `Provisioning` | one session as what it consists of: its container, the services' containers, the network, the row; `resolveProject`, `StartServices`, the roll-backs, `DestroySession` and `ReconcileOrphans` call by call; logins without a store | `net`, `box`, `row`, `lock`, `pc`, `at`, `ref`, `todo`, `seen` |
| `Workspaces` | one name in local mode: the workspace's row, its checkout, the session in it, and the commands on them, statement by statement | `row`, `dir`, `session`, `tmp`, `pc`, `ws`, `want` |
| `Projects` | the registry, the clones and the images; add-, update- and remove-project call by call | `file`, `clones`, `images`, `pc`, `loaded`, `read` |
| `PodfileMerge`, `Ports` | pure: `ParseRaw` with its defaults, `Merge` field by field; `ResolvePortBindings` | |
| `Podfiles` | `podspawn dev` up to the session: the chain of files one by one, the merge, the ports; `init --update` rewriting the cache meanwhile | `cached`, `visited`, `chain`, `answer`, `podfile`, `bindings` |
| `ServerSetup` | `sshd_config` and its copy under server-setup commands, call by call, with restarts of the host and edits by hand | `config`, `backup`, `running`, `settings`, `pc`, `data` |
| `MCUserLock`, `MCMigration`, `MCProvisioning`, `MCWorkspaces`, `MCProjects`, `MCPodfiles`, `MCServerSetup` | instances for TLC | |
| `UserLockProofs`, `MigrationProofs`, `ProvisioningProofs`, `WorkspacesProofs`, `ProjectsProofs`, `PodfilesProofs`, `ServerSetupProofs` | TLAPS proofs | |

`Connection` takes the lock as one variable, the user who holds it. `UserLock` is
what justifies that: `MutualExclusion` there, as long as nobody removes the user.
Likewise `SessionStore` assumes the current schema, which `OpenedIsCurrent` gives.
`Connection` and `Provisioning` look at the same code from two sides: the one
counts users and takes a session as one container, the other takes a session
apart and leaves open who is the last to leave it. `Workspaces` is the third side:
the session is one thing there, made in one step, and what matters is the
directory under it. `Podfiles` ends where `Provisioning` begins, with the resolved
Podfile.

**Grain.** An action is one call to the store, to Docker or to flock together
with the code up to the next one; SQLite and the daemon make such a call
atomic. `pc` names the next call. Calls that other processes cannot observe
(starting the container, creating its user, resolving a Podfile) are merged
into the neighbouring step, with their error returns kept (`CallFails`,
`RollBack`, `Fail`).

| Code | Actions |
|---|---|
| `lock.Acquire` | `Acquire`, `AcquireTimesOut`, `AcquireToLeave`, `LeaveTimesOut` |
| `reconcileUser` | `ReconcileStale`, `ReconcileGrace`, `ReconcileFails` (errors are swallowed) |
| reattach | `LookUp`, `Inspect`, `Forget`, `CancelGrace`, `Join`, `JoinTooLate` |
| new session | `Admit` (limit, `resolveProject`), `Refuse`, `Create`, `CreateFails`, `Boot`, `Record`, `RollBack` |
| hooks, shell | `HooksDone`, `HookFails`, `CleanupFailed`, `Hangup` |
| `Disconnect` | `Drop`, `DropFails`, `SettleDestroy`, `SettleGrace` |
| `cleanup.DestroySession` | `DestroyBox`, `DestroyRow`; `StopBox`, `StopRow`; `SweepBox`, `SweepRow` |
| `RunOnce` | `SweepGrace`, `SweepLifetimes`, `SweepContainers`, `MatchRows`, `Reap`, `ListFails`, `Rest` |
| killed processes | `Crash`, `StopperDies`, `CleanerDies` |
| time, Docker | `GracePeriodEnds`, `LifetimeEnds`, `ContainerVanishes` |
| `lock.Acquire`, release (`UserLock`) | `OpenFile`, `Flock`, `Close`, `LeaveTimesOut`; `Die` for the kernel's release |
| `remove-user` | `FindUser`, `List`, `Decline`, `Destroy`, `Destroyed`, `KeepKey`, `DropKey`, `KeyGone`, `Unlock`, `Unlink` |
| `resolveProject`, `StartServices` (`Provisioning`) | `CreateNetwork`, `Resolve`, `CreateService`, `StartService`; `ResolveFails`, `CreateServiceFails`, `StartServiceFails` |
| the rest of a new session | `CreateBox`, `Boot`, `Record`; `CreateBoxFails`, `BootFails`, `RecordFails` |
| `cleanupServicesAndNetwork`, `StopServices`, `DestroySession` | `Undo`, `UndoFails`, `Undone`, begun by `Remove` |
| `ensureContainerLegacy`, `Disconnect` without a store | `LegacyEnter`, `LegacyBoot`, `LegacyBootFails`, `LegacyLeave` |
| `create`, `setupNamedFlow`, `rollbackCreate` (`Workspaces`) | `Adopt`, `Revive`, `NoWorkspace`, `Collide`, `StartClone`, `FinishClone`, `ReadPodfile`, `Record`, `Undo`, `Wipe` |
| `shell`, `run` before the session | `Inspect`, `CheckName`, `CloneTemporary` |
| `Ensure`, `Run`, hooks, `Disconnect` as seen by a workspace | `RefusePreserved`, `Reattach`, `Provision`, `ProvisionFails`, `HookSucceeds`, `HookFails`, `MarkInitialized`, `MarkFails`, `CaptureHead`, `Preserve`, `Unwind`, `Leave` |
| `switch-branch`, `rm` | `LookUp`, `SwitchBranch`, `UpdateBranch`, `ResetInitialized`, `ClearHead`; `Destroy`, `RemoveCheckout`, `RemovalFails`, `DeleteWorkspace` |
| `add-project`, `update-project`, `remove-project` (`Projects`) | `Load`, `Save`, `Build`; `StartClone`, `FinishClone`, `ReadNew`, `Wipe`; `Pull`, `ReadAgain`; `RemoveClone` |
| `ResolveExtends`, `dev` (`Podfiles`) | `FirstMalformed`, `Root`, `TooDeep`, `Circular`, `Descend`, `BindPorts` |
| `init --update` | `Truncate`, `Write` |
| `serversetup.Run` (`ServerSetup`) | `Check`, `ReadConfig`, `Backup`, `WriteBackup`, `AppendBlock`, `Validate`, `Restore`, `WriteRestored`, `CreateDirectories`, `ReloadSSHD`, `AlreadyConfigured`; `Kill`, `Reboot`, `Edit` |
| `migrate` (`Migration`) | `ReadVersion`, `CreateAll`, `V2toV3` to `V7toV8`, `Consolidate`; `Kill`, `Reopen` |

**Abstractions.** One user: rows, names and locks are keyed by the user, and
users share nothing but the daemon. Session and container ids are random in
the code; here an id is the connection that created it, and a connection
creates at most one, so ids are as unique as they are there. Time is the two
comparisons that the queries make (`grace_expiry < now`, `max_lifetime < now`).
Containers exist or not: `ContainerExists` asks no more, so a stopped one
counts as alive. A connection runs once; a reconnect is another member of
`Conns`. Networks and services follow their session's container and are left
to `Provisioning`. Failures are events: the constant `Events` says
which of them an instance allows, `Can(e)` guards each of them.

In `UserLock` a login is reduced to what matters to the lock: it may create its
session when it enters and may end it when it leaves, and stop commands and
cleanup passes end sessions at any time. Files have numbers in the order of their
creation. A removed user is not added again; the home directory is left out.

`Provisioning` has one project with `Services` services. Removing a session is
data: `todo` holds what is left of it to remove, in the order of the code, and
`ref` the ids known to whoever removes it, so that every roll-back is `Remove`
with another set. The container of the session goes by name, services and
network by id, and a network with a running container is not removed, as in
Docker. `reconcileUser` is one step when it removes nothing. `Reconcile` and
`LastToLeave` may find a session that has expired or is left by its last user
whenever there is one: that is a superset of what `Connection` allows. Networks
are never searched for orphans; one that stays is found again by its name. The
history variable `harm` records that something was left behind ("debris") or
that somebody acted without the lock ("race"); properties that depend on the
lock or on complete roll-backs say so by it.

In `Migration` a column stands for all that its step adds, and rows are named by
the key that a session and its workspace share, so that `linked` and `persistent`
say which rows were filled correctly. Concurrency is that of statements and
transactions, which SQLite serialises; a statement that fails, or a process that
dies in one, is `Kill`. Versions above 8 (a newer podspawn) are not modelled.

`Workspaces` has one name. Of its statements on the store only the one that sets the
initialized flag fails, because its error return rolls back (`MarkFails`; a command
that stops at another is a `Kill`), and of the removals of files only the one of `rm`
(`RemovalFails`); `ensureContainerWithState`, which holds the lock, is one
step, and so are finding a stale row and deleting it. Who is the last to leave a
session is `Connection`'s matter: here a shared session may stay or go, whoever
leaves. The modes that a Podfile or a project asks for are left out. `ready` is a
history variable: the branch for which `on_create` has succeeded in a checkout. A
command that is over makes room for another one of its kind, so that a member of
`Creators` stands for any number of creates, one at a time.

In `Projects` a Podfile is its bytes, and the hash in an entry and the tag of an
image are functions of the bytes, hence the Podfile itself. The temporary file and
the rename that replace `projects.yaml` are one step, the rename. Commands start
again as above.

In `PodfileMerge` a Podfile is a record whose fields are small sets' members; the
reading of YAML, the validation of single fields and the fetching of references from
GitHub are left out, and a normalized reference is a name. `answer` and `podfile` are
the two results of `ResolveExtends`. `ProblemsAssumption` says what an instance of
`Podfiles` consists of: files with the fields of a Podfile, which extend references,
expose lists of ports and have lists of packages, services and repositories, every entry
with its name and its "!"; a file without `env` is not one that sets every variable to
the empty string (`DefaultsAssumption`, which also says that the defaults of `ParseRaw`
are values and not the absence of one). The `!` on each list is a member of `bang`, that
on on_create and that on on_start apart. In `Ports` what is taken stays taken during one
call. What a list computes is written with recursive functions, which can be proved
about.

In `ServerSetup` a file is the set of what it contains, so that two equal blocks
look like one. A failed append leaves nothing that matters, the whole block, or a
part that sshd refuses. Dry runs and the warnings of `checkSafety` change nothing
and are left out, as are failed reads. A reload of a file that sshd refuses fails.

In these three modules with state on disk `harm` is again a history variable. It says
that something was killed, failed, or collided with another command on the same thing,
at most `Harms` times, and each property names those it does not survive. Some of these
collisions need no fault: another command is enough ("clobber", "underfoot", "lost",
"moved"). What goes wrong then is what the repository says should not, and is checked
without exception by instances of its own (`two_creates`, `switch_race`, `two_adds`,
`update_and_remove`, section 4); the properties with exceptions say that nothing *else*
does it. `Overlap` bounds the commands that are at work at the same time.

## 3. Runs

| Run | Instance | Shows |
|---|---|---|
| `reference_counting` | 3 connections, 2 projects, each configured mode; crashes, timeouts on leaving, grace periods; nobody else ends sessions (20 512 states) | `CountIsExact`, `AttachedKept`, `IdleSessionsExpire`, `PersistentKept`; `SharesSessions`: implements `SharedSession` |
| `faults` | 2 connections, 2 projects, limit 1, a `run` beside a login, a stop command and a cleanup pass, every event (874 924 states) | `TypeOK`, `RowNamesItsContainer`, `SessionLimit`, `NoPhantomConnections`, `GraceOnlyWhenIdle` |
| `recovery` | fair; a login and a `create`, repeated cleanup passes, all failures but those that last (39 143 states) | `ConnectionsSettle`, `SessionsEnd` |
| `cleanup_race` | 2 connections, one cleanup pass, no failures | **violates** `AttachedKept` |
| `user_lock` | fair; 2 logins, 2 `remove-user` commands, one of them forced, anyone may be killed (14 080 states) | `ExclusiveWithKey`, `RemovedWithoutSessions`, `WaitersServed` |
| `upgrade` | fair; 2 processes, every version, 2 interruptions (71 581 states) | `TypeOK`, `OpenedIsCurrent`, `UpgradedRows`, `DatabaseOpens` |
| `provisioning` | fair; 2 logins, 2 services, 1 login without a store, 1 stop command, repeated cleanup passes; one crash, failed removal, vanished container or act without the lock (529 823 states) | `TypeOK`, `WholeOrNothing`, `OwnEnvironment`, `OrphansGo` |
| `malformed_volume` | 1 login, 2 services, the second malformed | **violates** `ServicesRemoved` |
| `workspaces` | 2 creates, a shell, a run, a switch-branch, an rm, two at a time, 2 branches; one kill, failure or collision (386 214 states) | `TypeOK`, `CheckoutOfRow`, `InitializedIsReady`, `FilesOfSession`, `OnCreateOnce` |
| `projects` | 2 adds, 2 updates, a remove, two at a time, 2 names, 2 Podfiles; one kill, failure or collision (299 213 states) | `TypeOK`, `ImageOfEntry`, `CloneOfEntry`, `EntryIsCurrent` |
| `podfiles` | fair; chains of three files in which one field varies, every way in which three files extend one another with a cache being refreshed, ports (73 433 states) | `TypeOK`, `AnswerIsRight`, `MergedRight`, `PortsAsPromised`, `Answers` |
| `server_setup` | 2 commands, each run again and again, the host restarted, the file edited; three harms (43 339 states) | `SshdStarts`, `SettingsKept`, `TakesEffect` |

Nine more instances lie beside these. Each of them has one property, taken from a
comment, a test or a document of the repository, that the modelled code violates; they
are not among the runs of `PROJECT.json`; TLC finds each counterexample in seconds
(`tlc -config two_creates.cfg MCWorkspaces`, and so on). Section 4 says what they show.

| Instance | Module | Constants | Violates |
|---|---|---|---|
| `two_creates` | `MCWorkspaces` | 2 creates of a name | `OldMachineKept` |
| `switch_race` | `MCWorkspaces` | a create, a shell, a switch-branch, two at a time | `RunningUntouched` |
| `switch_killed` | `MCWorkspaces` | the same, one at a time, one kill | `SwitchedReruns` |
| `two_adds` | `MCProjects` | 2 add-projects of a name | `RegisteredWithPodfile` |
| `update_and_remove` | `MCProjects` | an add, an update and a remove of a project | `OnlyAddRegisters` |
| `interrupted_upgrade` | `MCMigration` | fair; 1 process, version 4, one interruption | `RetryResumes` |
| `lost_modes` | `MCMigration` | 1 process, version 4, one interruption | `ModesKept` |
| `inherited_shell` | `MCPodfiles` | the chains of `podfiles` in which one field varies | `InheritedShell` |
| `same_port` | `MCPodfiles` | the ports of `podfiles` | `PortsDistinct` |

**Bounds.** Three connections are the least in which one leaves while another
joins a session a third created, and in which the last of two to leave races
a reconnect; a second project is needed for `max_per_user` and for the limit
to be shared. Two connections suffice beside a stop command and a cleanup pass,
because these two are the third and fourth actor. Counts need no bound: a
connection is counted at most once. `GracePeriod` is only compared with 0.
Symmetry is used for interchangeable connections in `reference_counting` (the
modes are uniform there, and no property of the run is a liveness property) and
for projects in `faults`. In `user_lock`, two logins and two removers are the least
with a holder, a waiter on the unlinked file and a process that creates the file
anew, and with a remover that comes second to the key. In `upgrade` two processes are
enough for one to change the schema between another's check and statement; two
interruptions let each of them be killed, or one twice; one name suffices because every
statement treats all rows alike. In `provisioning` two services are the least with one
to roll back because of another; two logins the least for one to find what the other has
left; `Harms` is one for the size of the state space: `WholeOrNothing` is about none,
`OwnEnvironment` is proved for any number of them, and `OrphansGo` is checked for one,
on top of the races that cleanup passes begin by themselves. The
instances that violate a property are the least that do: one process and one
interruption for an upgrade, two commands of one name for a collision, `Overlap` 1 where
a kill alone does it.

Two commands at a time are enough in `workspaces` and `projects`: every hazard there is
one command's stale knowledge of what another has done, and a third would only make the
knowledge older. Two branches, names and Podfiles are the least that can be confused.
One harm shows that a property survives every kind it does not name, and that what
follows a kill, at any call, is repaired by the commands that follow. In `podfiles`
three files are a nearest, a middle and a farthest one, `MaxDepth` = 2 so that a chain
can be too deep; only one field varies at a time, since no field of `Merge` reads
another. Ports are 1 to 4, with `Reach` 2, so that the search can meet taken ports, its
own end and the last port. In `server_setup` a run that is killed in the middle of a
restore, a second run, and its failure take three harms. Symmetry is used for the
processes, branches, names and Podfiles of `workspaces`, `projects` and `server_setup`,
which have no liveness property. Deadlock checking is off in every run because the
system really stops: everybody has left, no deadline is left to pass.

**Fairness** (`FairSpec`). Weak fairness of each connection's own steps (a
process that can run is scheduled; the wait for the lock is a poll that succeeds
once the lock stays free, and each connection takes it at most twice, so it
cannot be starved for ever); of each cleanup process, which the systemd timer
or `RunDaemon`'s ticker brings back; of deadlines. Not of hangups (a user may stay),
crashes, failures or stop commands. In `recovery` the wait for the lock has no
deadline, as in `spawn`, `run` and `shell`, so that `ConnectionsSettle` cannot
be met by giving up; and cleanup's own calls do not fail, since a daemon that
refuses every removal keeps its containers.

In `UserLock` every process is scheduled while it has something to do, the polling loop
included; attached users need not leave. In `Migration` a process that migrates goes on,
and is opened again after it failed: the cleanup timer opens the database every minute.
Nothing forces an interruption, and there are at most `Kills`. From versions 1, 2 and 4
`DatabaseOpens` excepts itself: from 1 and 2, two processes may drop each other's
sessions table and fail in turn for as long as both go on; from 4, an interrupted
upgrade cannot be completed at all (`RetryResumes`, finding 8).

`Podfiles` has weak fairness of `Resolve`, because `dev` is a sequential program; the
refresh of the cache may stop anywhere, also between `Truncate` and `Write`.
`Workspaces`, `Projects` and `ServerSetup` state no fairness: what they promise is
safety, and a command that hangs in git hangs.

In `Provisioning` processes go on with what they have begun and cleanup passes
come back; their own removals of orphans do not fail. Nobody has to log in or to
hang up.

Calls of connections may fail in `recovery`. Every property of a passing run has
a mutant of the code (`mutants` in `PROJECT.json`) that violates it: a lock taken
without waiting, a lock that survives its holder, an increment lost or repeated,
an off-by-one at the limit, a grace period not cancelled, a row taken back without
its checkout, an image built after its entry, a circle not noticed, and so on. Mutated
definitions stand before the original, commented as such, and are used by no
specification.

## 4. Findings

*Shown by TLC*, 1 and 2 by a run, 3 to 11 by the instances named:

1. *A cleanup pass removes the container of a session that is being created*
   (`cleanup_race`). `ReconcileOrphans` lists containers, then rows, and removes
   by id what it did not match; it never takes the user's lock, on which
   SECURITY.md:32 relies for "session state consistency". Listed before
   `CreateSession`, destroyed after the user was attached.
2. *A malformed volume leaves services behind* (`malformed_volume`). For a volume
   without a colon `StartServices` returns before `StopServices`, and without the
   ids. Its comment (podfile/services.go:13) promises that started services are
   removed. The network cannot be removed under them, and until a cleanup pass
   reaps them their names make every login fail.

3. *The loser of two creates removes the winner's checkout* (`two_creates`). Both find
   no workspace; git refuses the directory to the slower one, whose `os.RemoveAll`
   (session/workspaces.go:155) takes what the faster one has recorded. The one after a
   failed `CreateWorkspace` (workspaces.go:241) does the same. No fault is needed.
   docs/branch-workspaces/spec.md:211 says that such a create does not "mutate the old
   machine".
4. *switch-branch changes the checkout of a running machine* (`switch_race`). It looks
   for the container once, without the user's lock, and then runs git
   (cmd/switch_branch.go:103). docs/branch-workspaces/spec.md:95: "Refuse to touch a
   running machine." `rm` looks and removes in the same way (cmd/rm.go:73).
5. *A killed switch-branch leaves the workspace initialized* (`switch_killed`). The
   checkout, the branch, the flag and HEAD are changed in this order, each by a call of
   its own. docs/branch-workspaces/spec.md:98: "Mark the machine uninitialized so the
   next `create` or `shell` reruns `on_create`."
6. *The loser of two add-projects removes the winner's clone* (`two_adds`,
   cmd/add_project.go:42). The winner registers the project all the same, with an image
   and without a clone, so that README.md:187, "Register a project with Podfile", is not
   what happens. No fault is needed.
7. *update-project registers a project that was removed* (`update_and_remove`). It
   saves the whole file as it was when it loaded it (config/projects.go:40); the clone
   of the entry that it brings back is gone. cmd/update_project.go:29 refuses a
   project that is not registered. The same lost update may drop an entry.
8. *An interrupted upgrade from version 4 cannot be completed* (`interrupted_upgrade`).
   The version is written once, at the end. After the renaming of `machines`, the retry
   starts at version 4 again, does not find `machines.mode`, and fails to add it to a
   table that is gone. state.go:241 says that each step is guarded by a sentinel for
   that.
9. *It may lose the modes of workspaces* (`lost_modes`), if the process dies between
   adding and filling `machines.mode` (state.go:198): only the column is looked for.
   state_test.go:999 expects the modes.
10. *A shell is never inherited by a parsed file* (`inherited_shell`). `ParseRaw`
   (podfile/rawparse.go:74) gives every file the default "bash" before it is merged, so
   that the nearest file always sets the shell. podfile/merge.go:7 says that a scalar
   overrides "if non-zero", and resolve_test.go:63 expects the inherited shell, of a
   child that did not go through `ParseRaw`. The branches of repositories are the same.
11. *Two ports may get the same port of the host* (`same_port`). `findHostPort`
   (podfile/ports.go:82) asks whether something listens there, not what the same call
   has already given away; podfile/ports.go:15 promises the "next available" port. With
   8080 taken, an exposed 8080 and an exposed 8081 both become 8081.

*Observed while modelling, without a counterexample of TLC.* They are behaviour of the
modelled code; the properties above except the cases in question, or the instances
leave them out.

12. *max_lifetime does not hold back a reconnect.* `reconcileUser` looks at stale
   counts and grace periods only; the reconnected user is thrown out by the next
   cleanup pass. test/sshd/recovery_test.go:63 says a reconnect gets a new
   container; there, the grace period has ended too.
13. *A project's persistent mode is forgotten on reattach.* The mode is resolved only
   on the way to a new container. A reattached connection leaves with the configured
   mode and starts a grace period on the row; `reconcileUser` then destroys the
   session without looking at its mode. `PersistentKept` is checked with configured
   modes only.
14. *remove-user leaves a gap at its end.* It releases the lock, then unlinks the file
   and purges the home directory. A login that sshd accepted before the key went and
   that waits for the lock creates its session there, and keeps it.
   cmd/remove_user.go:37 says the lock prevents new sessions "during removal". A third
   process that comes after `Unlink` locks a new file: two are in the critical
   section, never three (theorem `TwoHoldersAtMost`).
15. *The temporary clone of a run outlives its session* if another command ended the
   session first: `Disconnect` finds no row and returns before it removes the clone
   (docs/branch-workspaces/spec.md:102 says that it is removed on normal teardown). In
   `Workspaces` this is `Leave` without a session.
16. *A pull may overtake another.* An update-project whose pull comes between the
   reading and the saving of another command on the project leaves that one's entry
   describing the older Podfile, until the later one saves its own. `EntryIsCurrent`
   excepts it as "moved".
17. *Removal and override differ.* An entry "!x" of packages drops what is inherited
   and leaves what the same file adds; one of services or repos drops both the
   inherited entry and the override beside it. `EntriesRight` leaves out a name that one
   file both drops and gives.
18. *server-setup may say complete without having reloaded sshd*: a run that finds the
   block of an earlier one, which stopped short of the reload, does not reload.
   `TakesEffect` excepts it.
19. *A kill during the restore leaves an empty sshd_config*, and a second run copies
   the empty file over the good copy (`SettingsKept` excepts it as "again").
   Overlapping runs with a conflicting include can leave a file that sshd refuses.
20. *docs/branch-workspaces/spec.md:201* describes a shell into a preserved workspace
   as a retry; the code refuses it (`RefusePreserved`) until create has revived
   it.

## 5. Proofs

`SessionLifecycleProofs` proves, for every number of connections, projects,
stop commands and cleanup passes, every limit, mode and set of events
(assumptions: `StoreAssumption`, `ConnectionAssumption`; finite `Conns` and
`Projects`):

| Theorem | States |
|---|---|
| `TypeCorrect` | `Spec => []TypeOK` |
| `ExclusiveInvariant`, `LockedKnowledgeHolds` | the inductive invariants |
| `RowsNameTheirContainers` | `Spec => []RowNamesItsContainer` |
| `GracePeriodsAreIdle` | `Spec => []GraceOnlyWhenIdle` |
| `SessionLimitHolds` | `Spec => []SessionLimit` |
| `CountsHaveConnections` | `Spec => []NoPhantomConnections` |

*The argument.* None of these is inductive. `Record` inserts a row if the
look-up many calls earlier found none, so `RowNamesItsContainer` needs `NoRowYet`
and `OwnContainer`, which need `LockHeld`; `SettleGrace` needs `IdleAtSettle`
(the count that RETURNING gave is still zero), `Join` needs `NoGraceAtJoin`.
`Exclusive` is their conjunction. It survives the processes without the lock for
one reason, stated once as `Fades`: they delete rows, remove containers and let
deadlines pass, and never add, replace or count anything. So `StopFades`,
`SweepFades` and `TimeFades` check each of their actions against `Fades`, and
`FadingKeepsExclusive` does the rest. Steps of connections are checked one
action at a time (`ConnectionKeepsExclusive`). The limit adds `RoomLeft`, by
cardinalities. `NoPhantomConnections` adds `Counted`: who has not arrived is
not a holder, and ids are unique over projects; `Join`, `Record` and `Drop` are
the only steps that count (`OthersKeepCounts`).

`LockedKnowledge` is the inductive invariant; TLC checked it on the instance of
`faults` before it was proved, and no run lists it any more.

Reference counting proper does not hold of every instance, and its theorems say of
which. `Alone` is their hypothesis, the one of the run `reference_counting`: no stop
command, no cleanup pass, no limit, and none of the failures after which a connection
gives up before it was counted, takes a dead container for alive, or ends a session
that others share. Kills, waits for the lock that time out in `Disconnect`, failing
removals and deadlines are in. `OnePersistence` says in addition that processes,
projects and their overrides agree on who is persistent (finding 13 is what happens
otherwise).

| Theorem | Assumes | States |
|---|---|---|
| `CountingHolds` | `Alone` | the inductive invariant `Referenced` |
| `CountsAreExact` | `Alone` | `Spec => []CountIsExact` |
| `AttachedConnectionsKeepTheirs` | `Alone` | `Spec => []AttachedKept` |
| `ConnectionsShareSessions` | `Alone` | `Spec => SharesSessions`: the connections implement `SharedSession` |
| `IdleSessionsAreLookedAfter` | `Alone`, `OnePersistence` | `Spec => []IdleSessionsExpire` |
| `PersistentSessionsStay` | `Alone`, `OnePersistence` | `Spec => PersistentKept` |

The invariant `Undisturbed` has two parts. `Held`: a counted connection's session is
the row of its project, with its own container. `Knows`: what a connection relies on
at each call; above all, it takes one off a count it has not raised only if there is
no row, because an orphaned container kept it from creating one (`Blocked`). With
`CountIsExact` itself, a count of zero means that nobody holds the session
(`IdleHasNoHolders`), so that whoever deletes the row or removes the container takes
nothing from anybody (`ConnectionKeepsHeld`). The same fact is the core of the
refinement: `Record` is `Open`, `Join` is `Join`, `Drop` is `Leave`, deleting a row is
an `End` that the abstract specification allows only when nobody shares the session
(`DeleteRefines`), and everything else is a stutter. `Persisting` adds who looks after
an idle session (`Looked`) and that a persistent one has a container and no deadline
(`Lasting`).

*Only model-checked:* liveness (`ConnectionsSettle`, `SessionsEnd`), which the
installed provers cannot reach.

`UserLockProofs` proves, for every number of logins, removers and projects
(`LockAssumption`), `MutualExclusion` (`ExclusiveWithKey`), `TwoHoldersAtMost`
(`TwoAtMost`) and `RemovalIsClean` (`RemovedWithoutSessions`) from the inductive
invariant `FileLock` (`FileLockInvariant`). Its parts: `Locked`, that who is inside
holds the flock of a file nobody else holds, is what the kernel guarantees and
says nothing about two files. `FirstFile` closes that gap: while the user has the
key the name means the file with number 1, and since `DropKey` succeeds once, one
remover unlinks, so that there are never more than two files. `Emptied`
follows a remover's knowledge of the sessions: nobody else can add one while the
key is there and the remover is inside.

`MigrationProofs` proves, for every number of processes, rows and interruptions
(`MigrationAssumption`), `TypeCorrect` and, through the inductive invariant
`SchemaKnown` (`SchemaStaysKnown`), `OpenedStoresAreCurrent`. A process acts on a
version and on checks that are long past; `KnownTo` says what they still tell of the
schema. That they do rests on monotonicity: from versions other than 1 and 2, no
statement takes a column away, except that the renaming moves those of `machines`.
`StampKnown` is the same for a version that a later process will read, in particular the
0 that it reads between `Consolidate`'s two statements. `UpgradedRowsComplete`
(`UpgradedRows`) is about the rows that are there after an upgrade from any version:
they have their ids and their links. It says nothing of modes, which an interrupted
upgrade from version 4 loses (finding 9), nor of the sessions that versions 1 and 2
drop. Its inductive invariant is `RowsKnown` (`RowsStayKnown`). `Filled` is the idea of
the code, a column only together with its values, stated for each column but the mode;
the guard of each `ALTER TABLE` is the column, so an upgrade that is started again skips
what is filled. `Recreated` is the exception of versions 1 and 2, whose sessions get
both columns by being dropped and created anew, which a process that is past it may rely
on. `DatabaseOpens` and `RetryResumes`, which are liveness, are left to TLC.

`ProvisioningProofs` proves, for every number of logins, services, processes and
harmful events (`ProvisioningAssumption`, `NoneAssumption`), `TypeCorrect`,
`EnvironmentIsOwn` (`OwnEnvironment`) and, if no volume is malformed,
`WholeSessions` (`WholeOrNothing`). Neither property is inductive: a login knows
at `Record` only what it did many calls before. `Made` says
what each login has made at each of its calls, and that it is still as it made
it; `LockHeld` that only the holder of the lock is between `Acquire` and its
release or in a roll-back, as long as nobody acts without it, so that nobody
else touches what is made (`MadeFrame`, `LoginMade`, `OthersMade`).
`OwnInvariant` is their conjunction and survives crashes, as the names that are
in use keep a login from creating, never from owning. `WholeInvariant` adds
`NothingElse`: whatever exists and the holder has not made is what it is about
to remove. Its core are `GivesUp`, that each error return removes exactly what
had been made by then, and `UndoNext`, that the network is free of running
containers when its turn comes. That `Malformed = {}` is needed is finding 2.
`OrphansGo` is model-checked only.

`ProjectsProofs` proves, for any commands, names, Podfiles, overlaps and harms
(`ProjectsAssumption`, `NoneAssumption`), `ImagesOfEntries` (`ImageOfEntry`) and
`TypeCorrect`, which needs more than types: `Build` and `Save` put `name[p]` and
`read[p]` to use, so `Knowledge` says at which calls a command has them. The
argument for `ImageOfEntry` survives lost updates: images only grow, `LoadedIsBuilt`
says that whatever a command has loaded was built when it was loaded, and the one
entry that it changes it saves after its own build.

`ClonesOfEntries` (`CloneOfEntry`) and the action property `EntriesAreCurrent`
(`EntryIsCurrent`) are about histories without the collisions that they name; kills and
failures are in. They rest on `ClonesInvariant`: an add-project works on a name that was
free when it loaded the file (`Adding`), and what it has not finished is not complete
(`Incomplete`); as long as no command has removed a clone that another uses
(`Unbroken`), whoever has read a Podfile still has its clone (`Working`); without lost
updates besides (`Kept`), so has every entry (`Registered`); without overlapping pulls
(`Steady`), what a command builds and saves is still what its clone contains
(`Reading`), so that a command that returns has saved, or compared, the current Podfile
(`DoneIsCurrent`). Nothing else holds commands apart: `RemovedClone` shows that whoever
removes a clone that another needs is on record.

`ServerSetupProofs` proves, for any number of commands and harms
(`ServerSetupAssumption`), everything that `server_setup` checks:
`FailedSetupsLeaveSshd`, `SettingsAreKept` and `CompleteTakesEffect`, each with the
exceptions of its property (kills for the first, overlaps for all), from an inductive
invariant of five parts (`InvariantHolds`). `OneAtATime`: without an overlap, one
command at most is between its first and its last call. `Startable`: sshd_config is
valid except between the append and the end of the restore, and what is restored is
valid. `Preserved`: at each call, the file or its copy or what the command holds in
memory has every setting, in particular the copy while the file is empty.
`Effective`: what the calls that are done have achieved. `DataRead`: the memory is
there at the calls that write it; `TypeCorrect` needs it.

`WorkspacesProofs` proves, for any number of commands, branches, overlaps and harms
(`WorkspacesAssumption`, `NoneAssumption`), `TypeCorrect`, `CheckoutsOfRows`
(`CheckoutOfRow`) and `FilesOfSessions` (`FilesOfSession`), from an inductive invariant
(`InvariantHolds`) that TLC checked on the instance of `workspaces` first. `Remembered`
is what a command has in memory, whatever happens. `Knowledge` is what that memory is
worth as long as no command acted on what another was using, kills included: that a
create about to insert the row has the checkout for it (`Cloning`, `Unfinished`), that a
switch-branch or rm is the only command to know of the workspace (`Alone`), that a
directory which a create removes belongs to no row (`Foreign`), and that the row a
command works on is still there (`Rowed`). The mutual exclusion in `Alone` comes from no
lock: it says that every interleaving without it is one of the collisions on record.
`Mounted` adds what `FilesOfSession` needs: the checkout under a running session has its
row, and nobody is past the point where rm looks for the container; `Temporary` is the
same for a run's clone, and needs no exception. `Consistent` relates row and checkout,
also between git and the row (`Between`, `Backed`, `Owned`); a switch-branch or rm that
is killed between its steps, or an rm that fails in the removal, breaks it (`Untorn`),
and a create that is killed leaves a checkout without a row, so that `Owned` needs
`Unkilled` as well. Most steps are calm (`CalmKeepsKnowledge`): they leave which row and
which checkout there are, and take no part in the critical calls. `WorkspacesAssumption`
has the kinds of commands pairwise disjoint.

`InitializedAreReady` (`InitializedIsReady`) and the action property `OnCreateRunsOnce`
(`OnCreateOnce`) rest on `ReadyInvariant`, which adds to this what on_create needs.
`Prepared` is again what a command has in memory. `Readiness` holds as long as no command
was acted upon or cut off within switch-branch and rm (`Calm`), with kills and failures
of all others; only its parts that speak of a missing mark, on which `OnCreateOnce`
rests, need that there was no harm at all:
whoever runs on_create does so in the session that it has provisioned (`Hooked`); a
mark says what is true of the checkout, and a ready checkout without a mark has
somebody on the way to set it (`Marked`); a HEAD is of the row's branch (`Captured`);
and whoever read the row before the mark was set meets the session that set it and
joins it, instead of running the hook again (`Unaware`). Again most steps are quiet
(`QuietSteps`).

`PodfilesProofs` proves, for every depth, registry, Podfile and range of ports
(`PodfilesAssumption`, `DefaultsAssumption`, `ProblemsAssumption`, `PortsAssumption`),
`TypeCorrect`, `AnswersAreRight` (`AnswerIsRight`), `MergedIsRight` (`MergedRight`) and
`PortsAreAsPromised` (`PortsAsPromised`). The library's induction theorems take an
operator, which the provers cannot instantiate. Induction over a *set* needs none: a set
of numbers that is not empty has a least one (`LeastExists`, from `WFMin`), hence
`Induction`, and hence the existence of each recursive function (`IterationExists`),
without which its `CHOOSE` says nothing. On that rest what the operators compute:
`UniqueIsList`, `PortListIsAsked`, `MergeChainSteps`, and `BindingsArePromised`, which
is all there is to the ports. The chain needs an invariant: the files so far extend
different references, as many as have been visited (`ChainKnown`), the answer is about
the last of them (`AnswerKnown`), a file of the cache that has been rewritten never
becomes what it was again (`CacheKnown`), and as long as none has been, the chain is the
way that extends leads (`WalkKnown`). `AnswerIsRight` then follows from three facts
about that way: it stays where it ends (`WalkStays`), it never ends once it comes to a
reference again (`WalkCycles`), and a chain that is too deep has used up its length.

*Merged Podfiles.* `MergedRight` says of each value which files decide it;
`MergeChain` says how to compute it, from the last file to the first. `MergingExists`
gives the Podfile that has been merged at each level of the chain, and `Descent` is
induction over the levels, downwards: what holds at the last file and is carried by
every merge holds of the Podfile.

- The scalars, the environment, the hooks and the commands are decided by the nearest
  file of a set (`NearestIsLeast`), which a merge either adds a file to or leaves
  alone (`ScalarsAreRight`, `EnvIsRight`, `AppendedIsRight`); exposed ports are the
  union (`ExposeIsRight`).
- The packages need what the lists compute: `Keep`, `Unique` and `\o`, entry by entry
  (`KeepAppend`, `UniqueAppend`, `ConcatAppend`) by induction over lists
  (`ListInduction`). The set of a list alone does not do, for `PackagesRight` speaks
  of the order. Its invariant, at each level, is that a package is in the list if and
  only if some file from there on brings it and none between drops it, and that the
  furthest such file falls along the list (`Falling`, `MergedLevel`): what is
  inherited comes first, and `Unique` leaves a package that is brought again where it
  was.
- A service or a repository is in the Podfile if and only if a file gives its name before
  one that drops it (`EntriesAreRight`, by `EntriesKept` from level to level). A
  repository has the path of the nearest of these files that gives one, and the branch
  of the nearest of them (`ReposAreRight`); a service is taken from the nearest whole
  (`ServicesAreRight`). They rest on what one merge does to the entries of a name
  (`JoinedEntries`, `Overridden`, `MergedLives`).

The shell is proved to be that of the first file: `ParseRaw` has set it in every file
before the merge. That it is not inherited is finding 10. A port's host port is the
*next* free one, and free of what the host had in use before the call (finding 11).

`Answers` is liveness, which TLC checks.

## 6. Plan

Each component gets its MC module, configurations and mutants.

Done: sessions (`SessionLifecycle`), their lock (`UserLock`), the upgrade of their
database (`Migration`), what they consist of (`Provisioning`), what they work in
(`Workspaces`), and what comes before them (`Projects`, `Podfiles`, `ServerSetup`).
All safety properties that the runs check are proved, some of them under the
conditions that section 5 states (`Alone`, `OnePersistence`) and with the exceptions
that the properties name;
liveness stays with TLC. Next:

1. What happens to the reference counts when connections are not alone: which of the
   theorems under `Alone` survive one cleanup pass, and which steps of it break the
   others.
2. The remaining steps of the liveness arguments that are safety: the measures that
   fall with every step of `dev` and of an upgrade (`Answers`, `DatabaseOpens`), as
   action properties.

## 7. Not modelled

- *Session listing* joins two reads and prints them; nothing relies on it later.
- *add-user and auth-keys* write and read one key file each. *Policy, identity,
  audit, metrics* decide without state or append to a log. *Doctor* and the *dry
  run* of server-setup look and report.
- *Client commands* (SSH client configuration, terminal output) are I/O around
  OpenSSH, as are image builds, exec streams and port forwarding.
- Inside modelled parts: the parsing and validation of Podfiles, the fetching of
  references from GitHub, the contents of images, a podspawn that meets a database
  newer than itself; in `Workspaces` and `Projects`, a roll-back whose own
  `os.RemoveAll` fails, and store statements that fail, other than the one that sets
  the initialized flag.
