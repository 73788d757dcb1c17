---------------------------- MODULE SessionStore ----------------------------
(***************************************************************************)
(* The state that every podspawn process shares about the sessions of one  *)
(* user: the rows of the SQLite table "sessions" (internal/state) and the  *)
(* session containers known to Docker (internal/runtime).                  *)
(*                                                                         *)
(* A session is keyed by (user, project); with one user, by its project.   *)
(* Container names are a function of the same key (spawn.containerName),   *)
(* so a project has at most one container of that name at a time.  Session *)
(* ids and container ids are random in the code; here both are the         *)
(* connection that created them, and a connection creates at most one.     *)
(*                                                                         *)
(* Each operator below is one SQL statement or one Docker call, which      *)
(* SQLite and the Docker daemon make atomic.  Wall-clock time is kept as   *)
(* the two comparisons the queries make with it: "grace_expiry < now" and  *)
(* "max_lifetime < now".  Networks and service containers follow the       *)
(* container they belong to and are left to the provisioning model.        *)
(***************************************************************************)
EXTENDS Naturals, Integers, FiniteSets

CONSTANTS
    Conns,      \* connections: processes running spawn.Session
    Projects,   \* the projects this user connects to
    Events,     \* what the environment may do, out of KnownEvents
    None        \* no row, no container, nobody

(* "crash": the process of a connection dies, and the kernel drops its     *)
(* flock;  "enderCrash": a stop command or a cleanup pass dies;            *)
(* "runTimeout": the ten minutes of podspawn create and dev pass while     *)
(* they wait for the lock (the other commands wait without limit);         *)
(* "leaveTimeout": the ten seconds of Disconnect pass likewise;  "call": a *)
(* store or Docker call of a connection fails;  "enderCall": one of a stop *)
(* command or a cleanup pass fails;  "inspect": ContainerExists fails;     *)
(* "remove": RemoveContainer fails;  "hook": a fatal on_create fails;      *)
(* "grace", "lifetime": time passes;  "vanish": a container goes away.     *)
KnownEvents == {"crash", "enderCrash", "runTimeout", "leaveTimeout", "call", "enderCall",
                "inspect", "remove", "hook", "grace", "lifetime", "vanish"}

Can(event) == event \in Events

Modes == {"grace-period", "destroy-on-disconnect", "persistent"}

(* id: sessions.id, equal to container_id; conns: connections; grace:      *)
(* status with grace_expiry ("none" is running with NULL, "open" a future  *)
(* expiry, "over" a past one); overdue: max_lifetime has passed.           *)
Session ==
    [id : Conns, conns : Nat, grace : {"none", "open", "over"},
     overdue : BOOLEAN, mode : Modes]

ASSUME StoreAssumption ==
    /\ Events \subseteq KnownEvents
    /\ None \notin Conns
    /\ None \notin Projects \cup Session
    /\ IsFiniteSet(Conns)
    /\ IsFiniteSet(Projects)

VARIABLES
    row,        \* [Projects -> Session \cup {None}]
    box         \* [Projects -> Conns \cup {None}]: creator of the container

storeVars == <<row, box>>

StoreTypeOK ==
    /\ row \in [Projects -> Session \cup {None}]
    /\ box \in [Projects -> Conns \cup {None}]

StoreInit ==
    /\ row = [p \in Projects |-> None]
    /\ box = [p \in Projects |-> None]

HasRow(p) == row[p] # None

ListSessionsByUser == {p \in Projects : HasRow(p)}

-----------------------------------------------------------------------------
(* Statements on the sessions table.                                       *)

CreateSession(p, c, m) ==
    row' = [row EXCEPT ![p] = [id |-> c, conns |-> 1, grace |-> "none",
                               overdue |-> FALSE, mode |-> m]]

\* Mutant: the increment is lost, as in a read-modify-write without RETURNING.
UpdateConnectionsLost(p, delta) ==
    row' = [row EXCEPT ![p].conns = IF delta > 0 /\ @ > 0 THEN @ ELSE @ + delta]

\* Mutant: the count is not kept from going below zero.
UpdateConnectionsUnclamped(p, delta) == row' = [row EXCEPT ![p].conns = @ + delta]

\* MAX(0, connections + delta); the caller sees to it that the row exists.
UpdateConnections(p, delta) ==
    row' = [row EXCEPT ![p].conns = IF @ + delta > 0 THEN @ + delta ELSE 0]

SetGracePeriod(p) ==
    row' = [row EXCEPT ![p] = IF HasRow(p) THEN [@ EXCEPT !.grace = "open"] ELSE @]

CancelGracePeriod(p) ==
    row' = [row EXCEPT ![p] = IF HasRow(p) THEN [@ EXCEPT !.grace = "none"] ELSE @]

DeleteSession(p) == row' = [row EXCEPT ![p] = None]

\* Nobody acts on the error of a deletion that ends DestroySession.
TryDeleteSession(p, failure) == DeleteSession(p) \/ (Can(failure) /\ UNCHANGED row)

ExpiredGracePeriods ==
    {p \in Projects : HasRow(p) /\ row[p].grace = "over" /\ row[p].mode # "persistent"}

ExpiredLifetimes ==
    {p \in Projects : HasRow(p) /\ row[p].overdue /\ row[p].mode # "persistent"}

\* Mutant: persistent sessions are not exempt.
StaleZeroConnectionsAnyMode(p) ==
    HasRow(p) /\ row[p].conns = 0 /\ row[p].grace = "none"

StaleZeroConnections(p) ==
    /\ HasRow(p)
    /\ row[p].conns = 0
    /\ row[p].grace = "none"
    /\ row[p].mode # "persistent"

-----------------------------------------------------------------------------
(* Docker calls on the container of a session.                             *)

\* Docker refuses a second container of the same name.
CreateContainer(p, c) ==
    /\ box[p] = None
    /\ box' = [box EXCEPT ![p] = c]

RemoveContainer(p) == box' = [box EXCEPT ![p] = None]

\* DestroySession and the roll-backs only log a removal that fails.
TryRemoveContainer(p) == RemoveContainer(p) \/ (Can("remove") /\ UNCHANGED box)

-----------------------------------------------------------------------------
(* Time passes, and containers go away on their own.                       *)

GracePeriodEnds(p) ==
    /\ HasRow(p)
    /\ row[p].grace = "open"
    /\ row' = [row EXCEPT ![p].grace = "over"]
    /\ UNCHANGED box

LifetimeEnds(p) ==
    /\ HasRow(p)
    /\ ~row[p].overdue
    /\ row' = [row EXCEPT ![p].overdue = TRUE]
    /\ UNCHANGED box

\* Removed behind podspawn's back: docker rm, a daemon reset, a pruned host.
ContainerVanishes(p) ==
    /\ box[p] # None
    /\ RemoveContainer(p)
    /\ UNCHANGED row
=============================================================================
