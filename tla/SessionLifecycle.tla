-------------------------- MODULE SessionLifecycle --------------------------
(***************************************************************************)
(* The sessions of one user: connections that attach and leave under the   *)
(* user's file lock, and stop commands and cleanup passes that take no     *)
(* lock, over one SQLite table and one Docker daemon, with crashes,        *)
(* timeouts and failing calls as far as Events allows them.                *)
(***************************************************************************)
EXTENDS Connection, SessionEnders

vars == <<storeVars, connVars, enderVars>>

Init == StoreInit /\ ConnInit /\ EnderInit

ConnStep(c) == (Advance(c) \/ Hangup(c) \/ Crash(c)) /\ UNCHANGED enderVars

EnderStep ==
    /\ \/ \E s \in Stoppers : StopStep(s)
       \/ \E d \in Cleaners : SweepStep(d)
    /\ UNCHANGED connVars

Deaths ==
    /\ Can("enderCrash")
    /\ \/ \E s \in Stoppers : StopperDies(s)
       \/ \E d \in Cleaners : CleanerDies(d)
    /\ UNCHANGED connVars

Deadlines(p) ==
    /\ \/ Can("grace") /\ GracePeriodEnds(p)
       \/ Can("lifetime") /\ LifetimeEnds(p)
    /\ UNCHANGED <<connVars, enderVars>>

Vanishing(p) ==
    /\ Can("vanish")
    /\ ContainerVanishes(p)
    /\ UNCHANGED <<connVars, enderVars>>

Next ==
    \/ \E c \in Conns : ConnStep(c)
    \/ EnderStep
    \/ Deaths
    \/ \E p \in Projects : Deadlines(p) \/ Vanishing(p)

Spec == Init /\ [][Next]_vars

(***************************************************************************)
(* What the operating system, the ticker or timer of the cleanup passes    *)
(* and the clock guarantee: a process that can take a step of its own      *)
(* takes one, a pass goes on and comes back, and deadlines are reached.    *)
(* Nothing makes a user leave, stop a session or a process crash.  A wait  *)
(* for the lock polls it every 50 ms; each connection takes the lock at    *)
(* most twice, so weak fairness is enough for it.                          *)
(***************************************************************************)
Fairness ==
    /\ \A c \in Conns : WF_vars(Advance(c) /\ UNCHANGED enderVars)
    /\ \A d \in Cleaners : WF_vars(SweepStep(d) /\ UNCHANGED connVars)
    /\ \A p \in Projects : WF_vars(Deadlines(p))

FairSpec == Spec /\ Fairness

-----------------------------------------------------------------------------
(* Type invariant: every variable of the composed system has its type.     *)
TypeOK == StoreTypeOK /\ ConnTypeOK /\ EnderTypeOK

\* c is between lock.Acquire and the release of the lock.
InCritical(c) ==
    \/ pc[c] \in LockedSteps
    \/ pc[c] \in DestroySteps /\ after[c] # "leave"

Holders(p) == {c \in Conns : HasRow(p) /\ att[c] = row[p].id}

(* With every event, stops and cleanup passes at any moment, a row and a   *)
(* container of the same name belong together: nobody's shell is opened in *)
(* a container that another session's row describes (spawn.go: containers  *)
(* are created and recorded by name, two calls apart, while the unlocked   *)
(* DestroySession removes both by name).                                   *)
RowNamesItsContainer ==
    \A p \in Projects : HasRow(p) /\ box[p] # None => row[p].id = box[p]

(* resources.max_per_user bounds the sessions of a user over all projects, *)
(* although the check and the insert are several calls apart.              *)
SessionLimit ==
    MaxPerUser > 0 => Cardinality(ListSessionsByUser) <= MaxPerUser

(* A count never exceeds the connections that took part in the session and *)
(* have not been subtracted, those of killed processes included.           *)
NoPhantomConnections ==
    \A p \in Projects : HasRow(p) => row[p].conns <= Cardinality(Holders(p))

(* A grace period never runs on a session somebody counts on: Disconnect   *)
(* starts it two calls after the count reached zero, and a reattach stops  *)
(* it one call before the count grows.                                     *)
GraceOnlyWhenIdle ==
    \A p \in Projects : HasRow(p) /\ row[p].grace # "none" => row[p].conns = 0

-----------------------------------------------------------------------------
(* What makes these invariants inductive: what a connection knows of the   *)
(* table and of Docker while it holds the lock, although DestroySession    *)
(* and cleanup passes go on without it.                                    *)

\* Mutual exclusion of the connections.
LockHeld == \A c \in Conns : InCritical(c) => lock = c

\* The look-up that found no row still holds when the row is inserted.
NoRowYet ==
    \A c \in Conns : pc[c] \in {"admit", "create", "boot", "record"} => ~HasRow(proj[c])

\* Nobody else's container takes the place of the one being provisioned.
OwnContainer ==
    \A c \in Conns : pc[c] \in {"boot", "record"} => box[proj[c]] \in {c, None}

\* The check against max_per_user still holds when the row is inserted.
RoomLeft ==
    MaxPerUser > 0 => \A c \in Conns : pc[c] \in {"create", "boot", "record"} =>
        Cardinality(ListSessionsByUser) < MaxPerUser

\* The count that RETURNING gave is still zero when the grace period starts.
IdleAtSettle ==
    \A c \in Conns : pc[c] = "settle" /\ HasRow(proj[c]) => row[proj[c]].conns = 0

\* The status that GetSession returned is still the row's when it is joined.
NoGraceAtJoin ==
    \A c \in Conns :
        /\ HasRow(proj[c])
        /\ pc[c] = "join" \/ (pc[c] = "inspect" /\ saw[c] = "none")
        => row[proj[c]].grace = "none"

Exclusive ==
    /\ TypeOK
    /\ LockHeld
    /\ NoRowYet
    /\ OwnContainer
    /\ RowNamesItsContainer
    /\ IdleAtSettle
    /\ NoGraceAtJoin
    /\ GraceOnlyWhenIdle

(* Whatever a connection found out under the lock still holds when it acts *)
(* on it, with any failure, stop command and cleanup pass in between: the  *)
(* processes that take no lock only delete and remove.                     *)
LockedKnowledge == Exclusive /\ RoomLeft /\ SessionLimit

-----------------------------------------------------------------------------
(* What makes NoPhantomConnections inductive.                              *)

\* c has yet to be counted: it waits for the lock, or is in ensureContainerWithState.
Arriving(c) ==
    \/ pc[c] \in {"start", "reconcile", "expiry", "lookup", "inspect", "forget",
                   "cancel", "join", "admit", "create", "boot", "record"}
    \/ pc[c] \in DestroySteps /\ after[c] \in {"expiry", "lookup"}

Counted ==
    /\ \A c \in Conns : Arriving(c) => att[c] = None
    /\ \A c \in Conns : att[c] # None => proj[att[c]] = proj[c]
    /\ \A p \in Projects : HasRow(p) => proj[row[p].id] = p
    /\ NoPhantomConnections

-----------------------------------------------------------------------------
(* The rest of the safety properties are about runs in which connections   *)
(* are the only ones to end sessions.                                      *)

(* The connection count is the number of connections sharing the session,  *)
(* those of killed processes included: no interleaving of attaching and    *)
(* leaving loses or repeats one.                                           *)
CountIsExact ==
    \A p \in Projects : HasRow(p) => row[p].conns = Cardinality(Holders(p))

(* An attached connection keeps its session and its container, whoever     *)
(* else leaves the session, crashes or lets its grace period run out.      *)
AttachedKept ==
    \A c \in Conns : pc[c] \in {"hooks", "attached"} =>
        HasRow(proj[c]) /\ row[proj[c]].id = att[c] /\ box[proj[c]] = att[c]

(* A session that everybody has left is not forgotten: once the lock is    *)
(* free, its grace period runs, unless the process that was to start it    *)
(* was killed between the decrement and SetGracePeriod.                    *)
IdleSessionsExpire ==
    \A p \in Projects :
        lock = None /\ StaleZeroConnections(p) =>
            \E c \in Conns : proj[c] = p /\ pc[c] = "crashed"

(* A persistent session outlives every disconnect (spawn.go: "persistent   *)
(* session, container stays alive").                                       *)
PersistentKept ==
    [][\A p \in Projects :
        HasRow(p) /\ row[p].mode = "persistent" => HasRow(p)' /\ box'[p] = box[p]]_vars

(* The connections of a user share sessions as SharedSession promises.     *)
Shared == INSTANCE SharedSession WITH
    session <- [p \in Projects |-> IF HasRow(p) THEN row[p].id ELSE None],
    users <- [p \in Projects |-> Holders(p)]

SharesSessions == Shared!Spec

-----------------------------------------------------------------------------
(* A connecting process gets its shell or ends, whatever happens to those  *)
(* that hold the lock before it.                                           *)
ConnectionsSettle ==
    \A c \in Conns :
        pc[c] \notin {"attached", "done", "crashed"} ~>
            pc[c] \in {"attached", "done", "crashed"}

(* Every session that is not persistent ends, even one whose count leaked  *)
(* with a killed process or whose users never leave (max_lifetime).        *)
SessionsEnd ==
    \A p \in Projects, i \in Conns :
        (HasRow(p) /\ row[p].id = i /\ row[p].mode # "persistent")
            ~> ~(HasRow(p) /\ row[p].id = i)
=============================================================================
