---------------------------- MODULE Provisioning ----------------------------
(***************************************************************************)
(* What a session of one user and project consists of in Docker (its       *)
(* container, the containers of the Podfile's services, the network that   *)
(* joins them) and in the store (its row), and how it comes and goes one   *)
(* call at a time: resolveProject, StartServices and the rest of           *)
(* ensureContainerWithState, their roll-backs, DestroySession, the orphan  *)
(* search of cleanup, and logins without a store.                          *)
(*                                                                         *)
(* Containers are named 0 (the session) and 1..Services.  Names are in use *)
(* once at a time; an id is the process that created the thing, as no      *)
(* process creates two of a name.  Who is the last to leave, and when a    *)
(* session has expired, is left open here: see Connection.                 *)
(***************************************************************************)
EXTENDS Naturals

CONSTANTS
    Logins,     \* processes running spawn.Session with a store
    Legacy,     \* processes running it without: state.Open failed
    Stoppers,   \* stop and down commands, and expiries found by cleanup
    Cleaners,   \* processes running cleanup.ReconcileOrphans
    Services,   \* how many services the Podfile has
    Malformed,  \* those with a volume that is not source:target
    Harms,      \* how many crashes, failed removals and acts without the lock
    None

Procs == Logins \cup Legacy \cup Stoppers

ASSUME ProvisioningAssumption ==
    /\ Services \in Nat
    /\ Harms \in Nat
    /\ Malformed \subseteq 1..Services
    /\ Logins \cap (Legacy \cup Stoppers) = {}
    /\ Legacy \cap Stoppers = {}

Names == 0..Services

\* What there is to remove, in the order in which it is: the containers, the
\* network and the row.
Network == Services + 1
Row == Services + 2
Everything == 0..Row

Container == [by : Logins \cup Legacy, net : Logins \cup {None}, up : BOOLEAN]
Session == [by : Logins, net : Logins]

ASSUME NoneAssumption == None \notin Procs \cup Container \cup Session

VARIABLES
    net,        \* creator of the user's network, or None
    box,        \* the container of each name, or None
    row,        \* the session's row, or None
    lock,       \* holder of the user's lock
    pc,         \* next call of each process
    at,         \* the service that a process is at, or 0
    ref,        \* the session a process provisions or destroys
    todo,       \* what a process still has to remove of it
    back,       \* where it goes on after that
    sweep,      \* phase of each cleanup pass
    seen,       \* containers that the pass has listed, by name and id
    harm,       \* history: "debris" is left, or a "race" was on
    left        \* how often that may still happen

docker == <<net, box>>
procVars == <<pc, at, ref, todo, back>>
sweepVars == <<sweep, seen>>
harmVars == <<harm, left>>
vars == <<docker, row, lock, procVars, sweepVars, harmVars>>

Provisions == {"network", "resolve", "service", "startService", "box", "boot", "record"}
Inside == {"lookup", "get", "inspect", "forget", "settle"} \cup Provisions
Outside == {"start", "attached", "leave", "done", "crashed"}

TypeOK ==
    /\ net \in Logins \cup {None}
    /\ box \in [Names -> Container \cup {None}]
    /\ row \in Session \cup {None}
    /\ lock \in Logins \cup {None}
    /\ pc \in [Procs -> Inside \cup Outside \cup {"undo"}]
    /\ at \in [Procs -> 0..Services]
    /\ ref \in [Procs -> Session \cup {None}]
    /\ todo \in [Procs -> SUBSET Everything]
    /\ back \in [Procs -> {"get", "leave", "done"}]
    /\ sweep \in [Cleaners -> {"idle", "match", "reap"}]
    /\ seen \in [Cleaners -> SUBSET (Names \X (Logins \cup Legacy))]
    /\ harm \subseteq {"debris", "race"}
    /\ left \in 0..Harms

Init ==
    /\ net = None
    /\ box = [k \in Names |-> None]
    /\ row = None
    /\ lock = None
    /\ pc = [p \in Procs |-> "start"]
    /\ at = [p \in Procs |-> 0]
    /\ ref = [p \in Procs |-> None]
    /\ todo = [p \in Procs |-> {}]
    /\ back = [p \in Procs |-> "done"]
    /\ sweep = [d \in Cleaners |-> "idle"]
    /\ seen = [d \in Cleaners |-> {}]
    /\ harm = {}
    /\ left = Harms

Goto(p, from, to) ==
    /\ pc[p] = from
    /\ pc' = [pc EXCEPT ![p] = to]

\* Remove things of session s, then go on at return.
Remove(p, from, s, things, return) ==
    /\ Goto(p, from, "undo")
    /\ ref' = [ref EXCEPT ![p] = s]
    /\ todo' = [todo EXCEPT ![p] = things]
    /\ back' = [back EXCEPT ![p] = return]
    /\ at' = [at EXCEPT ![p] = 0]

\* Something happens that the lock does not cover or a roll-back does not repair.
Harm(kind) ==
    /\ left > 0
    /\ left' = left - 1
    /\ harm' = harm \cup {kind}

Exists(k) == box[k] # None

-----------------------------------------------------------------------------
(* Docker.                                                                 *)

\* The daemon refuses a name that is in use.
CreateContainer(k, p, n) ==
    /\ ~Exists(k)
    /\ box' = [box EXCEPT ![k] = [by |-> p, net |-> n, up |-> FALSE]]

\* The one that p created, and its network must still be there.
StartContainer(k, p) ==
    /\ Exists(k)
    /\ box[k].by = p
    /\ box[k].net \in {None, net}
    /\ box' = [box EXCEPT ![k].up = TRUE]

RemoveName(k) == box' = [box EXCEPT ![k] = None]

RemoveId(k, p) == IF Exists(k) /\ box[k].by = p THEN RemoveName(k) ELSE UNCHANGED box

\* Refused while a container runs on it.
RemoveNetwork(n) ==
    LET busy == \E k \in Names : Exists(k) /\ box[k].up /\ box[k].net = n
    IN  net' = IF net = n /\ ~busy THEN None ELSE net

-----------------------------------------------------------------------------
(* Removing what there is of a session: DestroySession, and the roll-backs *)
(* of StartServices and ensureContainerWithState.                          *)

\* The session's container goes by name, the rest by id, the row by its key.
RemoveThing(s, x) ==
    /\ IF x = 0 THEN RemoveName(0)
       ELSE IF x \in 1..Services THEN RemoveId(x, s.by) ELSE UNCHANGED box
    /\ IF x = Network THEN RemoveNetwork(s.net) ELSE UNCHANGED net
    /\ row' = IF x = Row THEN None ELSE row

Undo(p) ==
    \E x \in todo[p] :
        /\ pc[p] = "undo"
        /\ \A y \in todo[p] : x <= y
        /\ todo' = [todo EXCEPT ![p] = @ \ {x}]
        /\ RemoveThing(ref[p], x)
        /\ UNCHANGED <<lock, pc, at, ref, back, sweepVars, harmVars>>

\* A call that fails is logged at most, and the next one follows.
UndoFails(p) ==
    \E x \in todo[p] :
        /\ pc[p] = "undo"
        /\ \A y \in todo[p] : x <= y
        /\ todo' = [todo EXCEPT ![p] = @ \ {x}]
        /\ Harm("debris")
        /\ UNCHANGED <<docker, row, lock, pc, at, ref, back, sweepVars>>

\* Whoever holds the lock lets go of it, except in reconcileUser.
Undone(p) ==
    /\ todo[p] = {}
    /\ Goto(p, "undo", back[p])
    /\ lock' = IF lock = p /\ back[p] # "get" THEN None ELSE lock
    /\ ref' = [ref EXCEPT ![p] = None]
    /\ back' = [back EXCEPT ![p] = "done"]
    /\ UNCHANGED <<docker, row, at, todo, sweepVars, harmVars>>

-----------------------------------------------------------------------------
(* A login: the session that is there, or else a new one.                  *)

Acquire(l) ==
    /\ lock = None
    /\ \/ Goto(l, "start", "lookup") \/ Goto(l, "leave", "settle")
    /\ lock' = l
    /\ UNCHANGED <<docker, row, at, ref, todo, back, sweepVars, harmVars>>

Step(l, from, to) ==
    /\ Goto(l, from, to)
    /\ UNCHANGED <<row, lock, at, ref, todo, back, sweepVars, harmVars>>

Release(l, from, to) ==
    /\ Goto(l, from, to)
    /\ lock' = None
    /\ UNCHANGED <<docker, row, at, ref, todo, back, sweepVars, harmVars>>

\* reconcileUser, which may find that the session has expired.
Reconcile(l) ==
    /\ row # None
    /\ Remove(l, "lookup", row, Everything, "get")
    /\ UNCHANGED <<docker, row, lock, sweepVars, harmVars>>

\* GetSession, after reconcileUser found nothing or removed what it found.
LookUp(l) ==
    \E from \in {"lookup", "get"} :
        /\ Step(l, from, IF row = None THEN "network" ELSE "inspect")
        /\ UNCHANGED docker

\* A container that cannot be inspected is taken to be there.
Reattach(l) == Release(l, "inspect", "attached")

Stale(l) ==
    /\ ~Exists(0)
    /\ Step(l, "inspect", "forget")
    /\ UNCHANGED docker

\* "stale session, container gone": only its row goes.
Forget(l) ==
    /\ Goto(l, "forget", "network")
    /\ row' = None
    /\ UNCHANGED <<docker, lock, at, ref, todo, back, sweepVars, harmVars>>

\* A network of that name is used again.
CreateNetwork(l) ==
    /\ Goto(l, "network", "resolve")
    /\ net' = IF net = None THEN l ELSE net
    /\ ref' = [ref EXCEPT ![l] = [by |-> l, net |-> net']]
    /\ UNCHANGED <<box, row, lock, at, todo, back, sweepVars, harmVars>>

\* The Podfile, its image and settings; on to the first of the rest.
Resolve(l) ==
    /\ Goto(l, "resolve", IF Services = 0 THEN "box" ELSE "service")
    /\ at' = [at EXCEPT ![l] = IF Services = 0 THEN 0 ELSE 1]
    /\ UNCHANGED <<docker, row, lock, ref, todo, back, sweepVars, harmVars>>

\* Mutant: a service that has the name is taken to be this one.
CreateServiceOrAdopt(l) ==
    /\ Step(l, "service", IF Exists(at[l]) THEN "box" ELSE "startService")
    /\ at[l] \notin Malformed
    /\ IF Exists(at[l]) THEN UNCHANGED box ELSE CreateContainer(at[l], l, ref[l].net)
    /\ UNCHANGED net

CreateService(l) ==
    /\ Step(l, "service", "startService")
    /\ at[l] \notin Malformed
    /\ CreateContainer(at[l], l, ref[l].net)
    /\ UNCHANGED net

\* Mutant: the loop runs once too often.
StartServiceOnce(l) ==
    /\ Goto(l, "startService", "service")
    /\ StartContainer(at[l], l)
    /\ at' = [at EXCEPT ![l] = @ + 1]
    /\ UNCHANGED <<net, row, lock, ref, todo, back, sweepVars, harmVars>>

StartService(l) ==
    /\ Goto(l, "startService", IF at[l] = Services THEN "box" ELSE "service")
    /\ StartContainer(at[l], l)
    /\ at' = [at EXCEPT ![l] = IF @ = Services THEN 0 ELSE @ + 1]
    /\ UNCHANGED <<net, row, lock, ref, todo, back, sweepVars, harmVars>>

CreateBox(l) ==
    /\ Step(l, "box", "boot")
    /\ CreateContainer(0, l, ref[l].net)
    /\ UNCHANGED net

\* StartContainer by name, and setupContainerUser by id.
Boot(l) ==
    /\ Step(l, "boot", "record")
    /\ StartContainer(0, l)
    /\ UNCHANGED net

Record(l) ==
    /\ row = None
    /\ Goto(l, "record", "attached")
    /\ row' = ref[l]
    /\ ref' = [ref EXCEPT ![l] = None]
    /\ lock' = None
    /\ UNCHANGED <<docker, at, todo, back, sweepVars, harmVars>>

-----------------------------------------------------------------------------
(* A login: the error returns, after which RunAndCleanup disconnects.  Any *)
(* call may fail.                                                          *)

\* The store, or CreateNetwork, before anything was created.
Fail(l) == \E from \in {"lookup", "get", "forget", "network"} : Release(l, from, "leave")

Abort(l, from, things) ==
    /\ Remove(l, from, ref[l], things, "leave")
    /\ UNCHANGED <<docker, row, lock, sweepVars, harmVars>>

ResolveFails(l) == Abort(l, "resolve", {Network})

\* A volume that cannot be parsed ends StartServices, and with it what it
\* knew of the services before this one.
Started(l) == IF at[l] \in Malformed THEN {} ELSE 1..(at[l] - 1)

CreateServiceFails(l) == Abort(l, "service", Started(l) \cup {Network})

\* Mutant: the service that did not start is forgotten.
StartServiceFailsShort(l) ==
    Abort(l, "startService", 1..(at[l] - 1) \cup {Network})

StartServiceFails(l) == Abort(l, "startService", 1..at[l] \cup {Network})

CreateBoxFails(l) == Abort(l, "box", 1..Network)

BootFails(l) == Abort(l, "boot", 0..Network)

RecordFails(l) == Abort(l, "record", 0..Network)

-----------------------------------------------------------------------------
(* A login: the end of the connection.                                     *)

Hangup(l) ==
    /\ Step(l, "attached", "leave")
    /\ UNCHANGED docker

\* cleanupFailedSession, without the lock.
HookFails(l) ==
    /\ row # None
    /\ Remove(l, "attached", row, Everything, "leave")
    /\ Harm("race")
    /\ UNCHANGED <<docker, row, lock, sweepVars>>

\* Others stay, a grace period begins, or there is nothing to disconnect from.
LeaveIt(l) == Release(l, "settle", "done")

LastToLeave(l) ==
    /\ row # None
    /\ Remove(l, "settle", row, Everything, "done")
    /\ UNCHANGED <<docker, row, lock, sweepVars, harmVars>>

LeaveTimesOut(l) ==
    /\ lock # None
    /\ Step(l, "leave", "done")
    /\ UNCHANGED docker

LoginStep(l) ==
    \/ Acquire(l) \/ Reconcile(l) \/ LookUp(l) \/ Reattach(l) \/ Stale(l) \/ Forget(l)
    \/ CreateNetwork(l) \/ Resolve(l) \/ CreateService(l) \/ StartService(l)
    \/ CreateBox(l) \/ Boot(l) \/ Record(l)
    \/ Fail(l) \/ ResolveFails(l) \/ CreateServiceFails(l)
    \/ StartServiceFails(l) \/ CreateBoxFails(l) \/ BootFails(l) \/ RecordFails(l)
    \/ LeaveIt(l) \/ LastToLeave(l) \/ LeaveTimesOut(l)

-----------------------------------------------------------------------------
(* The others, none of whom takes the lock.                                *)

\* session.Service.End, or a row that the queries of cleanup return.
Stop(s) ==
    /\ row # None
    /\ Remove(s, "start", row, Everything, "done")
    /\ Harm("race")
    /\ UNCHANGED <<docker, row, lock, sweepVars>>

\* ensureContainerLegacy: any container of the name will do.  Or it fails.
LegacyEnter(g) ==
    /\ Harm("race")
    /\ UNCHANGED <<net, row, lock, at, ref, todo, back, sweepVars>>
    /\ \/ Exists(0) /\ Goto(g, "start", "attached") /\ UNCHANGED box
       \/ CreateContainer(0, g, None) /\ Goto(g, "start", "boot")
       \/ Goto(g, "start", "leave") /\ UNCHANGED box

\* By name, whoever has created it.
LegacyBoot(g) ==
    /\ Step(g, "boot", "attached")
    /\ \E p \in Logins \cup Legacy : StartContainer(0, p)
    /\ UNCHANGED net

LegacyBootFails(g) ==
    /\ Step(g, "boot", "leave")
    /\ RemoveName(0) \/ UNCHANGED box
    /\ UNCHANGED net

\* Disconnect without a store: not even a login that failed spares the container.
LegacyLeave(g) ==
    /\ \E from \in {"attached", "leave"} : Step(g, from, "done")
    /\ RemoveName(0) \/ UNCHANGED box
    /\ UNCHANGED net

\* ReconcileOrphans: the containers, the rows, then the removals.
ListContainers(d) ==
    /\ sweep[d] = "idle"
    /\ sweep' = [sweep EXCEPT ![d] = "match"]
    /\ seen' = [seen EXCEPT ![d] = {<<k, box[k].by>> : k \in {x \in Names : Exists(x)}}]
    /\ UNCHANGED <<docker, row, lock, procVars, harmVars>>

\* Rows track the session's container by name and the services by id.
Tracked(k, p) == row # None /\ (k = 0 \/ row.by = p)

\* Mutant: without a session there is nothing to do.
MatchSome(d) ==
    /\ sweep[d] = "match"
    /\ sweep' = [sweep EXCEPT ![d] = "reap"]
    /\ seen' = [seen EXCEPT ![d] = {c \in @ : row # None /\ ~Tracked(c[1], c[2])}]
    /\ UNCHANGED <<docker, row, lock, procVars, harmVars>>

Match(d) ==
    /\ sweep[d] = "match"
    /\ sweep' = [sweep EXCEPT ![d] = "reap"]
    /\ seen' = [seen EXCEPT ![d] = {c \in @ : ~Tracked(c[1], c[2])}]
    /\ UNCHANGED <<docker, row, lock, procVars, harmVars>>

Reap(d, k, p) ==
    /\ sweep[d] = "reap"
    /\ <<k, p>> \in seen[d]
    /\ RemoveId(k, p)
    /\ seen' = [seen EXCEPT ![d] = @ \ {<<k, p>>}]
    /\ harm' = harm \cup {"race"}
    /\ UNCHANGED <<net, row, lock, procVars, sweep, left>>

Rest(d) ==
    /\ sweep[d] = "reap"
    /\ seen[d] = {}
    /\ sweep' = [sweep EXCEPT ![d] = "idle"]
    /\ UNCHANGED <<docker, row, lock, procVars, seen, harmVars>>

SweepStep(d) ==
    \/ ListContainers(d) \/ Match(d) \/ Rest(d)
    \/ \E k \in Names, p \in Logins \cup Legacy : Reap(d, k, p)

\* A process is killed.
Crash(p) ==
    /\ pc[p] \notin {"start", "done", "crashed"}
    /\ pc' = [pc EXCEPT ![p] = "crashed"]
    /\ todo' = [todo EXCEPT ![p] = {}]
    /\ lock' = IF lock = p THEN None ELSE lock
    /\ Harm("debris")
    /\ UNCHANGED <<docker, row, at, ref, back, sweepVars>>

\* A container is removed behind podspawn's back.
Vanish(k) ==
    /\ Exists(k)
    /\ RemoveName(k)
    /\ Harm("race")
    /\ UNCHANGED <<net, row, lock, procVars, sweepVars>>

ProcStep(p) ==
    \/ p \in Logins /\ LoginStep(p)
    \/ p \in Legacy /\ (LegacyEnter(p) \/ LegacyBoot(p) \/ LegacyBootFails(p) \/ LegacyLeave(p))
    \/ p \in Stoppers /\ Stop(p)
    \/ Undo(p) \/ UndoFails(p) \/ Undone(p)

Next ==
    \/ \E p \in Procs : ProcStep(p) \/ Crash(p)
    \/ \E l \in Logins : Hangup(l) \/ HookFails(l)
    \/ \E d \in Cleaners : SweepStep(d)
    \/ \E k \in Names : Vanish(k)

Spec == Init /\ [][Next]_vars

(* Processes go on with what they have begun, attached users may stay, and *)
(* the timer starts cleanup passes for ever.                               *)
Fairness ==
    /\ \A p \in Procs : WF_vars(pc[p] \notin {"start", "attached"} /\ ProcStep(p))
    /\ \A d \in Cleaners : WF_vars(SweepStep(d))

FairSpec == Spec /\ Fairness

-----------------------------------------------------------------------------
PartOf(k, s) == Exists(k) /\ box[k].by = s.by /\ box[k].net = s.net

Runs(k, s) == PartOf(k, s) /\ box[k].up

Whole(s) == net = s.net /\ \A k \in Names : Runs(k, s)

(* Whenever nobody holds the lock, the session is there with its container,*)
(* every service and the network, or nothing of it is, whichever calls have*)
(* failed on the way (spawn.go, services.go: the roll-backs); as long as   *)
(* only processes with the lock were at work and could finish.             *)
WholeOrNothing ==
    harm = {} /\ lock = None =>
        IF row = None THEN net = None /\ (\A k \in Names : ~Exists(k)) ELSE Whole(row)

(* What crashes and failed removals have left behind never becomes part of *)
(* a session: whoever records one has created each container of it, and all*)
(* run on the network that its row names, found or new.                    *)
OwnEnvironment ==
    harm \subseteq {"debris"} => \A l \in Logins : pc[l] = "record" => ref[l].by = l /\ Whole(ref[l])

(* Containers that no session has any more, whoever left them behind, go   *)
(* with the cleanup passes, and for good (cleanup.ReconcileOrphans).       *)
OrphansGo == <>[](\A k \in Names : Exists(k) => Tracked(k, box[k].by))

-----------------------------------------------------------------------------
(* What makes the two inductive.                                           *)

\* A login that has a network.
Building == Provisions \ {"network"}

\* The lock is held by whoever is inside, and by whoever removes a session as
\* long as nobody acts without it.
LockHeld ==
    /\ \A l \in Logins : pc[l] \in Inside => lock = l
    /\ \A l \in Logins : pc[l] = "undo" /\ back[l] = "get" => lock = l
    /\ \A l \in Logins : pc[l] \in Building => ref[l] # None
    /\ "race" \notin harm =>
         /\ \A l \in Logins : pc[l] = "undo" => lock = l
         /\ \A p \in Procs \ Logins : pc[p] = "start"

\* What login l has made so far, and nobody has touched since.
Made(l) ==
    /\ pc[l] \in Building => ref[l].by = l /\ ref[l].net = net
    /\ pc[l] \in {"service", "startService"} => at[l] \in 1..Services
    /\ pc[l] \in {"service", "startService"} => \A k \in 1..(at[l] - 1) : Runs(k, ref[l])
    /\ pc[l] = "startService" => PartOf(at[l], ref[l])
    /\ pc[l] \in {"box", "boot", "record"} => \A k \in 1..Services : Runs(k, ref[l])
    /\ pc[l] = "boot" => PartOf(0, ref[l])
    /\ pc[l] = "record" => Runs(0, ref[l])

OwnInvariant == TypeOK /\ LockHeld /\ ("race" \notin harm => \A l \in Logins : Made(l))

Empty(ks) == \A k \in ks : ~Exists(k)

Settled == IF row = None THEN net = None /\ Empty(Names) ELSE Whole(row)

\* Everything that there is, login l has made or is going to remove.
NothingElse(l) ==
    /\ pc[l] \in {"lookup", "get", "inspect", "settle"} => Settled
    /\ pc[l] = "inspect" => row # None
    /\ pc[l] # "forget"
    /\ pc[l] \in Provisions => row = None
    /\ pc[l] = "network" => net = None
    /\ pc[l] \in {"network", "resolve"} => Empty(Names)
    /\ pc[l] = "service" => Empty({0} \cup at[l]..Services)
    /\ pc[l] = "startService" => Empty({0} \cup (at[l] + 1)..Services)
    /\ pc[l] = "box" => Empty({0})
    /\ pc[l] = "undo" =>
         /\ \A k \in Names : Exists(k) => k \in todo[l] /\ (k = 0 \/ box[k].by = ref[l].by)
         /\ net # None => Network \in todo[l] /\ net = ref[l].net
         /\ row # None => Row \in todo[l]

WholeInvariant ==
    /\ OwnInvariant
    /\ harm = {} => (lock = None => Settled) /\ \A l \in Logins : NothingElse(l)

-----------------------------------------------------------------------------
(* services.go: "On partial failure, already-started services are removed  *)
(* before returning": no services without a session or a login that works. *)
ServicesRemoved ==
    harm = {} /\ lock = None /\ row = None => \A k \in 1..Services : ~Exists(k)
=============================================================================
