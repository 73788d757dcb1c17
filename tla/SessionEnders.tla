--------------------------- MODULE SessionEnders ----------------------------
(***************************************************************************)
(* The processes that end sessions without being a connection of theirs,   *)
(* none of which takes the user's file lock:                               *)
(*   - Stoppers: podspawn stop, podspawn down and podspawn dev --fresh,    *)
(*     through session.Service.End;                                        *)
(*   - Cleaners: podspawn cleanup, as a daemon or from its systemd timer,  *)
(*     through cleanup.RunOnce.                                            *)
(* Both act, call by call, on rows they read before.                       *)
(***************************************************************************)
EXTENDS SessionStore

CONSTANTS Stoppers, Cleaners

VARIABLES
    target,     \* [Stoppers -> project of the row End has read, or None]
    boxGone,    \* [Stoppers -> End has removed the container of target]
    sweep,      \* [Cleaners -> phase of RunOnce]
    todo,       \* [Cleaners -> projects of the rows the phase's query returned]
    doing,      \* [Cleaners -> project between RemoveContainer and DeleteSession]
    seen        \* [Cleaners -> containers ListContainers returned, by name and id]

stopVars == <<target, boxGone>>
sweepVars == <<sweep, todo, doing, seen>>
enderVars == <<stopVars, sweepVars>>

Sweeps == {"idle", "grace", "lifetime", "match", "reap"}

EnderTypeOK ==
    /\ target \in [Stoppers -> Projects \cup {None}]
    /\ boxGone \in [Stoppers -> BOOLEAN]
    /\ sweep \in [Cleaners -> Sweeps]
    /\ todo \in [Cleaners -> SUBSET Projects]
    /\ doing \in [Cleaners -> Projects \cup {None}]
    /\ seen \in [Cleaners -> SUBSET (Projects \X Conns)]

EnderInit ==
    /\ target = [s \in Stoppers |-> None]
    /\ boxGone = [s \in Stoppers |-> FALSE]
    /\ sweep = [d \in Cleaners |-> "idle"]
    /\ todo = [d \in Cleaners |-> {}]
    /\ doing = [d \in Cleaners |-> None]
    /\ seen = [d \in Cleaners |-> {}]

-----------------------------------------------------------------------------
(* session.Service.End: GetSession, then DestroySession.                   *)

StopLookUp(s, p) ==
    /\ target[s] = None
    /\ HasRow(p)
    /\ target' = [target EXCEPT ![s] = p]
    /\ UNCHANGED <<storeVars, boxGone, sweepVars>>

StopBox(s) ==
    /\ target[s] # None
    /\ ~boxGone[s]
    /\ TryRemoveContainer(target[s])
    /\ boxGone' = [boxGone EXCEPT ![s] = TRUE]
    /\ UNCHANGED <<row, target, sweepVars>>

StopRow(s) ==
    /\ target[s] # None
    /\ boxGone[s]
    /\ TryDeleteSession(target[s], "enderCall")
    /\ target' = [target EXCEPT ![s] = None]
    /\ boxGone' = [boxGone EXCEPT ![s] = FALSE]
    /\ UNCHANGED <<box, sweepVars>>

-----------------------------------------------------------------------------
(* cleanup.RunOnce.                                                        *)

Destroying == {"grace", "lifetime"}

\* A query that fails is logged, and its part of the pass has nothing to do.
Queried(rows) == {rows} \cup (IF Can("enderCall") THEN {{}} ELSE {})

\* ExpireGracePeriods: the query.
SweepGrace(d) ==
    /\ sweep[d] = "idle"
    /\ sweep' = [sweep EXCEPT ![d] = "grace"]
    /\ \E rows \in Queried(ExpiredGracePeriods) : todo' = [todo EXCEPT ![d] = rows]
    /\ UNCHANGED <<storeVars, doing, seen, stopVars>>

\* DestroySession on one of the rows the query returned.
SweepBox(d, p) ==
    /\ sweep[d] \in Destroying
    /\ doing[d] = None
    /\ p \in todo[d]
    /\ TryRemoveContainer(p)
    /\ doing' = [doing EXCEPT ![d] = p]
    /\ UNCHANGED <<row, sweep, todo, seen, stopVars>>

SweepRow(d) ==
    /\ doing[d] # None
    /\ TryDeleteSession(doing[d], "enderCall")
    /\ todo' = [todo EXCEPT ![d] = @ \ {doing[d]}]
    /\ doing' = [doing EXCEPT ![d] = None]
    /\ UNCHANGED <<box, sweep, seen, stopVars>>

\* The loop over the query's rows is over.
Swept(d, phase) ==
    /\ sweep[d] = phase
    /\ doing[d] = None
    /\ todo[d] = {}

\* Mutant: the pass ends without looking for expired lifetimes.
SweepLifetimesEmpty(d) ==
    /\ Swept(d, "grace")
    /\ sweep' = [sweep EXCEPT ![d] = "lifetime"]
    /\ UNCHANGED <<storeVars, todo, doing, seen, stopVars>>

\* EnforceMaxLifetimes: the query.
SweepLifetimes(d) ==
    /\ Swept(d, "grace")
    /\ sweep' = [sweep EXCEPT ![d] = "lifetime"]
    /\ \E rows \in Queried(ExpiredLifetimes) : todo' = [todo EXCEPT ![d] = rows]
    /\ UNCHANGED <<storeVars, doing, seen, stopVars>>

\* ReconcileOrphans: the containers, then the rows, then the removals by id.
SweepContainers(d) ==
    /\ Swept(d, "lifetime")
    /\ sweep' = [sweep EXCEPT ![d] = "match"]
    /\ seen' = [seen EXCEPT ![d] = {<<p, box[p]>> : p \in {q \in Projects : box[q] # None}}]
    /\ UNCHANGED <<storeVars, todo, doing, stopVars>>

MatchRows(d) ==
    /\ sweep[d] = "match"
    /\ sweep' = [sweep EXCEPT ![d] = "reap"]
    /\ seen' = [seen EXCEPT ![d] = {b \in @ : ~HasRow(b[1])}]
    /\ UNCHANGED <<storeVars, todo, doing, stopVars>>

Reap(d, p, c) ==
    /\ sweep[d] = "reap"
    /\ <<p, c>> \in seen[d]
    /\ IF box[p] = c THEN TryRemoveContainer(p) ELSE UNCHANGED box
    /\ seen' = [seen EXCEPT ![d] = @ \ {<<p, c>>}]
    /\ UNCHANGED <<row, sweep, todo, doing, stopVars>>

\* Until the next tick, or the next start by the timer.
Rest(d) ==
    /\ sweep[d] = "reap"
    /\ seen[d] = {}
    /\ sweep' = [sweep EXCEPT ![d] = "idle"]
    /\ UNCHANGED <<storeVars, todo, doing, seen, stopVars>>

-----------------------------------------------------------------------------
(* ReconcileOrphans gives up when either of its lists fails.               *)

ListFails(d) ==
    /\ Can("enderCall")
    /\ Swept(d, "lifetime") \/ sweep[d] = "match"
    /\ sweep' = [sweep EXCEPT ![d] = "idle"]
    /\ seen' = [seen EXCEPT ![d] = {}]
    /\ UNCHANGED <<storeVars, todo, doing, stopVars>>

-----------------------------------------------------------------------------
(* A killed process forgets what it read.                                  *)

StopperDies(s) ==
    /\ target[s] # None
    /\ target' = [target EXCEPT ![s] = None]
    /\ boxGone' = [boxGone EXCEPT ![s] = FALSE]
    /\ UNCHANGED <<storeVars, sweepVars>>

CleanerDies(d) ==
    /\ sweep[d] # "idle"
    /\ sweep' = [sweep EXCEPT ![d] = "idle"]
    /\ todo' = [todo EXCEPT ![d] = {}]
    /\ doing' = [doing EXCEPT ![d] = None]
    /\ seen' = [seen EXCEPT ![d] = {}]
    /\ UNCHANGED <<storeVars, stopVars>>

StopStep(s) == (\E p \in Projects : StopLookUp(s, p)) \/ StopBox(s) \/ StopRow(s)

SweepStep(d) ==
    \/ SweepGrace(d) \/ SweepLifetimes(d)
    \/ \E p \in Projects : SweepBox(d, p)
    \/ SweepRow(d)
    \/ SweepContainers(d) \/ MatchRows(d) \/ ListFails(d) \/ Rest(d)
    \/ \E p \in Projects, c \in Conns : Reap(d, p, c)
=============================================================================
