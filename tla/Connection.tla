----------------------------- MODULE Connection -----------------------------
(***************************************************************************)
(* One connection of the user: a process that executes spawn.Session's     *)
(* RunAndCleanup (an SSH login, or a local shell, run or dev) or, for the  *)
(* members of Provisioners, its Ensure (podspawn create).                  *)
(*                                                                         *)
(* pc names the next store or Docker call of the process; everything the   *)
(* code does between two such calls is part of the action that makes the   *)
(* first of them.  A connection takes the user's file lock in "start" and  *)
(* again in "leave"; the steps between hold it, the hooks, the attached    *)
(* shell and the clean-up after a failed hook do not.                      *)
(***************************************************************************)
EXTENDS SessionStore

CONSTANTS
    Provisioners,   \* the connections that run Ensure and never disconnect
    MaxPerUser,     \* resources.max_per_user; 0 is no limit
    GracePeriod,    \* session.grace_period; only 0 is told apart
    Override,       \* mode that resolveProject takes from the project, user or workspace
    InitialModes    \* the session.mode each process starts with: functions on Conns

ASSUME ConnectionAssumption ==
    /\ Provisioners \subseteq Conns
    /\ MaxPerUser \in Nat
    /\ GracePeriod \in Nat
    /\ Override \in [Projects -> Modes \cup {None}]
    /\ InitialModes \subseteq [Conns -> Modes]
    /\ None \notin Modes

VARIABLES
    lock,       \* holder of <lockDir>/<username>.lock
    pc,         \* next call of each connection
    proj,       \* Session.ProjectName
    mode,       \* Session.Mode
    att,        \* the session whose count includes this connection
    saw,        \* status of the row GetSession returned
    after       \* where DestroySession returns to

connVars == <<lock, pc, proj, mode, att, saw, after>>

LockedSteps == {"reconcile", "expiry", "lookup", "inspect", "forget", "cancel",
                "join", "admit", "create", "boot", "record", "drop", "settle"}
FreeSteps == {"start", "hooks", "failed", "attached", "leave", "done", "crashed"}
DestroySteps == {"destroyBox", "destroyRow"}
Steps == LockedSteps \cup FreeSteps \cup DestroySteps

ConnTypeOK ==
    /\ lock \in Conns \cup {None}
    /\ pc \in [Conns -> Steps]
    /\ proj \in [Conns -> Projects]
    /\ mode \in [Conns -> Modes]
    /\ att \in [Conns -> Conns \cup {None}]
    /\ saw \in [Conns -> {"none", "open", "over"}]
    /\ after \in [Conns -> {"expiry", "lookup", "leave", "unlock"}]

ConnInit ==
    /\ lock = None
    /\ pc = [c \in Conns |-> "start"]
    /\ proj \in [Conns -> Projects]
    /\ mode \in InitialModes
    /\ att = [c \in Conns |-> None]
    /\ saw = [c \in Conns |-> "none"]
    /\ after = [c \in Conns |-> "unlock"]

Goto(c, from, to) ==
    /\ pc[c] = from
    /\ pc' = [pc EXCEPT ![c] = to]

Release == lock' = None

\* cleanup.DestroySession, whose two store-visible calls are steps of their own.
CallDestroy(c, from, return) ==
    /\ Goto(c, from, "destroyBox")
    /\ after' = [after EXCEPT ![c] = return]

-----------------------------------------------------------------------------
(* ensureContainerWithState: lock, reconcile, look up.                     *)

\* Mutant: the lock is taken without waiting for its holder.
AcquireUnchecked(c) ==
    /\ Goto(c, "start", "reconcile")
    /\ lock' = c
    /\ UNCHANGED <<storeVars, proj, mode, att, saw, after>>

Acquire(c) ==
    /\ lock = None
    /\ Goto(c, "start", "reconcile")
    /\ lock' = c
    /\ UNCHANGED <<storeVars, proj, mode, att, saw, after>>

\* Run fails without having counted; RunAndCleanup still calls Disconnect.
Quit(c) == IF c \in Provisioners THEN "done" ELSE "leave"

AcquireTimesOut(c) ==
    /\ Can("runTimeout")
    /\ lock # None
    /\ Goto(c, "start", Quit(c))
    /\ UNCHANGED <<storeVars, lock, proj, mode, att, saw, after>>

\* reconcileUser, first half.
ReconcileStale(c) ==
    /\ IF StaleZeroConnections(proj[c])
         THEN CallDestroy(c, "reconcile", "expiry")
         ELSE Goto(c, "reconcile", "expiry") /\ UNCHANGED after
    /\ UNCHANGED <<storeVars, lock, proj, mode, att, saw>>

\* reconcileUser, second half: the row's mode is not looked at.
ReconcileGrace(c) ==
    /\ IF HasRow(proj[c]) /\ row[proj[c]].grace = "over"
         THEN CallDestroy(c, "expiry", "lookup")
         ELSE Goto(c, "expiry", "lookup") /\ UNCHANGED after
    /\ UNCHANGED <<storeVars, lock, proj, mode, att, saw>>

\* A query of reconcileUser fails: it returns, and the caller does not know.
ReconcileFails(c) ==
    /\ Can("call")
    /\ \E from \in {"reconcile", "expiry"} : Goto(c, from, "lookup")
    /\ UNCHANGED <<storeVars, lock, proj, mode, att, saw, after>>

LookUp(c) ==
    /\ IF HasRow(proj[c])
         THEN /\ Goto(c, "lookup", "inspect")
              /\ saw' = [saw EXCEPT ![c] = row[proj[c]].grace]
         ELSE Goto(c, "lookup", "admit") /\ UNCHANGED saw
    /\ UNCHANGED <<storeVars, lock, proj, mode, att, after>>

\* A failed inspection counts as alive.
Inspect(c) ==
    LET alive == IF saw[c] = "none" THEN "join" ELSE "cancel"
    IN  /\ \/ box[proj[c]] # None /\ Goto(c, "inspect", alive)
           \/ box[proj[c]] = None /\ Goto(c, "inspect", "forget")
           \/ Can("inspect") /\ Goto(c, "inspect", alive)
        /\ UNCHANGED <<storeVars, lock, proj, mode, att, saw, after>>

Forget(c) ==
    /\ Goto(c, "forget", "admit")
    /\ DeleteSession(proj[c])
    /\ UNCHANGED <<box, lock, proj, mode, att, saw, after>>

\* Mutant: a session found in its grace period is joined without cancelling it.
CancelGraceForgotten(c) ==
    /\ Goto(c, "cancel", "join")
    /\ UNCHANGED <<storeVars, lock, proj, mode, att, saw, after>>

CancelGrace(c) ==
    /\ Goto(c, "cancel", "join")
    /\ CancelGracePeriod(proj[c])
    /\ UNCHANGED <<box, lock, proj, mode, att, saw, after>>

\* Mutant: the statement is sent again after a lost answer.
JoinTwice(c) ==
    /\ HasRow(proj[c])
    /\ Goto(c, "join", "hooks")
    /\ UpdateConnections(proj[c], 2)
    /\ att' = [att EXCEPT ![c] = row[proj[c]].id]
    /\ Release
    /\ UNCHANGED <<box, proj, mode, saw, after>>

\* Reattach: count the connection and let go of the lock.
Join(c) ==
    /\ HasRow(proj[c])
    /\ Goto(c, "join", "hooks")
    /\ UpdateConnections(proj[c], 1)
    /\ att' = [att EXCEPT ![c] = row[proj[c]].id]
    /\ Release
    /\ UNCHANGED <<box, proj, mode, saw, after>>

-----------------------------------------------------------------------------
(* ensureContainerWithState: a new container.                              *)

\* Mutant: off by one at the limit.
WithinLimitOffByOne == MaxPerUser > 0 => Cardinality(ListSessionsByUser) <= MaxPerUser

WithinLimit == MaxPerUser > 0 => Cardinality(ListSessionsByUser) < MaxPerUser

\* The limit, then resolveProject, which settles the mode of a new session.
Admit(c) ==
    /\ WithinLimit
    /\ Goto(c, "admit", "create")
    /\ mode' = [mode EXCEPT ![c] =
                  IF Override[proj[c]] = None THEN @ ELSE Override[proj[c]]]
    /\ UNCHANGED <<storeVars, lock, proj, att, saw, after>>

\* Mutant: the lock is not kept while an image may have to be pulled.
CreateUnlocked(c) ==
    /\ Goto(c, "create", "boot")
    /\ CreateContainer(proj[c], c)
    /\ Release
    /\ UNCHANGED <<row, proj, mode, att, saw, after>>

Create(c) ==
    /\ Goto(c, "create", "boot")
    /\ CreateContainer(proj[c], c)
    /\ UNCHANGED <<row, lock, proj, mode, att, saw, after>>

\* StartContainer and setupContainerUser.
Boot(c) ==
    /\ Goto(c, "boot", "record")
    /\ UNCHANGED <<storeVars, lock, proj, mode, att, saw, after>>

Record(c) ==
    /\ ~HasRow(proj[c])
    /\ Goto(c, "record", "hooks")
    /\ CreateSession(proj[c], c, mode[c])
    /\ att' = [att EXCEPT ![c] = c]
    /\ Release
    /\ UNCHANGED <<box, proj, mode, saw, after>>

-----------------------------------------------------------------------------
(* ensureContainerWithState: the error returns.                            *)

Fail(c, from) ==
    /\ Goto(c, from, Quit(c))
    /\ Release
    /\ UNCHANGED <<proj, mode, att, saw, after>>

\* The user is at the limit.
Refuse(c) ==
    /\ ~WithinLimit
    /\ Fail(c, "admit")
    /\ UNCHANGED storeVars

\* UpdateConnections finds no row: somebody ended the session meanwhile.
JoinTooLate(c) ==
    /\ ~HasRow(proj[c])
    /\ Fail(c, "join")
    /\ UNCHANGED storeVars

\* An orphan of the same name is in the way, or Docker says no.
CreateFails(c) ==
    /\ box[proj[c]] # None \/ Can("call")
    /\ Fail(c, "create")
    /\ UNCHANGED storeVars

\* A store call fails before anything was created.
CallFails(c) ==
    /\ Can("call")
    /\ \E from \in {"lookup", "forget", "cancel", "join", "admit"} : Fail(c, from)
    /\ UNCHANGED storeVars

\* Start, user set-up or CreateSession fails: the container is removed by name.
RollBack(c) ==
    /\ Can("call") \/ (pc[c] = "record" /\ HasRow(proj[c]))
    /\ \E from \in {"boot", "record"} : Fail(c, from)
    /\ TryRemoveContainer(proj[c])
    /\ UNCHANGED row

-----------------------------------------------------------------------------
(* runHooks and routeSession, without the lock.                            *)

HooksDone(c) ==
    /\ Goto(c, "hooks", IF c \in Provisioners THEN "done" ELSE "attached")
    /\ UNCHANGED <<storeVars, lock, proj, mode, att, saw, after>>

\* on_create runs on a new container only; HookFatal ends the session.
HookFails(c) ==
    /\ Can("hook")
    /\ att[c] = c
    /\ Goto(c, "hooks", "failed")
    /\ UNCHANGED <<storeVars, lock, proj, mode, att, saw, after>>

\* cleanupFailedSession: whatever session has this key now is destroyed.
CleanupFailed(c) ==
    /\ \/ HasRow(proj[c]) /\ CallDestroy(c, "failed", "leave")
       \/ /\ ~HasRow(proj[c]) \/ Can("call")
          /\ Goto(c, "failed", Quit(c))
          /\ UNCHANGED after
    /\ UNCHANGED <<storeVars, lock, proj, mode, att, saw>>

\* The user leaves, or the container went away under the shell.
Hangup(c) ==
    /\ Goto(c, "attached", "leave")
    /\ UNCHANGED <<storeVars, lock, proj, mode, att, saw, after>>

-----------------------------------------------------------------------------
(* Disconnect.                                                             *)

AcquireToLeave(c) ==
    /\ lock = None
    /\ Goto(c, "leave", "drop")
    /\ lock' = c
    /\ UNCHANGED <<storeVars, proj, mode, att, saw, after>>

LeaveTimesOut(c) ==
    /\ Can("leaveTimeout")
    /\ lock # None
    /\ Goto(c, "leave", "done")
    /\ UNCHANGED <<storeVars, lock, proj, mode, att, saw, after>>

\* Mutant: the count that decides is the one before the decrement.
DropStaleCount(c) ==
    /\ HasRow(proj[c])
    /\ UpdateConnections(proj[c], -1)
    /\ att' = [att EXCEPT ![c] = None]
    /\ IF row[proj[c]].conns > 0
         THEN Goto(c, "drop", "done") /\ Release
         ELSE Goto(c, "drop", "settle") /\ UNCHANGED lock
    /\ UNCHANGED <<box, proj, mode, saw, after>>

\* The decrement, and what RETURNING says is left.
Drop(c) ==
    /\ HasRow(proj[c])
    /\ UpdateConnections(proj[c], -1)
    /\ att' = [att EXCEPT ![c] = None]
    /\ IF row'[proj[c]].conns > 0 \/ mode[c] = "persistent"
         THEN Goto(c, "drop", "done") /\ Release
         ELSE Goto(c, "drop", "settle") /\ UNCHANGED lock
    /\ UNCHANGED <<box, proj, mode, saw, after>>

\* No row any more, or the statement fails: nothing is settled.
DropFails(c) ==
    /\ ~HasRow(proj[c]) \/ Can("call")
    /\ Goto(c, "drop", "done")
    /\ Release
    /\ UNCHANGED <<storeVars, proj, mode, att, saw, after>>

NoGrace(c) == mode[c] = "destroy-on-disconnect" \/ GracePeriod = 0

\* No grace period: GetSession, then DestroySession.
SettleDestroy(c) ==
    /\ NoGrace(c)
    /\ \/ HasRow(proj[c]) /\ CallDestroy(c, "settle", "unlock") /\ UNCHANGED lock
       \/ /\ ~HasRow(proj[c]) \/ Can("call")
          /\ Goto(c, "settle", "done")
          /\ Release
          /\ UNCHANGED after
    /\ UNCHANGED <<storeVars, proj, mode, att, saw>>

SettleGrace(c) ==
    /\ ~NoGrace(c)
    /\ Goto(c, "settle", "done")
    /\ Release
    /\ SetGracePeriod(proj[c]) \/ (Can("call") /\ UNCHANGED row)
    /\ UNCHANGED <<box, proj, mode, att, saw, after>>

-----------------------------------------------------------------------------
(* cleanup.DestroySession on behalf of a connection.                       *)

\* A container that cannot be removed is only logged.
DestroyBox(c) ==
    /\ Goto(c, "destroyBox", "destroyRow")
    /\ TryRemoveContainer(proj[c])
    /\ UNCHANGED <<row, lock, proj, mode, att, saw, after>>

DestroyRow(c) ==
    /\ Goto(c, "destroyRow", CASE after[c] = "unlock" -> "done"
                               [] after[c] = "leave" -> Quit(c)
                               [] OTHER -> after[c])
    /\ TryDeleteSession(proj[c], "call")
    /\ lock' = IF after[c] = "unlock" THEN None ELSE lock
    /\ UNCHANGED <<box, proj, mode, att, saw, after>>

-----------------------------------------------------------------------------
\* Mutant: the lock is a file that only its holder removes.
CrashKeepsLock(c) ==
    /\ Can("crash")
    /\ pc[c] \notin {"start", "done", "crashed"}
    /\ pc' = [pc EXCEPT ![c] = "crashed"]
    /\ UNCHANGED <<storeVars, lock, proj, mode, att, saw, after>>

\* The process is killed: its lock is released, its count is not.
Crash(c) ==
    /\ Can("crash")
    /\ pc[c] \notin {"start", "done", "crashed"}
    /\ pc' = [pc EXCEPT ![c] = "crashed"]
    /\ lock' = IF lock = c THEN None ELSE lock
    /\ UNCHANGED <<storeVars, proj, mode, att, saw, after>>

\* The steps a running process takes by itself.
Advance(c) ==
    \/ Acquire(c) \/ AcquireTimesOut(c)
    \/ ReconcileStale(c) \/ ReconcileGrace(c) \/ ReconcileFails(c)
    \/ LookUp(c) \/ Inspect(c) \/ Forget(c) \/ CancelGrace(c) \/ Join(c)
    \/ Admit(c) \/ Create(c) \/ Boot(c) \/ Record(c)
    \/ Refuse(c) \/ JoinTooLate(c) \/ CreateFails(c) \/ CallFails(c) \/ RollBack(c)
    \/ HooksDone(c) \/ HookFails(c) \/ CleanupFailed(c)
    \/ AcquireToLeave(c) \/ LeaveTimesOut(c)
    \/ Drop(c) \/ DropFails(c) \/ SettleDestroy(c) \/ SettleGrace(c)
    \/ DestroyBox(c) \/ DestroyRow(c)
=============================================================================
