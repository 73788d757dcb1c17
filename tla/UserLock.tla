------------------------------- MODULE UserLock -------------------------------
(***************************************************************************)
(* The file behind the lock of one user (internal/lock), the logins that   *)
(* take it, and podspawn remove-user, which takes it as well and then      *)
(* unlinks the file.  An flock belongs to the file that was opened, not to *)
(* its name: a process may wait on, and get, the lock of a file that is no *)
(* longer there, while another creates the file anew and locks that one.   *)
(*                                                                         *)
(* What a login does with the lock is module Connection; here it adds the  *)
(* session of its project when it enters and may end it when it leaves.    *)
(* Files are numbered in the order of their creation.                      *)
(***************************************************************************)
EXTENDS Naturals, FiniteSets

CONSTANTS
    Logins,     \* SSH logins of the user
    Removers,   \* remove-user commands for this user
    Forced,     \* those with --force
    Projects    \* what the logins connect to

Procs == Logins \cup Removers

ASSUME LockAssumption ==
    /\ Logins \cap Removers = {}
    /\ Forced \subseteq Removers

VARIABLES
    pc,         \* next call of each process
    created,    \* how many files <username>.lock there have been
    path,       \* the file that has this name now, or 0
    fd,         \* the file each process has open, or 0
    holds,      \* whether each process has the flock on its file
    key,        \* the user's key file exists: sshd accepts logins
    sessions,   \* the projects the user has a session of
    proj,       \* the project of each login
    todo,       \* sessions each remover has listed and not yet come to
    failed      \* destroyFailed of each remover

fileVars == <<created, path, fd, holds>>
userVars == <<key, sessions, proj, todo, failed>>
vars == <<pc, fileVars, userVars>>

\* Holding the lock, by what the process is about to do.
Inside == {"enter", "drop", "list", "destroy", "dropKey", "unlock"}
Waiting == {"waitEnter", "waitDrop", "waitList"}
Outside == {"new", "openEnter", "attached", "openList", "unlink", "done"}

TypeOK ==
    /\ pc \in [Procs -> Inside \cup Waiting \cup Outside]
    /\ created \in Nat
    /\ path \in 0..created
    /\ fd \in [Procs -> 0..created]
    /\ holds \in [Procs -> BOOLEAN]
    /\ key \in BOOLEAN
    /\ sessions \subseteq Projects
    /\ proj \in [Logins -> Projects]
    /\ todo \in [Removers -> SUBSET Projects]
    /\ failed \in [Removers -> BOOLEAN]

Init ==
    /\ pc = [p \in Procs |-> "new"]
    /\ created = 0
    /\ path = 0
    /\ fd = [p \in Procs |-> 0]
    /\ holds = [p \in Procs |-> FALSE]
    /\ key = TRUE
    /\ sessions \in SUBSET Projects
    /\ proj \in [Logins -> Projects]
    /\ todo = [r \in Removers |-> {}]
    /\ failed = [r \in Removers |-> FALSE]

Goto(p, from, to) ==
    /\ pc[p] = from
    /\ pc' = [pc EXCEPT ![p] = to]

-----------------------------------------------------------------------------
(* lock.Acquire and the function it returns.                               *)

\* Mutant: every process puts a file of its own under the name.
OpenFileAnew(p, from, to) ==
    /\ Goto(p, from, to)
    /\ created' = created + 1
    /\ path' = created'
    /\ fd' = [fd EXCEPT ![p] = created']
    /\ UNCHANGED <<holds, userVars>>

\* os.OpenFile with O_CREATE.
OpenFile(p, from, to) ==
    /\ Goto(p, from, to)
    /\ created' = IF path = 0 THEN created + 1 ELSE created
    /\ path' = IF path = 0 THEN created' ELSE path
    /\ fd' = [fd EXCEPT ![p] = path']
    /\ UNCHANGED <<holds, userVars>>

Free(file) == \A q \in Procs : ~(fd[q] = file /\ holds[q])

\* The attempt of the polling loop that succeeds.
Flock(p, from, to) ==
    /\ Goto(p, from, to)
    /\ Free(fd[p])
    /\ holds' = [holds EXCEPT ![p] = TRUE]
    /\ UNCHANGED <<created, path, fd, userVars>>

\* Closing the file gives the flock back; so does the end of the process.
Close(p) ==
    /\ fd' = [fd EXCEPT ![p] = 0]
    /\ holds' = [holds EXCEPT ![p] = FALSE]
    /\ UNCHANGED <<created, path>>

-----------------------------------------------------------------------------
(* A login: accepted by its key, in and out under the lock.                *)

Accept(l) ==
    /\ key
    /\ Goto(l, "new", "openEnter")
    /\ UNCHANGED <<fileVars, userVars>>

\* Ends with or without a session: see Connection.
Enter(l) ==
    /\ Goto(l, "enter", "attached")
    /\ Close(l)
    /\ sessions' \in {sessions, sessions \cup {proj[l]}}
    /\ UNCHANGED <<key, proj, todo, failed>>

Leave(l) ==
    /\ Goto(l, "drop", "done")
    /\ Close(l)
    /\ sessions' \in {sessions, sessions \ {proj[l]}}
    /\ UNCHANGED <<key, proj, todo, failed>>

\* Disconnect waits ten seconds.
LeaveTimesOut(l) ==
    /\ ~Free(fd[l])
    /\ Goto(l, "waitDrop", "done")
    /\ Close(l)
    /\ UNCHANGED userVars

LoginStep(l) ==
    \/ Accept(l)
    \/ OpenFile(l, "openEnter", "waitEnter") \/ Flock(l, "waitEnter", "enter") \/ Enter(l)
    \/ OpenFile(l, "attached", "waitDrop") \/ Flock(l, "waitDrop", "drop")
    \/ Leave(l) \/ LeaveTimesOut(l)

-----------------------------------------------------------------------------
(* remove-user.                                                            *)

FindUser(r) ==
    /\ key
    /\ Goto(r, "new", "openList")
    /\ UNCHANGED <<fileVars, userVars>>

\* The deferred unlock of an error return.
GiveUp(r, from) ==
    /\ Goto(r, from, "done")
    /\ Close(r)

List(r) ==
    /\ sessions = {} \/ r \in Forced
    /\ Goto(r, "list", "destroy")
    /\ todo' = [todo EXCEPT ![r] = sessions]
    /\ UNCHANGED <<fileVars, key, sessions, proj, failed>>

\* Sessions without --force, or the query fails.
Decline(r) ==
    /\ GiveUp(r, "list")
    /\ UNCHANGED userVars

\* cleanup.DestroySession; the loop goes on after a failure.
Destroy(r, p) ==
    /\ pc[r] = "destroy"
    /\ p \in todo[r]
    /\ todo' = [todo EXCEPT ![r] = @ \ {p}]
    /\ \/ sessions' = sessions \ {p} /\ UNCHANGED failed
       \/ failed' = [failed EXCEPT ![r] = TRUE] /\ UNCHANGED sessions
    /\ UNCHANGED <<pc, fileVars, key, proj>>

\* Mutant: failures are not remembered.
DestroyedHeedless(r) ==
    /\ todo[r] = {}
    /\ Goto(r, "destroy", "dropKey")
    /\ UNCHANGED <<fileVars, userVars>>

\* Mutant: the file is unlinked first, and the key and the lock are let go of later.
UnlinkEarly(r) ==
    /\ todo[r] = {}
    /\ ~failed[r]
    /\ Goto(r, "destroy", "dropKey")
    /\ path' = 0
    /\ UNCHANGED <<created, fd, holds, userVars>>

Destroyed(r) ==
    /\ todo[r] = {}
    /\ ~failed[r]
    /\ Goto(r, "destroy", "dropKey")
    /\ UNCHANGED <<fileVars, userVars>>

\* "some sessions failed to destroy": the key file is kept.
KeepKey(r) ==
    /\ todo[r] = {}
    /\ failed[r]
    /\ GiveUp(r, "destroy")
    /\ UNCHANGED userVars

DropKey(r) ==
    /\ key
    /\ Goto(r, "dropKey", "unlock")
    /\ key' = FALSE
    /\ UNCHANGED <<fileVars, sessions, proj, todo, failed>>

\* os.Remove fails: another remove-user was faster.
KeyGone(r) ==
    /\ ~key
    /\ GiveUp(r, "dropKey")
    /\ UNCHANGED userVars

Unlock(r) ==
    /\ Goto(r, "unlock", "unlink")
    /\ Close(r)
    /\ UNCHANGED userVars

\* lock.Remove, and the home directory with --purge.
Unlink(r) ==
    /\ Goto(r, "unlink", "done")
    /\ path' = 0
    /\ UNCHANGED <<created, fd, holds, userVars>>

RemoverStep(r) ==
    \/ FindUser(r)
    \/ OpenFile(r, "openList", "waitList") \/ Flock(r, "waitList", "list")
    \/ List(r) \/ Decline(r)
    \/ \E p \in Projects : Destroy(r, p)
    \/ Destroyed(r) \/ KeepKey(r) \/ DropKey(r) \/ KeyGone(r)
    \/ Unlock(r) \/ Unlink(r)

-----------------------------------------------------------------------------
\* Mutant: the lock outlives its holder.
DieLocked(p) ==
    /\ pc[p] \notin {"new", "done"}
    /\ pc' = [pc EXCEPT ![p] = "done"]
    /\ UNCHANGED <<fileVars, userVars>>

\* A process is killed, and the kernel closes its file.
Die(p) ==
    /\ pc[p] \notin {"new", "done"}
    /\ pc' = [pc EXCEPT ![p] = "done"]
    /\ Close(p)
    /\ UNCHANGED userVars

\* A cleanup pass or a stop command, without the lock.
EndElsewhere(p) ==
    /\ p \in sessions
    /\ sessions' = sessions \ {p}
    /\ UNCHANGED <<pc, fileVars, key, proj, todo, failed>>

ProcStep(p) == IF p \in Logins THEN LoginStep(p) ELSE RemoverStep(p)

Next ==
    \/ \E l \in Logins : LoginStep(l)
    \/ \E r \in Removers : RemoverStep(r)
    \/ \E p \in Procs : Die(p)
    \/ \E p \in Projects : EndElsewhere(p)

Spec == Init /\ [][Next]_vars

(* The scheduler runs every process, the polling loop included; attached   *)
(* users need not leave, and nobody need connect or be removed.            *)
Fairness ==
    \A p \in Procs : WF_vars(pc[p] \notin {"new", "attached"} /\ ProcStep(p))

FairSpec == Spec /\ Fairness

-----------------------------------------------------------------------------
Holding == {p \in Procs : pc[p] \in Inside}

(* lock.Acquire excludes all others as long as nobody has been removed:    *)
(* the processes in the critical section are at most one (internal/lock;   *)
(* this is the mutex that Connection assumes).                             *)
ExclusiveWithKey == key => \A p, q \in Holding : p = q

(* Whatever waits on the unlinked file and whatever creates it anew, never *)
(* more than two are in the critical section: remove-user unlinks the file *)
(* once, because only one of them gets to remove the key.                  *)
TwoAtMost == \A p, q, s \in Holding : p = q \/ p = s \/ q = s

(* remove-user: when the key file is gone and the lock not yet released,   *)
(* the user has no session, however sessions came and went before.         *)
RemovedWithoutSessions ==
    \A r \in Removers : pc[r] = "unlock" => sessions = {}

(* Whoever waits for the lock gets it or gives up, on whichever file.      *)
WaitersServed == \A p \in Procs : pc[p] \in Waiting ~> pc[p] \notin Waiting

-----------------------------------------------------------------------------
(* What makes the invariants inductive.                                    *)

\* A remover between the removal of the key and that of the file.
Removing(r) == pc[r] \in {"unlock", "unlink"}

\* flock: whoever is inside holds a lock, no two hold that of the same file.
Locked ==
    /\ \A p \in Procs : pc[p] \in Inside <=> holds[p]
    /\ \A p \in Procs : pc[p] \in Inside \cup Waiting => fd[p] # 0
    /\ \A p, q \in Procs : holds[p] /\ holds[q] /\ fd[p] = fd[q] => p = q

\* The file is the first one until the only remover to get so far unlinks it.
FirstFile ==
    /\ key \/ (\E r \in Removers : Removing(r)) => created = path /\ path <= 1
    /\ \A r, q \in Removers : Removing(r) /\ Removing(q) => ~key /\ r = q
    /\ created <= 2
    /\ created = 2 => path = 2

\* What remover r knows of the sessions while the user still has the key.
Emptied ==
    /\ \A r \in Removers : pc[r] = "destroy" /\ key /\ ~failed[r] => sessions \subseteq todo[r]
    /\ \A r \in Removers : pc[r] = "dropKey" /\ key => sessions = {}
    /\ RemovedWithoutSessions

(* The lock as every process of podspawn may rely on it, with the file     *)
(* behind it: who is inside holds the flock of a file that nobody else     *)
(* holds, and the name means the first file until the user is removed.     *)
FileLock == TypeOK /\ Locked /\ FirstFile /\ Emptied

=============================================================================
