---------------------------- MODULE UserLockProofs ----------------------------
(***************************************************************************)
(* Proofs about the lock file of a user, for any numbers of logins, of     *)
(* remove-user commands and of projects.                                   *)
(***************************************************************************)
EXTENDS UserLock, TLAPS

-----------------------------------------------------------------------------
(* The steps of lock.Acquire, which logins and removers share.             *)

(* Opening the lock file keeps the invariant: the file is the one that has *)
(* the name, or the next one if there is none.                             *)
LEMMA OpenKeeps ==
    ASSUME FileLock, NEW p \in Procs,
           NEW from \in {"openEnter", "attached", "openList"}, NEW to \in Waiting,
           OpenFile(p, from, to)
    PROVE  FileLock'
<1> USE DEF FileLock, TypeOK, OpenFile, Goto, userVars, Inside, Waiting, Outside
<1>1. TypeOK'
  OBVIOUS
<1>2. Locked'
  BY DEF Locked
<1>3. \A r \in Removers : Removing(r)' <=> Removing(r)
  BY DEF Removing, Procs
<1>4. FirstFile'
  BY <1>3 DEF FirstFile
<1>5. Emptied'
  BY DEF Emptied, RemovedWithoutSessions, Procs
<1> QED BY <1>1, <1>2, <1>4, <1>5

(* So does getting the flock on a file that nobody else holds.             *)
LEMMA FlockKeeps ==
    ASSUME FileLock, NEW p \in Procs,
           NEW from \in Waiting, NEW to \in {"enter", "drop", "list"},
           Flock(p, from, to)
    PROVE  FileLock'
<1> USE DEF FileLock, TypeOK, Flock, Goto, userVars, Inside, Waiting, Outside
<1>1. TypeOK'
  OBVIOUS
<1>2. Locked'
  BY DEF Locked, Free
<1>3. FirstFile'
  BY DEF FirstFile, Removing, Procs
<1>4. Emptied'
  BY DEF Emptied, RemovedWithoutSessions, Procs
<1> QED BY <1>1, <1>2, <1>3, <1>4

(* So does letting go, whatever the reason and wherever the process goes   *)
(* on, as long as the sessions do not grow and the key stays.              *)
LEMMA CloseKeeps ==
    ASSUME FileLock, NEW p \in Procs, Close(p),
           pc' = [pc EXCEPT ![p] = "done"], UNCHANGED userVars
    PROVE  FileLock'
<1> USE DEF FileLock, TypeOK, Close, userVars, Inside, Waiting, Outside
<1>1. TypeOK'
  OBVIOUS
<1>2. Locked'
  BY DEF Locked
<1>3. FirstFile'
  BY DEF FirstFile, Removing, Procs
<1>4. Emptied'
  BY DEF Emptied, RemovedWithoutSessions, Procs
<1> QED BY <1>1, <1>2, <1>3, <1>4

-----------------------------------------------------------------------------
(* While the user has the key, or somebody is at removing the lock file,   *)
(* one process at most is inside.                                          *)
LEMMA OneInside ==
    ASSUME FileLock, key \/ \E r \in Removers : Removing(r),
           NEW p \in Holding, NEW q \in Holding
    PROVE  p = q
<1>1. created = path /\ path <= 1
  BY DEF FileLock, FirstFile
<1>2. holds[p] /\ holds[q] /\ fd[p] # 0 /\ fd[q] # 0
  BY DEF FileLock, Locked, Holding
<1>3. fd[p] \in 0..created /\ fd[q] \in 0..created
  BY DEF FileLock, TypeOK, Holding
<1>4. fd[p] = 1 /\ fd[q] = 1
  BY <1>1, <1>2, <1>3 DEF FileLock, TypeOK
<1> QED BY <1>2, <1>4 DEF FileLock, Locked, Holding

(* A login keeps the invariant: what it adds or ends, it does alone.       *)
LEMMA LoginKeeps ==
    ASSUME FileLock, NEW l \in Logins, LoginStep(l)
    PROVE  FileLock'
<1> l \in Procs /\ l \notin Removers
  BY LockAssumption DEF Procs
<1>1. CASE Accept(l)
  <2> USE <1>1 DEF FileLock, Accept, Goto, fileVars, userVars
  <2>1. TypeOK' BY DEF TypeOK, Inside, Waiting, Outside
  <2>2. Locked' BY DEF TypeOK, Locked, Inside, Waiting
  <2>3. FirstFile' BY DEF TypeOK, FirstFile, Removing
  <2>4. Emptied' BY DEF TypeOK, Emptied, RemovedWithoutSessions
  <2> QED BY <2>1, <2>2, <2>3, <2>4
<1>2. CASE OpenFile(l, "openEnter", "waitEnter") \/ OpenFile(l, "attached", "waitDrop")
  BY <1>2, OpenKeeps DEF Waiting
<1>3. CASE Flock(l, "waitEnter", "enter") \/ Flock(l, "waitDrop", "drop")
  BY <1>3, FlockKeeps DEF Waiting
<1>4. CASE Enter(l) \/ Leave(l)
  <2>1. PICK to \in {"attached", "done"} : pc' = [pc EXCEPT ![l] = to]
    BY <1>4 DEF Enter, Leave, Goto
  <2>2. Close(l) /\ UNCHANGED <<key, proj, todo, failed>> /\ pc[l] \in Inside
    BY <1>4 DEF Enter, Leave, Goto, Inside
  <2>3. sessions' \subseteq Projects
    BY <1>4 DEF Enter, Leave, FileLock, TypeOK
  <2> USE <2>1, <2>2, <2>3 DEF FileLock, Close
  <2>4. TypeOK' BY DEF TypeOK, Outside
  <2>5. Locked' BY DEF TypeOK, Locked, Inside, Waiting
  <2>6. \A r \in Removers : Removing(r)' <=> Removing(r) BY DEF TypeOK, Removing
  <2>7. FirstFile' BY <2>6 DEF TypeOK, FirstFile
  <2>8. l \in Holding BY DEF Holding
  <2>9. \A r \in Removers : key => pc[r] \notin {"destroy", "dropKey"}
    BY <2>8, OneInside DEF Holding, Inside, Procs
  <2>10. \A r \in Removers : pc[r] # "unlock"
    BY <2>8, OneInside DEF Holding, Inside, Removing, Procs
  <2>11. \A r \in Removers : pc'[r] = pc[r] OBVIOUS
  <2>12. Emptied' BY <2>9, <2>10, <2>11 DEF Emptied, RemovedWithoutSessions
  <2> QED BY <2>4, <2>5, <2>7, <2>12
<1>5. CASE LeaveTimesOut(l)
  BY <1>5, CloseKeeps DEF LeaveTimesOut, Goto
<1> QED BY <1>1, <1>2, <1>3, <1>4, <1>5 DEF LoginStep

(* A remover keeps the invariant: it drops the key only after it has       *)
(* emptied the user's sessions, and only one remover finds the key.        *)
LEMMA RemoverKeeps ==
    ASSUME FileLock, NEW r \in Removers, RemoverStep(r)
    PROVE  FileLock'
<1> r \in Procs /\ r \notin Logins
  BY LockAssumption DEF Procs
<1> USE DEF FileLock
<1>1. CASE FindUser(r)
  <2> USE <1>1 DEF FindUser, Goto, fileVars, userVars
  <2>1. TypeOK' BY DEF TypeOK, Inside, Waiting, Outside
  <2>2. Locked' BY DEF TypeOK, Locked, Inside, Waiting
  <2>3. FirstFile' BY DEF TypeOK, FirstFile, Removing
  <2>4. Emptied' BY DEF TypeOK, Emptied, RemovedWithoutSessions
  <2> QED BY <2>1, <2>2, <2>3, <2>4
<1>2. CASE OpenFile(r, "openList", "waitList")
  BY <1>2, OpenKeeps DEF Waiting
<1>3. CASE Flock(r, "waitList", "list")
  BY <1>3, FlockKeeps DEF Waiting
<1>4. CASE Decline(r) \/ KeepKey(r) \/ KeyGone(r)
  BY <1>4, CloseKeeps DEF Decline, KeepKey, KeyGone, GiveUp, Goto
<1>5. CASE List(r)
  <2> USE <1>5 DEF List, Goto, fileVars
  <2>1. TypeOK' BY DEF TypeOK, Inside, Waiting, Outside
  <2>2. Locked' BY DEF TypeOK, Locked, Inside, Waiting
  <2>3. FirstFile' BY DEF TypeOK, FirstFile, Removing
  <2>4. Emptied' BY DEF TypeOK, Emptied, RemovedWithoutSessions
  <2> QED BY <2>1, <2>2, <2>3, <2>4
<1>6. ASSUME NEW p \in Projects, Destroy(r, p)
      PROVE  FileLock'
  <2> USE <1>6 DEF Destroy, fileVars
  <2>1. TypeOK' BY DEF TypeOK
  <2>2. Locked' BY DEF TypeOK, Locked
  <2>3. FirstFile' BY DEF TypeOK, FirstFile, Removing
  <2>4. sessions' \subseteq sessions OBVIOUS
  <2>5. ~failed'[r] => ~failed[r] /\ sessions' = sessions \ {p}
    BY DEF TypeOK
  <2>6. Emptied' BY <2>4, <2>5 DEF TypeOK, Emptied, RemovedWithoutSessions
  <2> QED BY <2>1, <2>2, <2>3, <2>6
<1>7. CASE Destroyed(r)
  <2> USE <1>7 DEF Destroyed, Goto, fileVars, userVars
  <2>1. TypeOK' BY DEF TypeOK, Inside, Waiting, Outside
  <2>2. Locked' BY DEF TypeOK, Locked, Inside, Waiting
  <2>3. FirstFile' BY DEF TypeOK, FirstFile, Removing
  <2>4. key => sessions = {} BY DEF Emptied
  <2>5. Emptied' BY <2>4 DEF TypeOK, Emptied, RemovedWithoutSessions
  <2> QED BY <2>1, <2>2, <2>3, <2>5
<1>8. CASE DropKey(r)
  <2> USE <1>8 DEF DropKey, Goto, fileVars
  <2>1. TypeOK' BY DEF TypeOK, Inside, Waiting, Outside
  <2>2. Locked' BY DEF TypeOK, Locked, Inside, Waiting
  <2>3. \A q \in Removers : ~Removing(q) BY DEF FirstFile
  <2>4. \A q \in Removers : Removing(q)' => q = r BY <2>3 DEF TypeOK, Removing
  <2>5. FirstFile' BY <2>4 DEF TypeOK, FirstFile
  <2>6. Emptied' BY DEF TypeOK, Emptied, RemovedWithoutSessions
  <2> QED BY <2>1, <2>2, <2>5, <2>6
<1>9. CASE Unlock(r)
  <2> USE <1>9 DEF Unlock, Goto, Close, userVars
  <2>1. TypeOK' BY DEF TypeOK, Inside, Waiting, Outside
  <2>2. Locked' BY DEF TypeOK, Locked, Inside, Waiting
  <2>3. \A q \in Removers : Removing(q)' <=> Removing(q) BY DEF TypeOK, Removing
  <2>4. FirstFile' BY <2>3 DEF TypeOK, FirstFile
  <2>5. Emptied' BY DEF TypeOK, Emptied, RemovedWithoutSessions
  <2> QED BY <2>1, <2>2, <2>4, <2>5
<1>10. CASE Unlink(r)
  <2> USE <1>10 DEF Unlink, Goto, userVars
  <2>1. TypeOK' BY DEF TypeOK, Inside, Waiting, Outside
  <2>2. Locked' BY DEF TypeOK, Locked, Inside, Waiting
  <2>3. Removing(r) /\ ~Removing(r)' BY DEF TypeOK, Removing
  <2>4. ~key /\ created <= 1 BY <2>3 DEF TypeOK, FirstFile
  <2>5. \A q \in Removers : ~Removing(q)' BY <2>3 DEF TypeOK, FirstFile, Removing
  <2>6. FirstFile' BY <2>4, <2>5 DEF TypeOK, FirstFile
  <2>7. Emptied' BY DEF TypeOK, Emptied, RemovedWithoutSessions
  <2> QED BY <2>1, <2>2, <2>6, <2>7
<1> QED
  BY <1>1, <1>2, <1>3, <1>4, <1>5, <1>6, <1>7, <1>8, <1>9, <1>10 DEF RemoverStep

(* The end of a session without the lock keeps the invariant.              *)
LEMMA EndKeeps ==
    ASSUME FileLock, NEW p \in Projects, EndElsewhere(p)
    PROVE  FileLock'
<1> USE DEF FileLock, EndElsewhere, fileVars
<1>1. TypeOK' BY DEF TypeOK
<1>2. Locked' BY DEF Locked
<1>3. FirstFile' BY DEF FirstFile, Removing
<1>4. Emptied' BY DEF Emptied, RemovedWithoutSessions
<1> QED BY <1>1, <1>2, <1>3, <1>4

-----------------------------------------------------------------------------
(* The inductive invariant of the lock, with crashes and any number of     *)
(* remove-user commands.                                                   *)
THEOREM FileLockInvariant == Spec => []FileLock
<1>1. Init => FileLock
  <2> SUFFICES ASSUME Init PROVE FileLock OBVIOUS
  <2> USE DEF Init, Inside, Waiting, Outside
  <2>1. TypeOK BY DEF TypeOK
  <2>2. Locked BY DEF Locked
  <2>3. FirstFile BY DEF FirstFile, Removing, Procs
  <2>4. Emptied BY DEF Emptied, RemovedWithoutSessions, Procs
  <2> QED BY <2>1, <2>2, <2>3, <2>4 DEF FileLock
<1>2. FileLock /\ [Next]_vars => FileLock'
  <2> SUFFICES ASSUME FileLock, [Next]_vars PROVE FileLock' OBVIOUS
  <2>1. CASE \E l \in Logins : LoginStep(l) BY <2>1, LoginKeeps
  <2>2. CASE \E r \in Removers : RemoverStep(r) BY <2>2, RemoverKeeps
  <2>3. CASE \E p \in Procs : Die(p) BY <2>3, CloseKeeps DEF Die
  <2>4. CASE \E p \in Projects : EndElsewhere(p) BY <2>4, EndKeeps
  <2>5. CASE UNCHANGED vars
    BY <2>5 DEF vars, fileVars, userVars, FileLock, TypeOK, Locked, FirstFile, Emptied,
                Removing, RemovedWithoutSessions
  <2> QED BY <2>1, <2>2, <2>3, <2>4, <2>5 DEF Next
<1> QED BY <1>1, <1>2, PTL DEF Spec

(* The mutex that Connection assumes: until the user is removed, one       *)
(* process at most is between lock.Acquire and the unlock.                 *)
THEOREM MutualExclusion == Spec => []ExclusiveWithKey
<1>1. FileLock => ExclusiveWithKey
  BY OneInside DEF ExclusiveWithKey
<1> QED BY <1>1, FileLockInvariant, PTL

(* Unlinking the file lets in one process more, and never a third.         *)
THEOREM TwoHoldersAtMost == Spec => []TwoAtMost
<1>1. FileLock => TwoAtMost
  <2> SUFFICES ASSUME FileLock, NEW p \in Holding, NEW q \in Holding, NEW s \in Holding
               PROVE  p = q \/ p = s \/ q = s
    BY DEF TwoAtMost
  <2>1. created \in 0..2
    BY DEF FileLock, FirstFile, TypeOK
  <2>2. \A x \in {p, q, s} : x \in Procs /\ holds[x] /\ fd[x] # 0 /\ fd[x] \in 0..created
    BY DEF FileLock, Locked, TypeOK, Holding
  <2>3. \A x \in {p, q, s} : fd[x] \in {1, 2}
    BY <2>1, <2>2
  <2> QED BY <2>2, <2>3 DEF FileLock, Locked
<1> QED BY <1>1, FileLockInvariant, PTL

(* remove-user drops the key of a user who has no session left.            *)
THEOREM RemovalIsClean == Spec => []RemovedWithoutSessions
<1>1. FileLock => RemovedWithoutSessions
  BY DEF FileLock, Emptied
<1> QED BY <1>1, FileLockInvariant, PTL
=============================================================================
