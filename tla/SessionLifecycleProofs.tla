----------------------- MODULE SessionLifecycleProofs -----------------------
(***************************************************************************)
(* Theorems about SessionLifecycle, for any number of connections, stop    *)
(* commands, cleanup passes and projects, and every choice of Events.      *)
(***************************************************************************)
EXTENDS SessionLifecycle, FiniteSetTheorems, TLAPS

-----------------------------------------------------------------------------
(* Type correctness.                                                       *)

(* What a step writes into one entry of a function on the connections.     *)
LEMMA StoreTypes ==
    ASSUME StoreTypeOK, NEW p \in Projects
    PROVE  /\ \A c \in Conns, m \in Modes : CreateSession(p, c, m) =>
                row' \in [Projects -> Session \cup {None}]
           /\ DeleteSession(p) => row' \in [Projects -> Session \cup {None}]
           /\ \A delta \in Int : HasRow(p) /\ UpdateConnections(p, delta) =>
                row' \in [Projects -> Session \cup {None}]
           /\ SetGracePeriod(p) => row' \in [Projects -> Session \cup {None}]
           /\ CancelGracePeriod(p) => row' \in [Projects -> Session \cup {None}]
           /\ RemoveContainer(p) => box' \in [Projects -> Conns \cup {None}]
           /\ \A c \in Conns : CreateContainer(p, c) =>
                box' \in [Projects -> Conns \cup {None}]
<1> USE DEF StoreTypeOK, HasRow, Session
<1>1. ASSUME NEW c \in Conns, NEW m \in Modes, CreateSession(p, c, m)
      PROVE  row' \in [Projects -> Session \cup {None}]
  BY <1>1 DEF CreateSession
<1>2. DeleteSession(p) => row' \in [Projects -> Session \cup {None}]
  BY DEF DeleteSession
<1>3. ASSUME NEW delta \in Int, HasRow(p), UpdateConnections(p, delta)
      PROVE  row' \in [Projects -> Session \cup {None}]
  BY <1>3 DEF UpdateConnections
<1>4. SetGracePeriod(p) => row' \in [Projects -> Session \cup {None}]
  BY DEF SetGracePeriod
<1>5. CancelGracePeriod(p) => row' \in [Projects -> Session \cup {None}]
  BY DEF CancelGracePeriod
<1>6. RemoveContainer(p) => box' \in [Projects -> Conns \cup {None}]
  BY DEF RemoveContainer
<1>7. ASSUME NEW c \in Conns, CreateContainer(p, c)
      PROVE  box' \in [Projects -> Conns \cup {None}]
  BY <1>7 DEF CreateContainer
<1> QED BY <1>1, <1>2, <1>3, <1>4, <1>5, <1>6, <1>7

(* A connection keeps the types of the table, of Docker and of its own.    *)
LEMMA ConnectionTypes ==
    ASSUME TypeOK, NEW c \in Conns, Advance(c) \/ Hangup(c) \/ Crash(c)
    PROVE  StoreTypeOK' /\ ConnTypeOK'
<1> USE ConnectionAssumption DEF TypeOK, StoreTypeOK, ConnTypeOK, storeVars, Goto,
        Steps, LockedSteps, FreeSteps, DestroySteps
<1>0. proj[c] \in Projects /\ mode[c] \in Modes
  OBVIOUS
<1>1. CASE Acquire(c)
  BY <1>1 DEF Acquire
<1>2. CASE AcquireTimesOut(c)
  BY <1>2 DEF AcquireTimesOut, Quit
<1>3. CASE ReconcileStale(c)
  BY <1>3 DEF ReconcileStale, CallDestroy
<1>4. CASE ReconcileGrace(c)
  BY <1>4 DEF ReconcileGrace, CallDestroy
<1>5. CASE ReconcileFails(c)
  BY <1>5 DEF ReconcileFails
<1>6. CASE LookUp(c)
  BY <1>6 DEF LookUp, HasRow, Session
<1>7. CASE Inspect(c)
  BY <1>7 DEF Inspect
<1>8. CASE Forget(c)
  BY <1>8, <1>0, StoreTypes DEF Forget
<1>9. CASE CancelGrace(c)
  BY <1>9, <1>0, StoreTypes DEF CancelGrace
<1>10. CASE Join(c)
  BY <1>10, <1>0, StoreTypes DEF Join, HasRow, Session, Release
<1>11. CASE Admit(c)
  BY <1>11 DEF Admit
<1>12. CASE Create(c)
  BY <1>12, <1>0, StoreTypes DEF Create
<1>13. CASE Boot(c)
  BY <1>13 DEF Boot
<1>14. CASE Record(c)
  BY <1>14, <1>0, StoreTypes DEF Record, Release
<1>15. CASE Refuse(c)
  BY <1>15 DEF Refuse, Fail, Quit, Release
<1>16. CASE JoinTooLate(c)
  BY <1>16 DEF JoinTooLate, Fail, Quit, Release
<1>17. CASE CreateFails(c)
  BY <1>17 DEF CreateFails, Fail, Quit, Release
<1>18. CASE CallFails(c)
  BY <1>18 DEF CallFails, Fail, Quit, Release
<1>19. CASE RollBack(c)
  BY <1>19, <1>0, StoreTypes DEF RollBack, Fail, Quit, Release, TryRemoveContainer
<1>20. CASE HooksDone(c)
  BY <1>20 DEF HooksDone
<1>21. CASE HookFails(c)
  BY <1>21 DEF HookFails
<1>22. CASE CleanupFailed(c)
  BY <1>22 DEF CleanupFailed, CallDestroy, Quit
<1>23. CASE AcquireToLeave(c)
  BY <1>23 DEF AcquireToLeave
<1>24. CASE LeaveTimesOut(c)
  BY <1>24 DEF LeaveTimesOut
<1>25. CASE Drop(c)
  <2>1. row' \in [Projects -> Session \cup {None}]
    <3>1. -1 \in Int
      OBVIOUS
    <3> QED BY <1>25, <1>0, <3>1, StoreTypes DEF Drop
  <2> QED BY <1>25, <1>0, <2>1 DEF Drop, Release
<1>26. CASE DropFails(c)
  BY <1>26 DEF DropFails, Release
<1>27. CASE SettleDestroy(c)
  BY <1>27 DEF SettleDestroy, CallDestroy, Release
<1>28. CASE SettleGrace(c)
  BY <1>28, <1>0, StoreTypes DEF SettleGrace, Release
<1>29. CASE DestroyBox(c)
  BY <1>29, <1>0, StoreTypes DEF DestroyBox, TryRemoveContainer
<1>30. CASE DestroyRow(c)
  BY <1>30, <1>0, StoreTypes DEF DestroyRow, Quit, TryDeleteSession
<1>31. CASE Hangup(c)
  BY <1>31 DEF Hangup
<1>32. CASE Crash(c)
  BY <1>32 DEF Crash
<1> QED
  BY <1>1, <1>2, <1>3, <1>4, <1>5, <1>6, <1>7, <1>8, <1>9, <1>10, <1>11, <1>12, <1>13, <1>14,
     <1>15, <1>16, <1>17, <1>18, <1>19, <1>20, <1>21, <1>22, <1>23, <1>24, <1>25, <1>26, <1>27,
     <1>28, <1>29, <1>30, <1>31, <1>32 DEF Advance

(* So do a stop command and a cleanup pass.                                *)
LEMMA StopTypes ==
    ASSUME TypeOK, NEW s \in Stoppers, StopStep(s) \/ StopperDies(s)
    PROVE  StoreTypeOK' /\ EnderTypeOK'
<1> USE DEF TypeOK, StoreTypeOK, EnderTypeOK, storeVars, sweepVars
<1>1. CASE \E p \in Projects : StopLookUp(s, p)
  BY <1>1 DEF StopLookUp
<1>2. CASE StopBox(s)
  BY <1>2, StoreTypes DEF StopBox, TryRemoveContainer
<1>3. CASE StopRow(s)
  BY <1>3, StoreTypes DEF StopRow, TryDeleteSession
<1>4. CASE StopperDies(s)
  BY <1>4 DEF StopperDies
<1> QED
  BY <1>1, <1>2, <1>3, <1>4 DEF StopStep

(* A step of a cleanup pass keeps the types of the table, of Docker and of *)
(* its own variables.                                                      *)
LEMMA SweepTypes ==
    ASSUME TypeOK, NEW d \in Cleaners, SweepStep(d) \/ CleanerDies(d)
    PROVE  StoreTypeOK' /\ EnderTypeOK'
<1> USE DEF TypeOK, StoreTypeOK, EnderTypeOK, storeVars, stopVars, Sweeps
<1>1. CASE SweepGrace(d)
  BY <1>1 DEF SweepGrace, Queried, ExpiredGracePeriods
<1>2. CASE SweepLifetimes(d)
  BY <1>2 DEF SweepLifetimes, Swept, Queried, ExpiredLifetimes
<1>3. CASE \E p \in Projects : SweepBox(d, p)
  BY <1>3, StoreTypes DEF SweepBox, TryRemoveContainer
<1>4. CASE SweepRow(d)
  BY <1>4, StoreTypes DEF SweepRow, TryDeleteSession
<1>5. CASE SweepContainers(d)
  BY <1>5 DEF SweepContainers, Swept
<1>6. CASE MatchRows(d)
  BY <1>6 DEF MatchRows
<1>7. CASE ListFails(d)
  BY <1>7 DEF ListFails, Swept
<1>8. CASE Rest(d)
  BY <1>8 DEF Rest
<1>9. CASE \E p \in Projects, c \in Conns : Reap(d, p, c)
  BY <1>9, StoreTypes DEF Reap, TryRemoveContainer
<1>10. CASE CleanerDies(d)
  BY <1>10 DEF CleanerDies
<1> QED
  BY <1>1, <1>2, <1>3, <1>4, <1>5, <1>6, <1>7, <1>8, <1>9, <1>10 DEF SweepStep

(* Every variable keeps its type, whatever the numbers of processes and    *)
(* projects, the limits and the events.                                    *)
THEOREM TypeCorrect == Spec => []TypeOK
<1>1. Init => TypeOK
  BY ConnectionAssumption DEF Init, StoreInit, ConnInit, EnderInit, TypeOK, StoreTypeOK,
     ConnTypeOK, EnderTypeOK, Steps, FreeSteps, Sweeps
<1>2. TypeOK /\ [Next]_vars => TypeOK'
  <2> SUFFICES ASSUME TypeOK, [Next]_vars PROVE TypeOK'
    OBVIOUS
  <2>1. ASSUME NEW c \in Conns, ConnStep(c) PROVE TypeOK'
    <3>1. StoreTypeOK' /\ ConnTypeOK'
      BY <2>1, ConnectionTypes DEF ConnStep
    <3>2. EnderTypeOK'
      BY <2>1 DEF ConnStep, TypeOK, EnderTypeOK, enderVars, stopVars, sweepVars
    <3> QED BY <3>1, <3>2 DEF TypeOK
  <2>2. ASSUME EnderStep \/ Deaths PROVE TypeOK'
    <3>1. StoreTypeOK' /\ EnderTypeOK'
      BY <2>2, StopTypes, SweepTypes DEF EnderStep, Deaths
    <3>2. ConnTypeOK'
      BY <2>2 DEF EnderStep, Deaths, TypeOK, ConnTypeOK, connVars
    <3> QED BY <3>1, <3>2 DEF TypeOK
  <2>3. ASSUME NEW p \in Projects, Deadlines(p) \/ Vanishing(p) PROVE TypeOK'
    <3>1. StoreTypeOK'
      <4> USE DEF TypeOK, StoreTypeOK
      <4>1. CASE GracePeriodEnds(p) \/ LifetimeEnds(p)
        BY <4>1 DEF GracePeriodEnds, LifetimeEnds, HasRow, Session
      <4>2. CASE ContainerVanishes(p)
        BY <4>2 DEF ContainerVanishes, RemoveContainer
      <4> QED BY <2>3, <4>1, <4>2 DEF Deadlines, Vanishing
    <3>2. ConnTypeOK' /\ EnderTypeOK'
      BY <2>3 DEF Deadlines, Vanishing, TypeOK, ConnTypeOK, EnderTypeOK,
         connVars, enderVars, stopVars, sweepVars
    <3> QED BY <3>1, <3>2 DEF TypeOK
  <2>4. CASE UNCHANGED vars
    BY <2>4 DEF vars, storeVars, connVars, enderVars, stopVars, sweepVars,
       TypeOK, StoreTypeOK, ConnTypeOK, EnderTypeOK
  <2> QED BY <2>1, <2>2, <2>3, <2>4 DEF Next
<1> QED BY <1>1, <1>2, PTL DEF Spec

-----------------------------------------------------------------------------
(***************************************************************************)
(* What a connection found out under the lock.  Exclusive says of every    *)
(* connection that holds the lock which facts about the table and Docker   *)
(* it may rely on.  Steps of another connection leave them alone because   *)
(* they need the lock; steps of everybody else because they only delete    *)
(* rows, remove containers and pass deadlines.                             *)
(***************************************************************************)
LEMMA ConnectionKeepsExclusive ==
    ASSUME Exclusive, NEW c \in Conns, Advance(c) \/ Hangup(c) \/ Crash(c), TypeOK'
    PROVE  Exclusive'
<1> USE StoreAssumption DEF Exclusive, TypeOK, StoreTypeOK, ConnTypeOK, storeVars, Goto,
        LockedSteps, FreeSteps, DestroySteps, HasRow, InCritical, Session
<1> USE DEF LockHeld, NoRowYet, OwnContainer, RowNamesItsContainer, IdleAtSettle,
        NoGraceAtJoin, GraceOnlyWhenIdle
<1>1. CASE Acquire(c)
  BY <1>1 DEF Acquire
<1>2. CASE AcquireTimesOut(c)
  BY <1>2 DEF AcquireTimesOut, Quit
<1>3. CASE ReconcileStale(c)
  BY <1>3 DEF ReconcileStale, CallDestroy
<1>4. CASE ReconcileGrace(c)
  BY <1>4 DEF ReconcileGrace, CallDestroy
<1>5. CASE ReconcileFails(c)
  BY <1>5 DEF ReconcileFails
<1>6. CASE LookUp(c)
  BY <1>6 DEF LookUp
<1>7. CASE Inspect(c)
  BY <1>7 DEF Inspect
<1>8. CASE Forget(c)
  BY <1>8 DEF Forget, DeleteSession
<1>9. CASE CancelGrace(c)
  BY <1>9 DEF CancelGrace, CancelGracePeriod
<1>10. CASE Join(c)
  BY <1>10 DEF Join, UpdateConnections, Release
<1>11. CASE Admit(c)
  BY <1>11 DEF Admit
<1>12. CASE Create(c)
  BY <1>12 DEF Create, CreateContainer
<1>13. CASE Boot(c)
  BY <1>13 DEF Boot
<1>14. CASE Record(c)
  BY <1>14 DEF Record, CreateSession, Release
<1>15. CASE Refuse(c)
  BY <1>15 DEF Refuse, Fail, Quit, Release
<1>16. CASE JoinTooLate(c)
  BY <1>16 DEF JoinTooLate, Fail, Quit, Release
<1>17. CASE CreateFails(c)
  BY <1>17 DEF CreateFails, Fail, Quit, Release
<1>18. CASE CallFails(c)
  BY <1>18 DEF CallFails, Fail, Quit, Release
<1>19. CASE RollBack(c)
  BY <1>19 DEF RollBack, Fail, Quit, Release, TryRemoveContainer, RemoveContainer
<1>20. CASE HooksDone(c)
  BY <1>20 DEF HooksDone
<1>21. CASE HookFails(c)
  BY <1>21 DEF HookFails
<1>22. CASE CleanupFailed(c)
  BY <1>22 DEF CleanupFailed, CallDestroy, Quit
<1>23. CASE AcquireToLeave(c)
  BY <1>23 DEF AcquireToLeave
<1>24. CASE LeaveTimesOut(c)
  BY <1>24 DEF LeaveTimesOut
<1>25. CASE Drop(c)
  BY <1>25 DEF Drop, UpdateConnections, Release
<1>26. CASE DropFails(c)
  BY <1>26 DEF DropFails, Release
<1>27. CASE SettleDestroy(c)
  BY <1>27 DEF SettleDestroy, CallDestroy, Release
<1>28. CASE SettleGrace(c)
  BY <1>28 DEF SettleGrace, SetGracePeriod, NoGrace, Release
<1>29. CASE DestroyBox(c)
  BY <1>29 DEF DestroyBox, TryRemoveContainer, RemoveContainer
<1>30. CASE DestroyRow(c)
  BY <1>30 DEF DestroyRow, Quit, TryDeleteSession, DeleteSession
<1>31. CASE Hangup(c)
  BY <1>31 DEF Hangup
<1>32. CASE Crash(c)
  BY <1>32 DEF Crash
<1> QED
  BY <1>1, <1>2, <1>3, <1>4, <1>5, <1>6, <1>7, <1>8, <1>9, <1>10, <1>11, <1>12, <1>13, <1>14,
     <1>15, <1>16, <1>17, <1>18, <1>19, <1>20, <1>21, <1>22, <1>23, <1>24, <1>25, <1>26, <1>27,
     <1>28, <1>29, <1>30, <1>31, <1>32 DEF Advance

\* All that the processes without the lock, the clock and Docker itself do.
Fades ==
    /\ \A p \in Projects : HasRow(p)' =>
         /\ HasRow(p)
         /\ row'[p].id = row[p].id
         /\ row'[p].conns = row[p].conns
         /\ row'[p].grace = "none" <=> row[p].grace = "none"
    /\ \A p \in Projects : box'[p] \in {None, box[p]}

(* A step that only deletes rows, removes containers and passes deadlines  *)
(* keeps everything the connections know under the lock.                   *)
LEMMA FadingKeepsExclusive ==
    ASSUME Exclusive, TypeOK', Fades, UNCHANGED connVars
    PROVE  Exclusive'
<1> USE DEF Exclusive, TypeOK, ConnTypeOK, connVars, Fades, HasRow
<1>1. LockHeld'
  BY DEF LockHeld, InCritical
<1>2. NoRowYet'
  BY DEF NoRowYet
<1>3. OwnContainer'
  BY DEF OwnContainer
<1>4. RowNamesItsContainer'
  BY DEF RowNamesItsContainer
<1>5. IdleAtSettle'
  BY DEF IdleAtSettle
<1>6. NoGraceAtJoin'
  BY DEF NoGraceAtJoin
<1>7. GraceOnlyWhenIdle'
  BY DEF GraceOnlyWhenIdle
<1> QED BY <1>1, <1>2, <1>3, <1>4, <1>5, <1>6, <1>7

(* A stop command only deletes rows and removes containers.                *)
LEMMA StopFades ==
    ASSUME TypeOK, NEW s \in Stoppers, StopStep(s) \/ StopperDies(s)
    PROVE  Fades
<1> USE DEF Fades, TypeOK, StoreTypeOK, EnderTypeOK, storeVars, HasRow
<1>1. CASE \E p \in Projects : StopLookUp(s, p)
  BY <1>1 DEF StopLookUp
<1>2. CASE StopBox(s)
  BY <1>2 DEF StopBox, TryRemoveContainer, RemoveContainer
<1>3. CASE StopRow(s)
  BY <1>3 DEF StopRow, TryDeleteSession, DeleteSession
<1>4. CASE StopperDies(s)
  BY <1>4 DEF StopperDies
<1> QED BY <1>1, <1>2, <1>3, <1>4 DEF StopStep

(* A cleanup pass only deletes rows and removes containers.                *)
LEMMA SweepFades ==
    ASSUME TypeOK, NEW d \in Cleaners, SweepStep(d) \/ CleanerDies(d)
    PROVE  Fades
<1> USE DEF Fades, TypeOK, StoreTypeOK, EnderTypeOK, storeVars, HasRow
<1>1. CASE SweepGrace(d) \/ SweepLifetimes(d) \/ SweepContainers(d)
  BY <1>1 DEF SweepGrace, SweepLifetimes, SweepContainers
<1>2. CASE \E p \in Projects : SweepBox(d, p)
  BY <1>2 DEF SweepBox, TryRemoveContainer, RemoveContainer
<1>3. CASE SweepRow(d)
  BY <1>3 DEF SweepRow, TryDeleteSession, DeleteSession
<1>4. CASE MatchRows(d) \/ ListFails(d) \/ Rest(d) \/ CleanerDies(d)
  BY <1>4 DEF MatchRows, ListFails, Rest, CleanerDies
<1>5. CASE \E p \in Projects, c \in Conns : Reap(d, p, c)
  BY <1>5 DEF Reap, TryRemoveContainer, RemoveContainer
<1> QED BY <1>1, <1>2, <1>3, <1>4, <1>5 DEF SweepStep

(* Passing deadlines and vanishing containers add no row and no container. *)
LEMMA TimeFades ==
    ASSUME TypeOK, NEW q \in Projects, Deadlines(q) \/ Vanishing(q)
    PROVE  Fades
<1> USE DEF Fades, TypeOK, StoreTypeOK, HasRow, Session
<1>1. CASE GracePeriodEnds(q) \/ LifetimeEnds(q)
  <2>1. ASSUME NEW p \in Projects, p # q
        PROVE  row'[p] = row[p]
    BY <1>1, <2>1 DEF GracePeriodEnds, LifetimeEnds
  <2>2. /\ HasRow(q)
        /\ row'[q].id = row[q].id
        /\ row'[q].conns = row[q].conns
        /\ row'[q].grace = "none" <=> row[q].grace = "none"
    BY <1>1 DEF GracePeriodEnds, LifetimeEnds
  <2>3. UNCHANGED box
    BY <1>1 DEF GracePeriodEnds, LifetimeEnds
  <2> QED BY <2>1, <2>2, <2>3
<1>2. CASE Vanishing(q)
  BY <1>2 DEF Vanishing, ContainerVanishes, RemoveContainer
<1> QED BY <1>1, <1>2 DEF Deadlines, Vanishing

(* A connection's knowledge of the table and of Docker stays true while it *)
(* holds the lock.                                                         *)
THEOREM ExclusiveInvariant == Spec => []Exclusive
<1>1. Init => Exclusive
  <2> SUFFICES ASSUME Init PROVE Exclusive
    OBVIOUS
  <2>1. TypeOK
    BY ConnectionAssumption DEF Init, StoreInit, ConnInit, EnderInit, TypeOK, StoreTypeOK,
       ConnTypeOK, EnderTypeOK, Steps, FreeSteps, Sweeps
  <2> QED
    BY <2>1 DEF Init, StoreInit, ConnInit, Exclusive, LockHeld, InCritical, LockedSteps,
       DestroySteps, NoRowYet, OwnContainer, RowNamesItsContainer, IdleAtSettle,
       NoGraceAtJoin, GraceOnlyWhenIdle, HasRow
<1>2. TypeOK' /\ Exclusive /\ [Next]_vars => Exclusive'
  <2> SUFFICES ASSUME TypeOK', Exclusive, [Next]_vars PROVE Exclusive'
    OBVIOUS
  <2>1. ASSUME NEW c \in Conns, ConnStep(c) PROVE Exclusive'
    BY <2>1, ConnectionKeepsExclusive DEF ConnStep
  <2>2. CASE EnderStep \/ Deaths
    <3>1. Fades /\ UNCHANGED connVars
      BY <2>2, StopFades, SweepFades DEF EnderStep, Deaths, Exclusive
    <3> QED BY <3>1, FadingKeepsExclusive
  <2>3. ASSUME NEW p \in Projects, Deadlines(p) \/ Vanishing(p) PROVE Exclusive'
    <3>1. Fades /\ UNCHANGED connVars
      BY <2>3, TimeFades DEF Deadlines, Vanishing, Exclusive
    <3> QED BY <3>1, FadingKeepsExclusive
  <2>4. CASE UNCHANGED vars
    BY <2>4 DEF vars, storeVars, connVars, Exclusive, LockHeld, InCritical, NoRowYet,
       OwnContainer, RowNamesItsContainer, IdleAtSettle, NoGraceAtJoin, GraceOnlyWhenIdle,
       HasRow
  <2> QED BY <2>1, <2>2, <2>3, <2>4 DEF Next
<1> QED BY <1>1, <1>2, TypeCorrect, PTL DEF Spec

(* A row and a container of the same name belong together, with every      *)
(* failure, stop command and cleanup pass at any moment.                   *)
THEOREM RowsNameTheirContainers == Spec => []RowNamesItsContainer
<1>1. Exclusive => RowNamesItsContainer
  BY DEF Exclusive
<1> QED BY <1>1, ExclusiveInvariant, PTL

(* No grace period runs on a session that somebody counts on.              *)
THEOREM GracePeriodsAreIdle == Spec => []GraceOnlyWhenIdle
<1>1. Exclusive => GraceOnlyWhenIdle
  BY DEF Exclusive
<1> QED BY <1>1, ExclusiveInvariant, PTL

-----------------------------------------------------------------------------
(* The limit on the sessions of a user.                                    *)

Provisioning == {"create", "boot", "record"}

\* Only Record adds a session, and only Admit lets a connection come to it.
LEMMA OnlyRecordAdds ==
    ASSUME TypeOK, NEW c \in Conns, Advance(c) \/ Hangup(c) \/ Crash(c), ~Record(c)
    PROVE  /\ ListSessionsByUser' \subseteq ListSessionsByUser
           /\ Admit(c) \/ \A d \in Conns : pc'[d] \in Provisioning => pc[d] \in Provisioning
<1> USE DEF TypeOK, StoreTypeOK, ConnTypeOK, storeVars, Goto, Provisioning,
        ListSessionsByUser, HasRow, Session
<1>1. CASE AcquireTimesOut(c)
  BY <1>1 DEF AcquireTimesOut, Quit
<1>2. CASE ReconcileStale(c)
  BY <1>2 DEF ReconcileStale, CallDestroy
<1>3. CASE ReconcileGrace(c)
  BY <1>3 DEF ReconcileGrace, CallDestroy
<1>4. CASE ReconcileFails(c)
  BY <1>4 DEF ReconcileFails
<1>5. CASE LookUp(c)
  BY <1>5 DEF LookUp
<1>6. CASE Inspect(c)
  BY <1>6 DEF Inspect
<1>7. CASE Forget(c)
  BY <1>7 DEF Forget, DeleteSession
<1>8. CASE CancelGrace(c)
  BY <1>8 DEF CancelGrace, CancelGracePeriod
<1>9. CASE Join(c)
  BY <1>9 DEF Join, UpdateConnections
<1>10. CASE Boot(c)
  BY <1>10 DEF Boot
<1>11. CASE Refuse(c)
  BY <1>11 DEF Refuse, Fail, Quit
<1>12. CASE JoinTooLate(c)
  BY <1>12 DEF JoinTooLate, Fail, Quit
<1>13. CASE CreateFails(c)
  BY <1>13 DEF CreateFails, Fail, Quit
<1>14. CASE CallFails(c)
  BY <1>14 DEF CallFails, Fail, Quit
<1>15. CASE RollBack(c)
  BY <1>15 DEF RollBack, Fail, Quit
<1>16. CASE HooksDone(c)
  BY <1>16 DEF HooksDone
<1>17. CASE HookFails(c)
  BY <1>17 DEF HookFails
<1>18. CASE CleanupFailed(c)
  BY <1>18 DEF CleanupFailed, CallDestroy, Quit
<1>19. CASE AcquireToLeave(c)
  BY <1>19 DEF AcquireToLeave
<1>20. CASE LeaveTimesOut(c)
  BY <1>20 DEF LeaveTimesOut
<1>21. CASE Drop(c)
  BY <1>21 DEF Drop, UpdateConnections
<1>22. CASE DropFails(c)
  BY <1>22 DEF DropFails
<1>23. CASE SettleDestroy(c)
  BY <1>23 DEF SettleDestroy, CallDestroy
<1>24. CASE SettleGrace(c)
  BY <1>24 DEF SettleGrace, SetGracePeriod
<1>25. CASE DestroyBox(c)
  BY <1>25 DEF DestroyBox
<1>26. CASE DestroyRow(c)
  BY <1>26 DEF DestroyRow, Quit, TryDeleteSession, DeleteSession
<1>27. CASE Hangup(c)
  BY <1>27 DEF Hangup
<1>28. CASE Crash(c)
  BY <1>28 DEF Crash
<1>29. CASE Acquire(c)
  BY <1>29 DEF Acquire
<1>30. CASE Admit(c)
  BY <1>30 DEF Admit
<1>31. CASE Create(c)
  BY <1>31 DEF Create
<1> QED
  BY <1>1, <1>2, <1>3, <1>4, <1>5, <1>6, <1>7, <1>8, <1>9, <1>10, <1>11, <1>12, <1>13, <1>14,
     <1>15, <1>16, <1>17, <1>18, <1>19, <1>20, <1>21, <1>22, <1>23, <1>24, <1>25, <1>26, <1>27,
     <1>28, <1>29, <1>30, <1>31 DEF Advance

(* Fewer projects with a row means no more sessions for max_per_user to    *)
(* count.                                                                  *)
LEMMA FewerSessions ==
    ASSUME ListSessionsByUser' \subseteq ListSessionsByUser
    PROVE  /\ Cardinality(ListSessionsByUser) \in Nat
           /\ Cardinality(ListSessionsByUser') \in Nat
           /\ Cardinality(ListSessionsByUser') <= Cardinality(ListSessionsByUser)
<1>1. IsFiniteSet(ListSessionsByUser)
  BY StoreAssumption, FS_Subset DEF ListSessionsByUser
<1> QED BY <1>1, FS_Subset, FS_CardinalityType

(* What a connection found out under the lock, the room left under         *)
(* max_per_user included, still holds when it acts on it.                  *)
THEOREM LockedKnowledgeHolds == Spec => []LockedKnowledge
<1> DEFINE Inv == RoomLeft /\ SessionLimit
<1>1. Init => Inv
  <2> SUFFICES ASSUME Init PROVE Inv
    OBVIOUS
  <2>1. ListSessionsByUser = {}
    BY DEF Init, StoreInit, ListSessionsByUser, HasRow
  <2>2. Cardinality(ListSessionsByUser) = 0
    BY <2>1, FS_EmptySet
  <2> QED BY <2>2, ConnectionAssumption DEF Init, ConnInit, RoomLeft, SessionLimit
<1>2. Exclusive /\ Inv /\ [Next]_vars => Inv'
  <2> SUFFICES ASSUME Exclusive, Inv, [Next]_vars, MaxPerUser > 0
               PROVE  Inv'
    BY DEF RoomLeft, SessionLimit
  <2> USE DEF RoomLeft, SessionLimit
  <2>1. ASSUME ListSessionsByUser' \subseteq ListSessionsByUser,
               \A d \in Conns : pc'[d] \in Provisioning => pc[d] \in Provisioning
        PROVE  Inv'
    <3>1. /\ Cardinality(ListSessionsByUser) \in Nat
          /\ Cardinality(ListSessionsByUser') \in Nat
          /\ Cardinality(ListSessionsByUser') <= Cardinality(ListSessionsByUser)
      BY <2>1, FewerSessions
    <3>2. MaxPerUser \in Nat
      BY ConnectionAssumption
    <3>3. SessionLimit'
      BY <3>1, <3>2
    <3>4. RoomLeft'
      BY <2>1, <3>1, <3>2 DEF Provisioning
    <3> QED BY <3>3, <3>4
  <2>2. ASSUME NEW c \in Conns, Record(c) PROVE Inv'
    <3>1. ListSessionsByUser' = ListSessionsByUser \cup {proj[c]}
      <4> USE DEF Exclusive, TypeOK, StoreTypeOK, ConnTypeOK
      <4>1. row'[proj[c]] # None
        <5> DEFINE new == [id |-> c, conns |-> 1, grace |-> "none",
                           overdue |-> FALSE, mode |-> mode[c]]
        <5>1. new \in Session
          BY DEF Session
        <5>2. row'[proj[c]] = new
          BY <2>2 DEF Record, CreateSession
        <5> QED BY <5>1, <5>2, StoreAssumption
      <4>2. \A p \in Projects : p # proj[c] => row'[p] = row[p]
        BY <2>2 DEF Record, CreateSession
      <4> QED BY <4>1, <4>2 DEF ListSessionsByUser, HasRow
    <3>2. proj[c] \notin ListSessionsByUser
      BY <2>2 DEF Record, ListSessionsByUser
    <3>3. IsFiniteSet(ListSessionsByUser)
      BY StoreAssumption, FS_Subset DEF ListSessionsByUser
    <3>4. Cardinality(ListSessionsByUser') = Cardinality(ListSessionsByUser) + 1
      BY <3>1, <3>2, <3>3, FS_AddElement
    <3>5. Cardinality(ListSessionsByUser) < MaxPerUser
      BY <2>2 DEF Record, Goto
    <3>6. \A d \in Conns : pc'[d] \notin Provisioning
      BY <2>2 DEF Record, Goto, Exclusive, TypeOK, ConnTypeOK, LockHeld, InCritical,
         LockedSteps, Provisioning
    <3>7. Cardinality(ListSessionsByUser) \in Nat
      BY <3>3, FS_CardinalityType
    <3> QED BY <3>4, <3>5, <3>6, <3>7, ConnectionAssumption DEF Provisioning
  <2>3. ASSUME NEW c \in Conns, Admit(c) PROVE Inv'
    <3>1. ListSessionsByUser' = ListSessionsByUser
      BY <2>3 DEF Admit, storeVars, ListSessionsByUser, HasRow
    <3> QED BY <2>3, <3>1, ConnectionAssumption DEF Admit, WithinLimit
  <2>4. ASSUME NEW c \in Conns, ConnStep(c) PROVE Inv'
    BY <2>1, <2>2, <2>3, <2>4, OnlyRecordAdds DEF ConnStep, Exclusive
  <2>5. ASSUME Fades, UNCHANGED connVars PROVE Inv'
    BY <2>1, <2>5 DEF Fades, connVars, ListSessionsByUser
  <2>6. CASE EnderStep \/ Deaths
    BY <2>5, <2>6, StopFades, SweepFades DEF EnderStep, Deaths, Exclusive
  <2>7. ASSUME NEW p \in Projects, Deadlines(p) \/ Vanishing(p) PROVE Inv'
    BY <2>5, <2>7, TimeFades DEF Deadlines, Vanishing, Exclusive
  <2>8. CASE UNCHANGED vars
    BY <2>1, <2>8 DEF vars, storeVars, connVars, ListSessionsByUser, HasRow
  <2> QED BY <2>4, <2>6, <2>7, <2>8 DEF Next
<1>3. Exclusive /\ Inv => LockedKnowledge
  BY DEF LockedKnowledge
<1> QED BY <1>1, <1>2, <1>3, ExclusiveInvariant, PTL DEF Spec

(* resources.max_per_user holds over all projects of the user, although    *)
(* the check and the insert are several calls apart.                       *)
THEOREM SessionLimitHolds == Spec => []SessionLimit
<1>1. LockedKnowledge => SessionLimit
  BY DEF LockedKnowledge
<1> QED BY <1>1, LockedKnowledgeHolds, PTL

-----------------------------------------------------------------------------
(* The connection counts.                                                  *)

\* No connection is counted or subtracted; rows may go.
CountsKept ==
    /\ UNCHANGED <<proj, att>>
    /\ \A p \in Projects : HasRow(p)' =>
         HasRow(p) /\ row'[p].id = row[p].id /\ row'[p].conns = row[p].conns

Counting(c) == Join(c) \/ Record(c) \/ Drop(c)

(* Only Join, Record and Drop change a count or who is counted; every      *)
(* other step of a connection keeps or deletes rows.                       *)
LEMMA OthersKeepCounts ==
    ASSUME TypeOK, NEW c \in Conns, Advance(c) \/ Hangup(c) \/ Crash(c), ~Counting(c)
    PROVE  CountsKept /\ \A d \in Conns : Arriving(d)' => Arriving(d)
<1> USE DEF TypeOK, StoreTypeOK, ConnTypeOK, storeVars, Goto, CountsKept, Arriving, HasRow,
        Session, DestroySteps
<1>1. CASE Acquire(c)
  BY <1>1 DEF Acquire
<1>2. CASE AcquireTimesOut(c)
  BY <1>2 DEF AcquireTimesOut, Quit
<1>3. CASE ReconcileStale(c)
  BY <1>3 DEF ReconcileStale, CallDestroy
<1>4. CASE ReconcileGrace(c)
  BY <1>4 DEF ReconcileGrace, CallDestroy
<1>5. CASE ReconcileFails(c)
  BY <1>5 DEF ReconcileFails
<1>6. CASE LookUp(c)
  BY <1>6 DEF LookUp
<1>7. CASE Inspect(c)
  BY <1>7 DEF Inspect
<1>8. CASE Forget(c)
  BY <1>8 DEF Forget, DeleteSession
<1>9. CASE CancelGrace(c)
  BY <1>9 DEF CancelGrace, CancelGracePeriod
<1>10. CASE Admit(c)
  BY <1>10 DEF Admit
<1>11. CASE Create(c)
  BY <1>11 DEF Create
<1>12. CASE Boot(c)
  BY <1>12 DEF Boot
<1>13. CASE Refuse(c)
  BY <1>13 DEF Refuse, Fail, Quit
<1>14. CASE JoinTooLate(c)
  BY <1>14 DEF JoinTooLate, Fail, Quit
<1>15. CASE CreateFails(c)
  BY <1>15 DEF CreateFails, Fail, Quit
<1>16. CASE CallFails(c)
  BY <1>16 DEF CallFails, Fail, Quit
<1>17. CASE RollBack(c)
  BY <1>17 DEF RollBack, Fail, Quit
<1>18. CASE HooksDone(c)
  BY <1>18 DEF HooksDone
<1>19. CASE HookFails(c)
  BY <1>19 DEF HookFails
<1>20. CASE CleanupFailed(c)
  BY <1>20 DEF CleanupFailed, CallDestroy, Quit
<1>21. CASE AcquireToLeave(c)
  BY <1>21 DEF AcquireToLeave
<1>22. CASE LeaveTimesOut(c)
  BY <1>22 DEF LeaveTimesOut
<1>23. CASE DropFails(c)
  BY <1>23 DEF DropFails
<1>24. CASE SettleDestroy(c)
  BY <1>24 DEF SettleDestroy, CallDestroy
<1>25. CASE SettleGrace(c)
  BY <1>25 DEF SettleGrace, SetGracePeriod
<1>26. CASE DestroyBox(c)
  BY <1>26 DEF DestroyBox
<1>27. CASE DestroyRow(c)
  BY <1>27 DEF DestroyRow, Quit, TryDeleteSession, DeleteSession
<1>28. CASE Hangup(c)
  BY <1>28 DEF Hangup
<1>29. CASE Crash(c)
  BY <1>29 DEF Crash
<1> QED
  BY <1>1, <1>2, <1>3, <1>4, <1>5, <1>6, <1>7, <1>8, <1>9, <1>10, <1>11, <1>12, <1>13, <1>14,
     <1>15, <1>16, <1>17, <1>18, <1>19, <1>20, <1>21, <1>22, <1>23, <1>24, <1>25, <1>26, <1>27,
     <1>28, <1>29 DEF Advance, Counting

(* The connections counted by a session are finitely many, so their number *)
(* is a natural number.                                                    *)
LEMMA HoldersFinite ==
    ASSUME NEW p
    PROVE  /\ IsFiniteSet(Holders(p)) /\ IsFiniteSet(Holders(p)')
           /\ Cardinality(Holders(p)) \in Nat /\ Cardinality(Holders(p)') \in Nat
<1>1. Holders(p) \subseteq Conns /\ Holders(p)' \subseteq Conns
  BY DEF Holders
<1> QED BY <1>1, StoreAssumption, FS_Subset, FS_CardinalityType

(* Steps that keep the counts keep what is said of them.                   *)
LEMMA KeptIsCounted ==
    ASSUME TypeOK, Counted, CountsKept, \A d \in Conns : Arriving(d)' => Arriving(d)
    PROVE  Counted'
<1>1. \A p \in Projects : HasRow(p)' => Holders(p)' = Holders(p)
  BY DEF CountsKept, Holders
<1>2. NoPhantomConnections'
  BY <1>1 DEF Counted, NoPhantomConnections, CountsKept
<1> QED BY <1>2 DEF Counted, CountsKept

(* CreateSession leaves a row that counts its creator.                     *)
LEMMA RecordedRow ==
    ASSUME StoreTypeOK, NEW c \in Conns, NEW p \in Projects, NEW m \in Modes, CreateSession(p, c, m)
    PROVE  HasRow(p)' /\ row'[p].id = c /\ row'[p].conns = 1 /\ row'[p].mode = m
                      /\ row'[p].grace = "none" /\ ~row'[p].overdue
<1> DEFINE new == [id |-> c, conns |-> 1, grace |-> "none", overdue |-> FALSE, mode |-> m]
<1>1. new \in Session
  BY DEF Session
<1>2. row'[p] = new
  BY DEF CreateSession, StoreTypeOK
<1>3. row'[p] # None
  BY <1>1, <1>2, StoreAssumption
<1> QED BY <1>2, <1>3 DEF HasRow

(* A reattach is counted by the session of its name, and by no other.      *)
LEMMA JoinHolders ==
    ASSUME TypeOK, Counted, NEW c \in Conns, Join(c), NEW p \in Projects, p = proj[c]
    PROVE  /\ HasRow(p) /\ HasRow(p)' /\ row'[p].id = row[p].id
           /\ row'[p].conns = row[p].conns + 1
           /\ Holders(p)' = Holders(p) \cup {c} /\ c \notin Holders(p)
           /\ \A q \in Projects : q # p =>
                row'[q] = row[q] /\ (HasRow(q) => Holders(q)' = Holders(q))
<1> USE DEF Join, Goto, UpdateConnections, storeVars, TypeOK, StoreTypeOK, ConnTypeOK
<1>1. p \in Projects /\ HasRow(p) /\ row[p] \in Session
  BY DEF HasRow
<1> DEFINE joined == [row[p] EXCEPT !.conns = IF @ + 1 > 0 THEN @ + 1 ELSE 0]
<1>2. /\ joined \in Session
      /\ joined.conns = row[p].conns + 1
      /\ joined.id = row[p].id
  BY <1>1 DEF Session
<1>3. row'[p] = joined
  BY <1>1
<1>4. row'[p] # None
  BY <1>2, <1>3, StoreAssumption
<1>5. att[c] = None
  BY DEF Counted, Arriving
<1>6. \A q \in Projects : q # p => row'[q] = row[q]
  OBVIOUS
<1>7. Holders(p)' = Holders(p) \cup {c} /\ c \notin Holders(p)
  BY <1>1, <1>2, <1>3, <1>4, <1>5, StoreAssumption DEF Holders, HasRow, Session
<1>8. ASSUME NEW q \in Projects, q # p, HasRow(q)
      PROVE  Holders(q)' = Holders(q)
  <2>1. row[q].id # row[p].id
    BY <1>1, <1>8 DEF Counted
  <2>2. row[q].id # None
    BY <1>8, StoreAssumption DEF HasRow, Session
  <2> QED BY <1>5, <1>6, <1>8, <2>1, <2>2 DEF Holders, HasRow
<1> QED BY <1>1, <1>2, <1>3, <1>4, <1>6, <1>7, <1>8 DEF HasRow

(* A new session is counted by its creator, and no other session notices.  *)
LEMMA RecordHolders ==
    ASSUME TypeOK, Counted, NEW c \in Conns, Record(c), NEW p \in Projects, p = proj[c]
    PROVE  /\ HasRow(p)' /\ row'[p].id = c /\ row'[p].conns = 1
           /\ att[c] = None /\ c \in Holders(p)'
           /\ \A q \in Projects : q # p =>
                row'[q] = row[q] /\ (HasRow(q) => Holders(q)' = Holders(q))
<1> USE DEF Record, Goto, storeVars, TypeOK, ConnTypeOK
<1>1. /\ p \in Projects /\ mode[c] \in Modes /\ StoreTypeOK
      /\ CreateSession(p, c, mode[c])
  OBVIOUS
<1>2. HasRow(p)' /\ row'[p].id = c /\ row'[p].conns = 1
  BY <1>1, RecordedRow
<1>3. \A q \in Projects : q # p => row'[q] = row[q]
  BY <1>1 DEF CreateSession, StoreTypeOK
<1>4. att[c] = None
  BY DEF Counted, Arriving
<1>5. att' = [att EXCEPT ![c] = c]
  OBVIOUS
<1>6. c \in Holders(p)'
  BY <1>2, <1>5 DEF Holders
<1>7. ASSUME NEW q \in Projects, q # p, HasRow(q)
      PROVE  Holders(q)' = Holders(q)
  <2>1. row[q].id # None /\ row[q].id # c
    BY <1>7, StoreAssumption DEF Counted, HasRow, Session, StoreTypeOK
  <2> QED BY <1>3, <1>4, <1>5, <1>7, <2>1 DEF Holders, HasRow
<1> QED BY <1>2, <1>3, <1>4, <1>6, <1>7

(* Whoever disconnects is no longer counted and takes one off, which no    *)
(* other session notices.                                                  *)
LEMMA DropHolders ==
    ASSUME TypeOK, Counted, NEW c \in Conns, Drop(c), NEW p \in Projects, p = proj[c]
    PROVE  /\ HasRow(p) /\ HasRow(p)' /\ row'[p].id = row[p].id
           /\ row[p].conns \in Nat
           /\ row'[p].conns = IF row[p].conns > 0 THEN row[p].conns - 1 ELSE 0
           /\ Holders(p)' = Holders(p) \ {c}
           /\ \A q \in Projects : q # p =>
                row'[q] = row[q] /\ (HasRow(q) => Holders(q)' = Holders(q))
<1> USE DEF Drop, Goto, UpdateConnections, storeVars, TypeOK, StoreTypeOK, ConnTypeOK
<1>1. p \in Projects /\ HasRow(p) /\ row[p] \in Session
  BY DEF HasRow
<1> DEFINE left == [row[p] EXCEPT !.conns = IF @ + (-1) > 0 THEN @ + (-1) ELSE 0]
<1>2. /\ left \in Session /\ row[p].conns \in Nat
      /\ left.conns = IF row[p].conns > 0 THEN row[p].conns - 1 ELSE 0
      /\ left.id = row[p].id
  BY <1>1 DEF Session
<1>3. row'[p] = left
  BY <1>1
<1>4. row'[p] # None
  BY <1>2, <1>3, StoreAssumption
<1>5. att' = [att EXCEPT ![c] = None]
  OBVIOUS
<1>6. \A q \in Projects : q # p => row'[q] = row[q]
  OBVIOUS
<1>7. Holders(p)' = Holders(p) \ {c}
  BY <1>1, <1>2, <1>3, <1>4, <1>5, StoreAssumption DEF Holders, HasRow, Session
<1>8. ASSUME NEW q \in Projects, q # p, HasRow(q)
      PROVE  Holders(q)' = Holders(q)
  <2>1. att[c] # row[q].id
    BY <1>8, StoreAssumption DEF Counted, HasRow, Session
  <2>2. row[q].id # None
    BY <1>8, StoreAssumption DEF HasRow, Session
  <2> QED BY <1>5, <1>6, <1>8, <2>1, <2>2 DEF Holders, HasRow
<1> QED BY <1>1, <1>2, <1>3, <1>4, <1>6, <1>7, <1>8 DEF HasRow

(* A reattach raises the count of a session it was not yet a holder of.    *)
LEMMA JoinIsCounted ==
    ASSUME TypeOK, Counted, NEW c \in Conns, Join(c)
    PROVE  Counted'
<1>1. PICK p \in Projects : p = proj[c]
  BY DEF TypeOK, ConnTypeOK
<1>2. /\ HasRow(p) /\ HasRow(p)' /\ row'[p].id = row[p].id
      /\ row'[p].conns = row[p].conns + 1
      /\ Holders(p)' = Holders(p) \cup {c} /\ c \notin Holders(p)
      /\ \A q \in Projects : q # p =>
           row'[q] = row[q] /\ (HasRow(q) => Holders(q)' = Holders(q))
  BY <1>1, JoinHolders
<1>3. /\ UNCHANGED proj
      /\ att' = [att EXCEPT ![c] = row[p].id]
      /\ \A d \in Conns : Arriving(d)' => d # c /\ Arriving(d)
  BY <1>1 DEF Join, Goto, Arriving, DestroySteps, TypeOK, ConnTypeOK
<1>4. NoPhantomConnections'
  <2>1. Cardinality(Holders(p)') = Cardinality(Holders(p)) + 1
    BY <1>2, HoldersFinite, FS_AddElement
  <2>2. row[p].conns <= Cardinality(Holders(p)) /\ row[p].conns \in Nat
    BY <1>2 DEF Counted, NoPhantomConnections, Session, TypeOK, StoreTypeOK, HasRow
  <2>3. row'[p].conns <= Cardinality(Holders(p)')
    BY <1>2, <2>1, <2>2, HoldersFinite
  <2> QED BY <1>2, <2>3 DEF Counted, NoPhantomConnections, HasRow
<1>5. \A q \in Projects : HasRow(q)' => proj'[row'[q].id] = q
  BY <1>2, <1>3 DEF Counted, HasRow
<1>6. \A d \in Conns : att'[d] # None => proj'[att'[d]] = proj'[d]
  BY <1>1, <1>2, <1>3 DEF Counted, TypeOK, ConnTypeOK
<1>7. \A d \in Conns : Arriving(d)' => att'[d] = None
  BY <1>3 DEF Counted, TypeOK, ConnTypeOK
<1> QED BY <1>4, <1>5, <1>6, <1>7 DEF Counted

(* A new session is counted by the connection that created it and by       *)
(* nobody else.                                                            *)
LEMMA RecordIsCounted ==
    ASSUME TypeOK, Counted, NEW c \in Conns, Record(c)
    PROVE  Counted'
<1>1. PICK p \in Projects : p = proj[c]
  BY DEF TypeOK, ConnTypeOK
<1>2. /\ HasRow(p)' /\ row'[p].id = c /\ row'[p].conns = 1
      /\ c \in Holders(p)'
      /\ \A q \in Projects : q # p =>
           row'[q] = row[q] /\ (HasRow(q) => Holders(q)' = Holders(q))
  BY <1>1, RecordHolders
<1>3. /\ UNCHANGED proj
      /\ att' = [att EXCEPT ![c] = c]
      /\ \A d \in Conns : Arriving(d)' => d # c /\ Arriving(d)
  BY DEF Record, Goto, Arriving, DestroySteps, TypeOK, ConnTypeOK
<1>4. NoPhantomConnections'
  <2>1. Cardinality(Holders(p)') >= 1
    <3>1. {c} \subseteq Holders(p)' /\ Cardinality({c}) = 1
      BY <1>2, FS_Singleton
    <3> QED BY <3>1, HoldersFinite, FS_Subset
  <2> QED BY <1>2, <2>1 DEF Counted, NoPhantomConnections, HasRow
<1>5. \A q \in Projects : HasRow(q)' => proj'[row'[q].id] = q
  BY <1>1, <1>2, <1>3 DEF Counted, HasRow
<1>6. \A d \in Conns : att'[d] # None => proj'[att'[d]] = proj'[d]
  BY <1>3 DEF Counted, TypeOK, ConnTypeOK
<1>7. \A d \in Conns : Arriving(d)' => att'[d] = None
  BY <1>3 DEF Counted, TypeOK, ConnTypeOK
<1> QED BY <1>4, <1>5, <1>6, <1>7 DEF Counted

\* Whoever disconnects, counted or not, takes one off the session of that name.
LEMMA DropIsCounted ==
    ASSUME TypeOK, Counted, NEW c \in Conns, Drop(c)
    PROVE  Counted'
<1>1. PICK p \in Projects : p = proj[c]
  BY DEF TypeOK, ConnTypeOK
<1>2. /\ HasRow(p) /\ HasRow(p)' /\ row'[p].id = row[p].id /\ row[p].conns \in Nat
      /\ row'[p].conns = IF row[p].conns > 0 THEN row[p].conns - 1 ELSE 0
      /\ Holders(p)' = Holders(p) \ {c}
      /\ \A q \in Projects : q # p =>
           row'[q] = row[q] /\ (HasRow(q) => Holders(q)' = Holders(q))
  BY <1>1, DropHolders
<1>3. /\ UNCHANGED proj
      /\ att' = [att EXCEPT ![c] = None]
      /\ \A d \in Conns : Arriving(d)' => Arriving(d)
  BY DEF Drop, Goto, Arriving, DestroySteps, TypeOK, ConnTypeOK
<1>4. NoPhantomConnections'
  <2>1. Cardinality(Holders(p) \ {c}) = IF c \in Holders(p)
                                         THEN Cardinality(Holders(p)) - 1
                                         ELSE Cardinality(Holders(p))
    BY HoldersFinite, FS_RemoveElement
  <2>2. row[p].conns <= Cardinality(Holders(p))
    BY <1>2 DEF Counted, NoPhantomConnections
  <2>3. Cardinality(Holders(p)') = Cardinality(Holders(p) \ {c})
    BY <1>2
  <2>4. Cardinality(Holders(p)) \in Nat /\ Cardinality(Holders(p)') \in Nat
    BY HoldersFinite
  <2>5. row'[p].conns <= Cardinality(Holders(p)')
    BY <1>2, <2>1, <2>2, <2>3, <2>4
  <2> QED BY <1>2, <2>5 DEF Counted, NoPhantomConnections, HasRow
<1>5. \A q \in Projects : HasRow(q)' => proj'[row'[q].id] = q
  BY <1>2, <1>3 DEF Counted, HasRow
<1>6. \A d \in Conns : att'[d] # None => proj'[att'[d]] = proj'[d]
  BY <1>3 DEF Counted, TypeOK, ConnTypeOK
<1>7. \A d \in Conns : Arriving(d)' => att'[d] = None
  BY <1>3 DEF Counted, TypeOK, ConnTypeOK
<1> QED BY <1>4, <1>5, <1>6, <1>7 DEF Counted

(* Who is counted, and by which session, whatever happens.                 *)
THEOREM CountsInvariant == Spec => []Counted
<1>1. Init => Counted
  BY StoreAssumption DEF Init, StoreInit, ConnInit, Counted, NoPhantomConnections, HasRow
<1>2. TypeOK /\ Counted /\ [Next]_vars => Counted'
  <2> SUFFICES ASSUME TypeOK, Counted, [Next]_vars PROVE Counted'
    OBVIOUS
  <2>1. ASSUME NEW c \in Conns, ConnStep(c), Counting(c) PROVE Counted'
    BY <2>1, JoinIsCounted, RecordIsCounted, DropIsCounted DEF Counting
  <2>2. ASSUME NEW c \in Conns, ConnStep(c), ~Counting(c) PROVE Counted'
    BY <2>2, OthersKeepCounts, KeptIsCounted DEF ConnStep
  <2>3. ASSUME Fades, UNCHANGED connVars PROVE Counted'
    <3>1. CountsKept /\ \A d \in Conns : Arriving(d)' => Arriving(d)
      BY <2>3 DEF Fades, connVars, CountsKept, Arriving
    <3> QED BY <3>1, KeptIsCounted
  <2>4. CASE EnderStep \/ Deaths
    BY <2>3, <2>4, StopFades, SweepFades DEF EnderStep, Deaths
  <2>5. ASSUME NEW p \in Projects, Deadlines(p) \/ Vanishing(p) PROVE Counted'
    BY <2>3, <2>5, TimeFades DEF Deadlines, Vanishing
  <2>6. CASE UNCHANGED vars
    <3>1. CountsKept /\ \A d \in Conns : Arriving(d)' => Arriving(d)
      BY <2>6 DEF vars, storeVars, connVars, CountsKept, Arriving, HasRow
    <3> QED BY <3>1, KeptIsCounted
  <2> QED BY <2>1, <2>2, <2>4, <2>5, <2>6 DEF Next
<1> QED BY <1>1, <1>2, TypeCorrect, PTL DEF Spec

(* A session counts no connection that is not there to be subtracted: the  *)
(* count can leak below or with a killed process, but never by itself.     *)
THEOREM CountsHaveConnections == Spec => []NoPhantomConnections
<1>1. Counted => NoPhantomConnections
  BY DEF Counted
<1> QED BY <1>1, CountsInvariant, PTL

-----------------------------------------------------------------------------
(***************************************************************************)
(* Reference counting, when connections are the only ones to end sessions. *)
(*                                                                         *)
(* Alone leaves out what does break it.  Stop commands, cleanup passes and *)
(* cleanupFailedSession ("hook") end a session that others share; a        *)
(* container that vanishes, or is taken for alive ("inspect"), is not the  *)
(* session's; and a connection that gives up before it was counted, at the *)
(* limit, by "runTimeout" or after a failed call, still takes one off in   *)
(* Disconnect.  Processes may be killed at any moment, waits for the lock  *)
(* in Disconnect may time out, removals may fail, and time passes.         *)
(***************************************************************************)
Alone ==
    /\ Stoppers = {}
    /\ Cleaners = {}
    /\ MaxPerUser = 0
    /\ Events \cap {"runTimeout", "call", "inspect", "hook", "vanish"} = {}

\* An orphan container keeps connections from getting a session of this name.
Blocked(p) ==
    /\ ~HasRow(p)
    /\ box[p] # None
    /\ \A c \in Conns : pc[c] \in {"boot", "record"} => proj[c] # p

\* A connection's session is that of its project, with its own container.
Held ==
    \A c \in Conns : att[c] # None =>
        HasRow(proj[c]) /\ row[proj[c]].id = att[c] /\ box[proj[c]] = att[c]

\* What a connection may rely on at each step; in particular, it leaves a session
\* uncounted only if there is none.
Knows(c) ==
    /\ pc[c] # "failed"
    /\ pc[c] \in {"hooks", "attached"} => att[c] # None
    /\ pc[c] \in {"leave", "drop"} => att[c] # None \/ Blocked(proj[c])
    /\ pc[c] \in {"inspect", "forget", "cancel", "join", "settle"} \cup DestroySteps
         => HasRow(proj[c])
    /\ pc[c] = "forget" => box[proj[c]] = None
    /\ pc[c] \in {"cancel", "join"} => box[proj[c]] # None
    /\ pc[c] \in {"boot", "record"} => box[proj[c]] = c
    /\ pc[c] \in DestroySteps => row[proj[c]].conns = 0 /\ after[c] # "leave"

Undisturbed == Held /\ \A c \in Conns : Knows(c)

(* A session whose count is zero has no connection that it counts.         *)
LEMMA IdleHasNoHolders ==
    ASSUME CountIsExact, NEW p \in Projects, HasRow(p), row[p].conns = 0
    PROVE  \A c \in Conns : att[c] # row[p].id
<1>1. Cardinality(Holders(p)) = 0 /\ IsFiniteSet(Holders(p))
  BY HoldersFinite DEF CountIsExact
<1>2. Holders(p) = {}
  BY <1>1, FS_EmptySet
<1> QED BY <1>2 DEF Holders

\* The steps that are left when connections are alone.
Allowed(c) ==
    \/ Acquire(c) \/ ReconcileStale(c) \/ ReconcileGrace(c)
    \/ LookUp(c) \/ Inspect(c) \/ Forget(c) \/ CancelGrace(c) \/ Join(c)
    \/ Admit(c) \/ Create(c) \/ Boot(c) \/ Record(c) \/ CreateFails(c)
    \/ HooksDone(c) \/ AcquireToLeave(c) \/ LeaveTimesOut(c)
    \/ Drop(c) \/ DropFails(c) \/ SettleDestroy(c) \/ SettleGrace(c)
    \/ DestroyBox(c) \/ DestroyRow(c) \/ Hangup(c) \/ Crash(c)

(* The steps that Alone leaves.                                            *)
LEMMA OnlyAllowed ==
    ASSUME Alone, TypeOK, NoRowYet, NEW c \in Conns, Knows(c), Advance(c) \/ Hangup(c) \/ Crash(c)
    PROVE  Allowed(c)
<1> USE DEF Alone, Can, Knows
<1>1. ~AcquireTimesOut(c) /\ ~ReconcileFails(c) /\ ~CallFails(c) /\ ~HookFails(c)
  BY DEF AcquireTimesOut, ReconcileFails, CallFails, HookFails
<1>2. ~Refuse(c)
  BY DEF Refuse, WithinLimit
<1>3. ~JoinTooLate(c)
  BY DEF JoinTooLate, Fail, Goto
<1>4. ~RollBack(c)
  BY DEF RollBack, NoRowYet
<1>5. ~CleanupFailed(c)
  BY DEF CleanupFailed, CallDestroy, Goto
<1> QED BY <1>1, <1>2, <1>3, <1>4, <1>5 DEF Advance, Allowed

(* A step of a connection leaves the others their session and container:   *)
(* it deletes a row, or removes a container, that nobody is counted in.    *)
LEMMA ConnectionKeepsHeld ==
    ASSUME Alone, Exclusive, TypeOK', Counted, CountIsExact, Undisturbed, NEW c \in Conns,
       Allowed(c)
    PROVE  Held'
<1> USE StoreAssumption DEF Exclusive, TypeOK, StoreTypeOK, ConnTypeOK, storeVars, Goto,
        LockedSteps, FreeSteps, DestroySteps, HasRow, InCritical, Session
<1> USE DEF LockHeld, NoRowYet, OwnContainer, RowNamesItsContainer, GraceOnlyWhenIdle
<1> USE DEF Undisturbed, Held, Knows
<1>0. \A p \in Projects : HasRow(p) /\ row[p].conns = 0 => \A d \in Conns : att[d] # row[p].id
  BY IdleHasNoHolders
<1>1. CASE Acquire(c)
  BY <1>0, <1>1 DEF Acquire
<1>2. CASE ReconcileStale(c)
  BY <1>0, <1>2 DEF ReconcileStale, CallDestroy, StaleZeroConnections
<1>3. CASE ReconcileGrace(c)
  BY <1>0, <1>3 DEF ReconcileGrace, CallDestroy
<1>4. CASE LookUp(c)
  BY <1>0, <1>4 DEF LookUp
<1>5. CASE Inspect(c)
  BY <1>0, <1>5 DEF Inspect, Alone, Can
<1>6. CASE Forget(c)
  BY <1>0, <1>6 DEF Forget, DeleteSession
<1>7. CASE CancelGrace(c)
  BY <1>0, <1>7 DEF CancelGrace, CancelGracePeriod
<1>8. CASE Join(c)
  BY <1>0, <1>8 DEF Join, UpdateConnections, Release
<1>9. CASE Admit(c)
  BY <1>0, <1>9 DEF Admit
<1>10. CASE Create(c)
  BY <1>0, <1>10 DEF Create, CreateContainer
<1>11. CASE Boot(c)
  BY <1>0, <1>11 DEF Boot
<1>12. CASE Record(c)
  <2>1. HasRow(proj[c])' /\ row'[proj[c]].id = c
    BY <1>12, RecordedRow DEF Record
  <2>2. \A p \in Projects : p # proj[c] => row'[p] = row[p]
    BY <1>12 DEF Record, CreateSession
  <2>3. \A d \in Conns : proj[d] = proj[c] => att[d] = None
    BY <1>12 DEF Record
  <2> QED BY <1>12, <2>1, <2>2, <2>3 DEF Record
<1>13. CASE CreateFails(c)
  BY <1>0, <1>13 DEF CreateFails, Fail, Quit, Release, Alone, Can
<1>14. CASE HooksDone(c)
  BY <1>0, <1>14 DEF HooksDone
<1>15. CASE AcquireToLeave(c)
  BY <1>0, <1>15 DEF AcquireToLeave
<1>16. CASE LeaveTimesOut(c)
  BY <1>0, <1>16 DEF LeaveTimesOut
<1>17. CASE Drop(c)
  BY <1>0, <1>17 DEF Drop, UpdateConnections, Release
<1>18. CASE DropFails(c)
  BY <1>0, <1>18 DEF DropFails, Release
<1>19. CASE SettleDestroy(c)
  BY <1>0, <1>19 DEF SettleDestroy, CallDestroy, Release
<1>20. CASE SettleGrace(c)
  BY <1>0, <1>20 DEF SettleGrace, SetGracePeriod, Release
<1>21. CASE DestroyBox(c)
  BY <1>0, <1>21 DEF DestroyBox, TryRemoveContainer, RemoveContainer
<1>22. CASE DestroyRow(c)
  BY <1>0, <1>22 DEF DestroyRow, TryDeleteSession, DeleteSession, Quit
<1>23. CASE Hangup(c)
  BY <1>0, <1>23 DEF Hangup
<1>24. CASE Crash(c)
  BY <1>0, <1>24 DEF Crash
<1> QED
  BY <1>1, <1>2, <1>3, <1>4, <1>5, <1>6, <1>7, <1>8, <1>9, <1>10, <1>11, <1>12, <1>13, <1>14,
     <1>15, <1>16, <1>17, <1>18, <1>19, <1>20, <1>21, <1>22, <1>23, <1>24 DEF Allowed

(* What a connection relies on survives its own steps, which set it up for *)
(* the next one, and those of others, which need the lock to disturb it.   *)
LEMMA ConnectionKeepsKnowing ==
    ASSUME Alone, Exclusive, TypeOK', Counted, CountIsExact, Undisturbed, NEW c \in Conns,
       Allowed(c)
    PROVE  \A d \in Conns : Knows(d)'
<1> USE StoreAssumption DEF Exclusive, TypeOK, StoreTypeOK, ConnTypeOK, storeVars, Goto,
        LockedSteps, FreeSteps, DestroySteps, HasRow, InCritical, Session
<1> USE DEF LockHeld, NoRowYet, OwnContainer, RowNamesItsContainer, GraceOnlyWhenIdle, IdleAtSettle
<1> USE DEF Undisturbed, Held, Knows, Blocked
<1>0. \A p \in Projects : HasRow(p) /\ row[p].conns = 0 => \A d \in Conns : att[d] # row[p].id
  BY IdleHasNoHolders
<1>1. CASE Acquire(c)
  BY <1>0, <1>1 DEF Acquire
<1>2. CASE ReconcileStale(c)
  BY <1>0, <1>2 DEF ReconcileStale, CallDestroy, StaleZeroConnections
<1>3. CASE ReconcileGrace(c)
  BY <1>0, <1>3 DEF ReconcileGrace, CallDestroy
<1>4. CASE LookUp(c)
  BY <1>0, <1>4 DEF LookUp
<1>5. CASE Inspect(c)
  BY <1>0, <1>5 DEF Inspect, Alone, Can
<1>6. CASE Forget(c)
  BY <1>0, <1>6 DEF Forget, DeleteSession
<1>7. CASE CancelGrace(c)
  BY <1>0, <1>7 DEF CancelGrace, CancelGracePeriod
<1>8. CASE Join(c)
  BY <1>0, <1>8 DEF Join, UpdateConnections, Release
<1>9. CASE Admit(c)
  BY <1>0, <1>9 DEF Admit
<1>10. CASE Create(c)
  BY <1>0, <1>10 DEF Create, CreateContainer
<1>11. CASE Boot(c)
  BY <1>0, <1>11 DEF Boot
<1>12. CASE Record(c)
  BY <1>0, <1>12 DEF Record, CreateSession, Release
<1>13. CASE CreateFails(c)
  BY <1>0, <1>13 DEF CreateFails, Fail, Quit, Release, Alone, Can
<1>14. CASE HooksDone(c)
  BY <1>0, <1>14 DEF HooksDone
<1>15. CASE AcquireToLeave(c)
  BY <1>0, <1>15 DEF AcquireToLeave
<1>16. CASE LeaveTimesOut(c)
  BY <1>0, <1>16 DEF LeaveTimesOut
<1>17. CASE Drop(c)
  BY <1>0, <1>17 DEF Drop, UpdateConnections, Release
<1>18. CASE DropFails(c)
  BY <1>0, <1>18 DEF DropFails, Release
<1>19. CASE SettleDestroy(c)
  BY <1>0, <1>19 DEF SettleDestroy, CallDestroy, Release
<1>20. CASE SettleGrace(c)
  BY <1>0, <1>20 DEF SettleGrace, SetGracePeriod, Release
<1>21. CASE DestroyBox(c)
  BY <1>0, <1>21 DEF DestroyBox, TryRemoveContainer, RemoveContainer
<1>22. CASE DestroyRow(c)
  BY <1>0, <1>22 DEF DestroyRow, TryDeleteSession, DeleteSession, Quit
<1>23. CASE Hangup(c)
  BY <1>0, <1>23 DEF Hangup
<1>24. CASE Crash(c)
  BY <1>0, <1>24 DEF Crash
<1> QED
  BY <1>1, <1>2, <1>3, <1>4, <1>5, <1>6, <1>7, <1>8, <1>9, <1>10, <1>11, <1>12, <1>13, <1>14,
     <1>15, <1>16, <1>17, <1>18, <1>19, <1>20, <1>21, <1>22, <1>23, <1>24 DEF Allowed

(* Nobody else holds what a connection has just created.                   *)
LEMMA RecordHolder ==
    ASSUME TypeOK, Counted, Undisturbed, NEW c \in Conns, Record(c),
           NEW p \in Projects, p = proj[c]
    PROVE  Holders(p)' = {c}
<1>0. HasRow(p)' /\ row'[p].id = c /\ c \in Holders(p)'
  BY RecordHolders
<1>1. \A d \in Conns : d # c => att'[d] # c
  <2>1. \A d \in Conns : d # c => att'[d] = att[d]
    BY DEF Record, TypeOK, ConnTypeOK
  <2>2. ~HasRow(p)
    BY DEF Record
  <2>3. \A d \in Conns : att[d] = c => proj[d] = p
    BY StoreAssumption DEF Counted
  <2> QED BY <2>1, <2>2, <2>3, StoreAssumption DEF Undisturbed, Held
<1>2. Holders(p)' \subseteq Conns /\ \A d \in Holders(p)' : att'[d] = row'[p].id
  BY DEF Holders
<1> QED BY <1>0, <1>1, <1>2

(* Only those that are counted come to subtract themselves.                *)
LEMMA DropperCounted ==
    ASSUME Undisturbed, NEW c \in Conns, Drop(c), NEW p \in Projects, p = proj[c]
    PROVE  c \in Holders(p)
<1>1. pc[c] = "drop" /\ HasRow(p)
  BY DEF Drop, Goto
<1>2. att[c] # None
  BY <1>1 DEF Undisturbed, Knows, Blocked
<1> QED BY <1>1, <1>2 DEF Undisturbed, Held, Holders

(* No step of a connection makes the count differ from the connections     *)
(* that are counted.                                                       *)
LEMMA CountStaysExact ==
    ASSUME TypeOK, Counted, Exclusive, Undisturbed, CountIsExact,
           NEW c \in Conns, Advance(c) \/ Hangup(c) \/ Crash(c)
    PROVE  CountIsExact'
<1>0. PICK p \in Projects : p = proj[c]
  BY DEF TypeOK, ConnTypeOK
<1>1. CASE ~Counting(c)
  <2>1. CountsKept
    BY <1>1, OthersKeepCounts
  <2>2. \A q \in Projects : HasRow(q)' => Holders(q)' = Holders(q)
    BY <2>1 DEF CountsKept, Holders
  <2> QED BY <2>1, <2>2 DEF CountIsExact, CountsKept
<1>2. CASE Join(c)
  <2>0. /\ HasRow(p) /\ HasRow(p)' /\ row'[p].conns = row[p].conns + 1
        /\ Holders(p)' = Holders(p) \cup {c} /\ c \notin Holders(p)
        /\ \A q \in Projects : q # p =>
             row'[q] = row[q] /\ (HasRow(q) => Holders(q)' = Holders(q))
    BY <1>0, <1>2, JoinHolders
  <2>1. Cardinality(Holders(p)') = Cardinality(Holders(p)) + 1
    BY <2>0, HoldersFinite, FS_AddElement
  <2>2. row'[p].conns = Cardinality(Holders(p)')
    BY <1>0, <2>0, <2>1 DEF CountIsExact
  <2> QED BY <2>0, <2>2 DEF CountIsExact, HasRow
<1>3. CASE Record(c)
  <2>0. /\ HasRow(p)' /\ row'[p].conns = 1
        /\ c \in Holders(p)'
        /\ \A q \in Projects : q # p =>
             row'[q] = row[q] /\ (HasRow(q) => Holders(q)' = Holders(q))
    BY <1>0, <1>3, RecordHolders
  <2>2. Holders(p)' = {c}
    BY <1>0, <1>3, RecordHolder
  <2>3. Cardinality(Holders(p)') = 1
    BY <2>2, FS_Singleton
  <2> QED BY <2>0, <2>3 DEF CountIsExact, HasRow
<1>4. CASE Drop(c)
  <2>0. /\ HasRow(p) /\ HasRow(p)' /\ row[p].conns \in Nat
        /\ row'[p].conns = IF row[p].conns > 0 THEN row[p].conns - 1 ELSE 0
        /\ Holders(p)' = Holders(p) \ {c}
        /\ \A q \in Projects : q # p =>
             row'[q] = row[q] /\ (HasRow(q) => Holders(q)' = Holders(q))
    BY <1>0, <1>4, DropHolders
  <2>3. c \in Holders(p)
    BY <1>0, <1>4, DropperCounted
  <2>4. /\ Cardinality(Holders(p)') = Cardinality(Holders(p)) - 1
        /\ Cardinality(Holders(p)) \in Nat /\ Cardinality(Holders(p)') \in Nat
    BY <2>0, <2>3, HoldersFinite, FS_RemoveElement
  <2>5. row'[p].conns = Cardinality(Holders(p)')
    BY <2>0, <2>4 DEF CountIsExact
  <2> QED BY <2>0, <2>5 DEF CountIsExact, HasRow
<1> QED BY <1>1, <1>2, <1>3, <1>4 DEF Counting

\* All that passing time does: no row or container comes or goes.
Ages ==
    /\ UNCHANGED <<box, connVars>>
    /\ \A p \in Projects :
         /\ HasRow(p)' <=> HasRow(p)
         /\ HasRow(p) =>
              /\ row'[p].id = row[p].id
              /\ row'[p].conns = row[p].conns
              /\ row'[p].mode = row[p].mode
              /\ row'[p].grace = "none" <=> row[p].grace = "none"

(* When connections are alone, all that happens besides their steps is     *)
(* that deadlines pass.                                                    *)
LEMMA ElseAges ==
    ASSUME Alone, TypeOK, TypeOK',
           [Next]_vars, \A c \in Conns : ~(Advance(c) \/ Hangup(c) \/ Crash(c))
    PROVE  Ages
<1> USE DEF Ages, TypeOK, StoreTypeOK, HasRow, Session
<1>1. ~EnderStep /\ ~Deaths
  BY DEF EnderStep, Deaths, Alone
<1>2. ASSUME NEW q \in Projects, Deadlines(q) PROVE Ages
  <2> USE <1>2 DEF Deadlines
  <2>1. \A p \in Projects : p # q => row'[p] = row[p]
    BY DEF GracePeriodEnds, LifetimeEnds
  <2>2. UNCHANGED <<box, connVars>>
    BY DEF GracePeriodEnds, LifetimeEnds
  <2>3. HasRow(q) /\ row[q] \in Session
    BY DEF GracePeriodEnds, LifetimeEnds
  <2>4. \/ row'[q] = [row[q] EXCEPT !.grace = "over"] /\ row[q].grace = "open"
        \/ row'[q] = [row[q] EXCEPT !.overdue = TRUE]
    BY <2>3 DEF GracePeriodEnds, LifetimeEnds
  <2>5. row'[q] \in Session
    BY <2>3, <2>4
  <2>6. row'[q] # None
    BY <2>5, StoreAssumption
  <2> QED BY <2>1, <2>2, <2>3, <2>4, <2>6
<1>3. \A q \in Projects : ~Vanishing(q)
  BY DEF Vanishing, Alone, Can
<1>4. CASE UNCHANGED vars
  BY <1>4 DEF vars, storeVars
<1> QED BY <1>1, <1>2, <1>3, <1>4 DEF Next, ConnStep

(* Passing time changes nothing that reference counting relies on.         *)
LEMMA AgingKeepsCounts ==
    ASSUME Ages, TypeOK, CountIsExact, Undisturbed
    PROVE  CountIsExact' /\ Undisturbed'
<1> USE DEF Ages, connVars
<1>1. CountIsExact'
  <2>1. \A p \in Projects : HasRow(p) => Holders(p)' = Holders(p)
    BY DEF Holders
  <2> QED BY <2>1 DEF CountIsExact
<1>2. \A c \in Conns : proj[c] \in Projects
  BY DEF TypeOK, ConnTypeOK
<1>3. Held'
  BY <1>2 DEF Undisturbed, Held
<1>4. \A c \in Conns : Knows(c)'
  BY <1>2 DEF Undisturbed, Knows, Blocked
<1> QED BY <1>1, <1>3, <1>4 DEF Undisturbed

\* The inductive invariant of reference counting.
Referenced == Exclusive /\ Counted /\ CountIsExact /\ Undisturbed

(* While connections are the only ones to end sessions, everything that    *)
(* reference counting relies on holds.                                     *)
THEOREM CountingHolds == ASSUME Alone PROVE Spec => []Referenced
<1>1. Init => CountIsExact /\ Undisturbed
  BY StoreAssumption DEF Init, StoreInit, ConnInit, CountIsExact, Undisturbed, Held, Knows,
     DestroySteps, HasRow
<1>2. TypeOK /\ TypeOK' /\ Exclusive /\ Counted /\ CountIsExact /\ Undisturbed /\ [Next]_vars
        => CountIsExact' /\ Undisturbed'
  <2> SUFFICES ASSUME TypeOK, TypeOK', Exclusive, Counted, CountIsExact, Undisturbed, [Next]_vars
               PROVE  CountIsExact' /\ Undisturbed'
    OBVIOUS
  <2>1. ASSUME NEW c \in Conns, Advance(c) \/ Hangup(c) \/ Crash(c)
        PROVE  CountIsExact' /\ Undisturbed'
    <3>1. Allowed(c)
      BY <2>1, OnlyAllowed DEF Exclusive, Undisturbed
    <3>2. Held' /\ \A d \in Conns : Knows(d)'
      BY <3>1, ConnectionKeepsHeld, ConnectionKeepsKnowing
    <3> QED BY <2>1, <3>2, CountStaysExact DEF Undisturbed
  <2>2. CASE Ages
    BY <2>2, AgingKeepsCounts
  <2> QED BY <2>1, <2>2, ElseAges
<1> QED BY <1>1, <1>2, TypeCorrect, ExclusiveInvariant, CountsInvariant, PTL DEF Spec, Referenced

(* The connection count is the number of connections sharing the session,  *)
(* those of killed processes included: no increment or decrement is lost   *)
(* or repeated, and none meets the session of somebody else.               *)
THEOREM CountsAreExact == ASSUME Alone PROVE Spec => []CountIsExact
<1>1. Referenced => CountIsExact
  BY DEF Referenced
<1> QED BY <1>1, CountingHolds, PTL

(* Whoever else leaves, is killed or lets a grace period run out, an       *)
(* attached connection keeps its session and its container.                *)
THEOREM AttachedConnectionsKeepTheirs == ASSUME Alone PROVE Spec => []AttachedKept
<1>1. Referenced => AttachedKept
  BY DEF Referenced, Undisturbed, Held, Knows, AttachedKept
<1> QED BY <1>1, CountingHolds, PTL

-----------------------------------------------------------------------------
(***************************************************************************)
(* Connections implement SharedSession: recording a session is Open, a     *)
(* reattach is Join, the decrement is Leave, deleting the row is End, and  *)
(* every other step leaves the sessions and who shares them alone.         *)
(***************************************************************************)
SessionOf(p) == IF HasRow(p) THEN row[p].id ELSE None

\* Nothing that SharedSession speaks of changes for the projects of S.
SameSharing(S) ==
    \A p \in S : SessionOf(p)' = SessionOf(p) /\ Holders(p)' = Holders(p)

\* The steps that write to the table or change containers.
Writing(c) ==
    \/ Forget(c) \/ CancelGrace(c) \/ Join(c) \/ Create(c) \/ Record(c)
    \/ Drop(c) \/ SettleGrace(c) \/ DestroyBox(c) \/ DestroyRow(c)

(* The other steps of a connection only read the table and ask Docker.     *)
LEMMA OthersReadOnly ==
    ASSUME NEW c \in Conns, Allowed(c), ~Writing(c)
    PROVE  UNCHANGED <<storeVars, proj, att>>
  BY DEF Allowed, Writing, Acquire, ReconcileStale, ReconcileGrace, LookUp, Inspect, Admit, Boot,
     CreateFails, Fail, HooksDone, AcquireToLeave, LeaveTimesOut, DropFails, SettleDestroy, Hangup,
     Crash, storeVars

(* Statements that update or insert keep the rows that are there.          *)
LEMMA RowsStay ==
    ASSUME StoreTypeOK, ConnTypeOK, NEW c \in Conns,
           Join(c) \/ Record(c) \/ Drop(c) \/ CancelGrace(c) \/ SettleGrace(c)
    PROVE  \A p \in Projects : HasRow(p) =>
             HasRow(p)' /\ (~Record(c) => row'[p].id = row[p].id)
<1> SUFFICES ASSUME NEW p \in Projects, HasRow(p)
             PROVE  HasRow(p)' /\ (~Record(c) => row'[p].id = row[p].id)
  OBVIOUS
<1>1. row[p] \in Session /\ proj[c] \in Projects /\ mode[c] \in Modes
  BY DEF StoreTypeOK, ConnTypeOK, HasRow
<1>2. CASE Record(c)
  <2>1. HasRow(proj[c])'
    BY <1>1, <1>2, RecordedRow DEF Record
  <2>2. p # proj[c] => row'[p] = row[p]
    BY <1>2 DEF Record, CreateSession, StoreTypeOK
  <2> QED BY <1>2, <2>1, <2>2 DEF HasRow, Record
<1>3. CASE ~Record(c)
  <2>1. \/ row'[p] = row[p]
        \/ \E n \in Nat : row'[p] = [row[p] EXCEPT !.conns = n]
        \/ \E g \in {"none", "open"} : row'[p] = [row[p] EXCEPT !.grace = g]
    <3> USE DEF StoreTypeOK
    <3>1. CASE Join(c) \/ Drop(c)
      <4>1. PICK delta \in {1, -1} : UpdateConnections(proj[c], delta)
        BY <3>1 DEF Join, Drop
      <4>2. row[p].conns \in Nat
        BY <1>1 DEF Session
      <4> DEFINE n == IF row[p].conns + delta > 0 THEN row[p].conns + delta ELSE 0
      <4>3. n \in Nat
        BY <4>1, <4>2
      <4>4. row'[p] = IF p = proj[c] THEN [row[p] EXCEPT !.conns = n] ELSE row[p]
        BY <1>1, <4>1 DEF UpdateConnections
      <4> QED BY <4>3, <4>4
    <3>2. CASE CancelGrace(c)
      BY <1>1, <3>2 DEF CancelGrace, CancelGracePeriod, HasRow
    <3>3. CASE SettleGrace(c)
      BY <1>1, <3>3 DEF SettleGrace, SetGracePeriod, HasRow
    <3> QED BY <1>3, <3>1, <3>2, <3>3
  <2>2. row'[p] \in Session /\ row'[p].id = row[p].id
    BY <1>1, <2>1 DEF Session
  <2>3. row'[p] # None
    BY <2>2, StoreAssumption
  <2> QED BY <2>2, <2>3 DEF HasRow
<1> QED BY <1>2, <1>3

(* A reattach is a Join.                                                   *)
LEMMA JoinRefines ==
    ASSUME TypeOK, Counted, NEW c \in Conns, Join(c)
    PROVE  \E p \in Projects : Shared!Join(p, c)
<1>1. PICK p \in Projects : p = proj[c]
  BY DEF TypeOK, ConnTypeOK
<1>2. /\ HasRow(p) /\ HasRow(p)' /\ row'[p].id = row[p].id
      /\ Holders(p)' = Holders(p) \cup {c} /\ c \notin Holders(p)
      /\ \A q \in Projects : q # p =>
           row'[q] = row[q] /\ (HasRow(q) => Holders(q)' = Holders(q))
  BY <1>1, JoinHolders
<1>3. SameSharing(Projects \ {p}) /\ SessionOf(p)' = SessionOf(p)
  BY <1>2 DEF SameSharing, SessionOf, HasRow, Holders
<1>4. SessionOf(p) # None
  BY <1>2, StoreAssumption DEF TypeOK, StoreTypeOK, HasRow, Session, SessionOf
<1>5. Shared!Join(p, c)
  BY <1>2, <1>3, <1>4 DEF Shared!Join, SameSharing, SessionOf
<1> QED BY <1>5

(* Recording a new session is an Open.                                     *)
LEMMA RecordRefines ==
    ASSUME TypeOK, Counted, Undisturbed, NEW c \in Conns, Record(c)
    PROVE  \E p \in Projects : Shared!Open(p, c)
<1>1. PICK p \in Projects : p = proj[c]
  BY DEF TypeOK, ConnTypeOK
<1>2. /\ HasRow(p)' /\ row'[p].id = c
      /\ \A q \in Projects : q # p =>
           row'[q] = row[q] /\ (HasRow(q) => Holders(q)' = Holders(q))
  BY <1>1, RecordHolders
<1>3. ~HasRow(p)
  BY <1>1 DEF Record
<1>4. Holders(p)' = {c}
  BY <1>1, RecordHolder
<1>5. SameSharing(Projects \ {p})
  BY <1>2 DEF SameSharing, SessionOf, HasRow, Holders
<1>6. Shared!Open(p, c)
  BY <1>2, <1>3, <1>4, <1>5 DEF Shared!Open, SameSharing, SessionOf
<1> QED BY <1>6

(* The decrement is a Leave.                                               *)
LEMMA DropRefines ==
    ASSUME TypeOK, Counted, Undisturbed, NEW c \in Conns, Drop(c)
    PROVE  \E p \in Projects : Shared!Leave(p, c)
<1>1. PICK p \in Projects : p = proj[c]
  BY DEF TypeOK, ConnTypeOK
<1>2. /\ HasRow(p) /\ HasRow(p)' /\ row'[p].id = row[p].id
      /\ Holders(p)' = Holders(p) \ {c}
      /\ \A q \in Projects : q # p =>
           row'[q] = row[q] /\ (HasRow(q) => Holders(q)' = Holders(q))
  BY <1>1, DropHolders
<1>3. c \in Holders(p)
  BY <1>1, <1>2, DropperCounted
<1>4. SameSharing(Projects \ {p}) /\ SessionOf(p)' = SessionOf(p)
  BY <1>2 DEF SameSharing, SessionOf, HasRow, Holders
<1>5. Shared!Leave(p, c)
  BY <1>2, <1>3, <1>4 DEF Shared!Leave, SameSharing, SessionOf
<1> QED BY <1>5

(* Deleting a row, on a look-up or in DestroySession, is an End: nobody is *)
(* counted any more.                                                       *)
LEMMA DeleteRefines ==
    ASSUME TypeOK, Counted, CountIsExact, Undisturbed, NEW c \in Conns, Forget(c) \/ DestroyRow(c),
           ~ UNCHANGED row
    PROVE  \E p \in Projects : Shared!End(p)
<1>1. PICK p \in Projects : p = proj[c]
  BY DEF TypeOK, ConnTypeOK
<1>2. HasRow(p) /\ \A d \in Conns : att[d] # row[p].id
  <2>1. CASE Forget(c)
    <3>1. pc[c] = "forget"
      BY <2>1 DEF Forget, Goto
    <3>2. HasRow(p) /\ box[p] = None
      BY <1>1, <3>1 DEF Undisturbed, Knows
    <3>3. row[p].id # None
      BY <3>2, StoreAssumption DEF TypeOK, StoreTypeOK, HasRow, Session
    <3> QED BY <3>2, <3>3 DEF Counted, Undisturbed, Held
  <2>2. CASE DestroyRow(c)
    <3>1. pc[c] = "destroyRow"
      BY <2>2 DEF DestroyRow, Goto
    <3>2. HasRow(p) /\ row[p].conns = 0
      BY <1>1, <3>1 DEF Undisturbed, Knows, DestroySteps
    <3> QED BY <3>2, IdleHasNoHolders
  <2> QED BY <2>1, <2>2
<1>3. row' = [row EXCEPT ![p] = None] /\ UNCHANGED att
  BY <1>1 DEF Forget, DestroyRow, TryDeleteSession, DeleteSession
<1>4. Holders(p) = {} /\ Holders(p)' = {} /\ SessionOf(p)' = None
  BY <1>2, <1>3 DEF Holders, HasRow, SessionOf, TypeOK, StoreTypeOK
<1>5. SessionOf(p) # None
  BY <1>2, StoreAssumption DEF TypeOK, StoreTypeOK, HasRow, Session, SessionOf
<1>6. SameSharing(Projects \ {p})
  BY <1>3 DEF SameSharing, SessionOf, HasRow, Holders, TypeOK, StoreTypeOK
<1>7. Shared!End(p)
  BY <1>4, <1>5, <1>6 DEF Shared!End, SameSharing, SessionOf
<1> QED BY <1>7

(* As long as rows and those who are counted stay, SharedSession stutters. *)
LEMMA KeptIsShared ==
    ASSUME UNCHANGED att, \A p \in Projects :
             (HasRow(p)' <=> HasRow(p)) /\ (HasRow(p) => row'[p].id = row[p].id)
    PROVE  UNCHANGED Shared!vars
<1>1. SameSharing(Projects)
  BY DEF SameSharing, SessionOf, Holders
<1> QED BY <1>1 DEF Shared!vars, SameSharing, SessionOf

(* Every step of a connection is a step of SharedSession or a stutter.     *)
LEMMA ConnectionRefines ==
    ASSUME TypeOK, Counted, CountIsExact, Undisturbed, NEW c \in Conns, Allowed(c)
    PROVE  Shared!Next \/ UNCHANGED Shared!vars
<1>1. CASE Join(c) \/ Record(c) \/ Drop(c)
  BY <1>1, JoinRefines, RecordRefines, DropRefines DEF Shared!Next
<1>2. CASE Forget(c) \/ DestroyRow(c)
  <2>1. CASE UNCHANGED row
    <3>1. UNCHANGED att
      BY <1>2 DEF Forget, DestroyRow
    <3> QED BY <2>1, <3>1, KeptIsShared DEF HasRow
  <2> QED BY <1>2, <2>1, DeleteRefines DEF Shared!Next
<1>3. CASE CancelGrace(c) \/ SettleGrace(c)
  <2>1. UNCHANGED att /\ \A p \in Projects : row[p] = None => row'[p] = None
    BY <1>3 DEF CancelGrace, SettleGrace, CancelGracePeriod, SetGracePeriod, HasRow, TypeOK,
       StoreTypeOK
  <2>2. ~Record(c)
    BY <1>3 DEF CancelGrace, SettleGrace, Record, Goto
  <2>3. \A p \in Projects : HasRow(p) => HasRow(p)' /\ row'[p].id = row[p].id
    BY <1>3, <2>2, RowsStay DEF TypeOK
  <2> QED BY <2>1, <2>3, KeptIsShared DEF HasRow
<1>4. CASE Create(c) \/ DestroyBox(c) \/ ~Writing(c)
  <2>1. UNCHANGED <<row, att>>
    BY <1>4, OthersReadOnly DEF Create, DestroyBox, storeVars
  <2> QED BY <2>1, KeptIsShared DEF HasRow
<1> QED BY <1>1, <1>2, <1>3, <1>4 DEF Writing

(* The connections of a user share sessions as SharedSession promises: a   *)
(* session ends only after every connection that shares it has left.       *)
THEOREM ConnectionsShareSessions == ASSUME Alone PROVE Spec => SharesSessions
<1>1. Init => Shared!Init
  BY DEF Init, StoreInit, ConnInit, Shared!Init, HasRow, Holders
<1>2. TypeOK /\ TypeOK' /\ Referenced /\ [Next]_vars => [Shared!Next]_Shared!vars
  <2> SUFFICES ASSUME TypeOK, TypeOK', Referenced, [Next]_vars
               PROVE  Shared!Next \/ UNCHANGED Shared!vars
    OBVIOUS
  <2>1. ASSUME NEW c \in Conns, Advance(c) \/ Hangup(c) \/ Crash(c)
        PROVE  Shared!Next \/ UNCHANGED Shared!vars
    <3>1. Allowed(c)
      BY <2>1, OnlyAllowed DEF Referenced, Exclusive, Undisturbed
    <3> QED BY <3>1, ConnectionRefines DEF Referenced
  <2>2. CASE Ages
    BY <2>2, KeptIsShared DEF Ages, connVars
  <2> QED BY <2>1, <2>2, ElseAges
<1> QED BY <1>1, <1>2, TypeCorrect, CountingHolds, PTL DEF Spec, SharesSessions, Shared!Spec

-----------------------------------------------------------------------------
(***************************************************************************)
(* Persistence.  A connection that leaves decides by its own mode, while   *)
(* cleanup decides by the row's: the session of a persistent project could *)
(* be settled by somebody who reads another mode.  OnePersistence says     *)
(* that all processes agree on who is persistent, whether by session.mode  *)
(* or by the override of a project; other modes may differ.                *)
(***************************************************************************)
Persists(m) == m = "persistent"

OnePersistence ==
    \A f \in InitialModes, c \in Conns :
        /\ \A d \in Conns : Persists(f[c]) <=> Persists(f[d])
        /\ \A p \in Projects :
             Override[p] # None => (Persists(f[c]) <=> Persists(Override[p]))

\* The processes still agree, and with the rows.
SamePersistence ==
    \A c \in Conns :
        /\ \A d \in Conns : Persists(mode[c]) <=> Persists(mode[d])
        /\ \A p \in Projects :
            /\ Override[p] # None => (Persists(mode[c]) <=> Persists(Override[p]))
            /\ HasRow(p) => (Persists(mode[c]) <=> Persists(row[p].mode))

\* A persistent session has its container and no deadline, and nobody ends it.
Lasting ==
    /\ \A p \in Projects : HasRow(p) /\ Persists(row[p].mode) =>
        row[p].grace = "none" /\ box[p] = row[p].id
    /\ \A c \in Conns :
        /\ pc[c] = "settle" => ~Persists(mode[c])
        /\ pc[c] \in DestroySteps => ~Persists(row[proj[c]].mode)

\* Somebody is about to deal with an idle session, or was killed before.
Looked ==
    \A p \in Projects : StaleZeroConnections(p) =>
        \E c \in Conns :
            /\ proj[c] = p
            /\ pc[c] \in {"crashed", "settle", "join"} \cup DestroySteps

Persisting == SamePersistence /\ Lasting /\ Looked

(* Modes and the modes of rows keep agreeing on who is persistent.         *)
LEMMA ConnectionKeepsPersistence ==
    ASSUME SamePersistence, TypeOK, TypeOK',
           NEW c \in Conns, Allowed(c)
    PROVE  SamePersistence'
<1> USE DEF Exclusive, TypeOK, StoreTypeOK, ConnTypeOK, storeVars, Goto, LockedSteps,
        FreeSteps, DestroySteps, HasRow, Session
<1> USE DEF SamePersistence, Persists
<1>1. CASE Acquire(c)
  BY <1>1 DEF Acquire
<1>2. CASE ReconcileStale(c)
  BY <1>2 DEF ReconcileStale, CallDestroy, StaleZeroConnections
<1>3. CASE ReconcileGrace(c)
  BY <1>3 DEF ReconcileGrace, CallDestroy
<1>4. CASE LookUp(c)
  BY <1>4 DEF LookUp
<1>5. CASE Inspect(c)
  BY <1>5 DEF Inspect
<1>6. CASE Forget(c)
  BY <1>6 DEF Forget, DeleteSession
<1>7. CASE CancelGrace(c)
  BY <1>7 DEF CancelGrace, CancelGracePeriod
<1>8. CASE Join(c)
  BY <1>8 DEF Join, UpdateConnections, Release
<1>9. CASE Admit(c)
  BY <1>9 DEF Admit
<1>10. CASE Create(c)
  BY <1>10 DEF Create, CreateContainer
<1>11. CASE Boot(c)
  BY <1>11 DEF Boot
<1>12. CASE Record(c)
  <2>1. /\ HasRow(proj[c])' /\ row'[proj[c]].mode = mode[c] /\ row'[proj[c]].grace = "none"
        /\ row'[proj[c]].id = c /\ row'[proj[c]].conns = 1
    BY <1>12, RecordedRow DEF Record
  <2>2. \A p \in Projects : p # proj[c] => row'[p] = row[p]
    BY <1>12 DEF Record, CreateSession
  <2> QED BY <1>12, <2>1, <2>2 DEF Record
<1>13. CASE CreateFails(c)
  BY <1>13 DEF CreateFails, Fail, Quit, Release
<1>14. CASE HooksDone(c)
  BY <1>14 DEF HooksDone
<1>15. CASE AcquireToLeave(c)
  BY <1>15 DEF AcquireToLeave
<1>16. CASE LeaveTimesOut(c)
  BY <1>16 DEF LeaveTimesOut
<1>17. CASE Drop(c)
  BY <1>17 DEF Drop, UpdateConnections, Release
<1>18. CASE DropFails(c)
  BY <1>18 DEF DropFails, Release
<1>19. CASE SettleDestroy(c)
  BY <1>19 DEF SettleDestroy, CallDestroy, Release
<1>20. CASE SettleGrace(c)
  BY <1>20 DEF SettleGrace, SetGracePeriod, Release
<1>21. CASE DestroyBox(c)
  BY <1>21 DEF DestroyBox, TryRemoveContainer, RemoveContainer
<1>22. CASE DestroyRow(c)
  BY <1>22 DEF DestroyRow, TryDeleteSession, DeleteSession, Quit
<1>23. CASE Hangup(c)
  BY <1>23 DEF Hangup
<1>24. CASE Crash(c)
  BY <1>24 DEF Crash
<1> QED
  BY <1>1, <1>2, <1>3, <1>4, <1>5, <1>6, <1>7, <1>8, <1>9, <1>10, <1>11, <1>12, <1>13, <1>14,
     <1>15, <1>16, <1>17, <1>18, <1>19, <1>20, <1>21, <1>22, <1>23, <1>24 DEF Allowed

(* A step of a connection leaves persistent sessions their container and   *)
(* sets them no deadline.                                                  *)
LEMMA ConnectionKeepsLasting ==
    ASSUME Alone, Exclusive, TypeOK', Undisturbed, SamePersistence, Lasting,
           NEW c \in Conns, Allowed(c)
    PROVE  Lasting'
<1> USE DEF Exclusive, TypeOK, StoreTypeOK, ConnTypeOK, storeVars, Goto, LockedSteps,
        FreeSteps, DestroySteps, HasRow, Session, InCritical
<1> USE StoreAssumption DEF Lasting, SamePersistence, Persists, Undisturbed, Knows, LockHeld,
   RowNamesItsContainer, StaleZeroConnections, OwnContainer
<1>1. CASE Acquire(c)
  BY <1>1 DEF Acquire
<1>2. CASE ReconcileStale(c)
  BY <1>2 DEF ReconcileStale, CallDestroy, StaleZeroConnections
<1>3. CASE ReconcileGrace(c)
  BY <1>3 DEF ReconcileGrace, CallDestroy
<1>4. CASE LookUp(c)
  BY <1>4 DEF LookUp
<1>5. CASE Inspect(c)
  BY <1>5 DEF Inspect
<1>6. CASE Forget(c)
  BY <1>6 DEF Forget, DeleteSession
<1>7. CASE CancelGrace(c)
  BY <1>7 DEF CancelGrace, CancelGracePeriod
<1>8. CASE Join(c)
  BY <1>8 DEF Join, UpdateConnections, Release
<1>9. CASE Admit(c)
  BY <1>9 DEF Admit
<1>10. CASE Create(c)
  BY <1>10 DEF Create, CreateContainer
<1>11. CASE Boot(c)
  BY <1>11 DEF Boot
<1>12. CASE Record(c)
  <2>1. /\ HasRow(proj[c])' /\ row'[proj[c]].mode = mode[c] /\ row'[proj[c]].grace = "none"
        /\ row'[proj[c]].id = c /\ row'[proj[c]].conns = 1
    BY <1>12, RecordedRow DEF Record
  <2>2. \A p \in Projects : p # proj[c] => row'[p] = row[p]
    BY <1>12 DEF Record, CreateSession
  <2> QED BY <1>12, <2>1, <2>2 DEF Record
<1>13. CASE CreateFails(c)
  BY <1>13 DEF CreateFails, Fail, Quit, Release
<1>14. CASE HooksDone(c)
  BY <1>14 DEF HooksDone
<1>15. CASE AcquireToLeave(c)
  BY <1>15 DEF AcquireToLeave
<1>16. CASE LeaveTimesOut(c)
  BY <1>16 DEF LeaveTimesOut
<1>17. CASE Drop(c)
  BY <1>17 DEF Drop, UpdateConnections, Release
<1>18. CASE DropFails(c)
  BY <1>18 DEF DropFails, Release
<1>19. CASE SettleDestroy(c)
  BY <1>19 DEF SettleDestroy, CallDestroy, Release
<1>20. CASE SettleGrace(c)
  BY <1>20 DEF SettleGrace, SetGracePeriod, Release
<1>21. CASE DestroyBox(c)
  BY <1>21 DEF DestroyBox, TryRemoveContainer, RemoveContainer
<1>22. CASE DestroyRow(c)
  BY <1>22 DEF DestroyRow, TryDeleteSession, DeleteSession, Quit
<1>23. CASE Hangup(c)
  BY <1>23 DEF Hangup
<1>24. CASE Crash(c)
  BY <1>24 DEF Crash
<1> QED
  BY <1>1, <1>2, <1>3, <1>4, <1>5, <1>6, <1>7, <1>8, <1>9, <1>10, <1>11, <1>12, <1>13, <1>14,
     <1>15, <1>16, <1>17, <1>18, <1>19, <1>20, <1>21, <1>22, <1>23, <1>24 DEF Allowed

(* When a step leaves a session idle, that process is the one to deal with *)
(* it, unless it is killed.                                                *)
LEMMA ConnectionKeepsLooked ==
    ASSUME Alone, Exclusive, TypeOK', Undisturbed, SamePersistence, Looked,
           NEW c \in Conns, Allowed(c)
    PROVE  Looked'
<1> USE DEF Exclusive, TypeOK, StoreTypeOK, ConnTypeOK, storeVars, Goto, LockedSteps,
        FreeSteps, DestroySteps, HasRow, Session, Alone, Can
<1> USE DEF Looked, SamePersistence, Persists, StaleZeroConnections, Undisturbed, Knows
<1>1. CASE Acquire(c)
  BY <1>1 DEF Acquire
<1>2. CASE ReconcileStale(c)
  BY <1>2 DEF ReconcileStale, CallDestroy, StaleZeroConnections
<1>3. CASE ReconcileGrace(c)
  BY <1>3 DEF ReconcileGrace, CallDestroy
<1>4. CASE LookUp(c)
  BY <1>4 DEF LookUp
<1>5. CASE Inspect(c)
  BY <1>5 DEF Inspect
<1>6. CASE Forget(c)
  BY <1>6 DEF Forget, DeleteSession
<1>7. CASE CancelGrace(c)
  BY <1>7 DEF CancelGrace, CancelGracePeriod
<1>8. CASE Join(c)
  BY <1>8 DEF Join, UpdateConnections, Release
<1>9. CASE Admit(c)
  BY <1>9 DEF Admit
<1>10. CASE Create(c)
  BY <1>10 DEF Create, CreateContainer
<1>11. CASE Boot(c)
  BY <1>11 DEF Boot
<1>12. CASE Record(c)
  <2>1. /\ HasRow(proj[c])' /\ row'[proj[c]].mode = mode[c] /\ row'[proj[c]].grace = "none"
        /\ row'[proj[c]].id = c /\ row'[proj[c]].conns = 1
    BY <1>12, RecordedRow DEF Record
  <2>2. \A p \in Projects : p # proj[c] => row'[p] = row[p]
    BY <1>12 DEF Record, CreateSession
  <2> QED BY <1>12, <2>1, <2>2 DEF Record
<1>13. CASE CreateFails(c)
  BY <1>13 DEF CreateFails, Fail, Quit, Release
<1>14. CASE HooksDone(c)
  BY <1>14 DEF HooksDone
<1>15. CASE AcquireToLeave(c)
  BY <1>15 DEF AcquireToLeave
<1>16. CASE LeaveTimesOut(c)
  BY <1>16 DEF LeaveTimesOut
<1>17. CASE Drop(c)
  BY <1>17 DEF Drop, UpdateConnections, Release
<1>18. CASE DropFails(c)
  BY <1>18 DEF DropFails, Release
<1>19. CASE SettleDestroy(c)
  BY <1>19 DEF SettleDestroy, CallDestroy, Release
<1>20. CASE SettleGrace(c)
  BY <1>20 DEF SettleGrace, SetGracePeriod, Release
<1>21. CASE DestroyBox(c)
  BY <1>21 DEF DestroyBox, TryRemoveContainer, RemoveContainer
<1>22. CASE DestroyRow(c)
  BY <1>22 DEF DestroyRow, TryDeleteSession, DeleteSession, Quit
<1>23. CASE Hangup(c)
  BY <1>23 DEF Hangup
<1>24. CASE Crash(c)
  BY <1>24 DEF Crash
<1> QED
  BY <1>1, <1>2, <1>3, <1>4, <1>5, <1>6, <1>7, <1>8, <1>9, <1>10, <1>11, <1>12, <1>13, <1>14,
     <1>15, <1>16, <1>17, <1>18, <1>19, <1>20, <1>21, <1>22, <1>23, <1>24 DEF Allowed

(* No step of a connection removes a persistent session or its container.  *)
LEMMA PersistentSurvives ==
    ASSUME TypeOK, Undisturbed, Lasting, NEW c \in Conns, Allowed(c)
    PROVE  \A p \in Projects :
             HasRow(p) /\ row[p].mode = "persistent" => HasRow(p)' /\ box'[p] = box[p]
<1> USE StoreAssumption DEF TypeOK, StoreTypeOK, ConnTypeOK, storeVars, Goto, DestroySteps
<1> USE DEF Lasting, Persists, Undisturbed, Knows
<1>1. CASE Join(c) \/ Record(c) \/ Drop(c) \/ CancelGrace(c) \/ SettleGrace(c)
  <2>1. UNCHANGED box
    BY <1>1 DEF Join, Record, Drop, CancelGrace, SettleGrace
  <2>2. \A p \in Projects : HasRow(p) => HasRow(p)'
    BY <1>1, RowsStay DEF HasRow
  <2> QED BY <2>1, <2>2
<1>2. CASE Forget(c)
  BY <1>2 DEF Forget, DeleteSession, HasRow, Session
<1>3. CASE Create(c)
  BY <1>3 DEF Create, CreateContainer, HasRow, Session
<1>4. CASE DestroyBox(c)
  BY <1>4 DEF DestroyBox, TryRemoveContainer, RemoveContainer, HasRow
<1>5. CASE DestroyRow(c)
  BY <1>5 DEF DestroyRow, TryDeleteSession, DeleteSession, HasRow
<1>6. ASSUME UNCHANGED storeVars PROVE \A p \in Projects : HasRow(p) => HasRow(p)' /\ box'[p] =
   box[p]
  BY <1>6 DEF HasRow
<1> QED
  BY <1>1, <1>2, <1>3, <1>4, <1>5, <1>6, OthersReadOnly DEF Writing

(* Nor does it change what is said of persistence.                         *)
LEMMA AgingKeepsPersisting ==
    ASSUME Ages, TypeOK, Undisturbed, Persisting
    PROVE  Persisting'
<1> USE DEF Ages, connVars, Persisting
<1>1. \A c \in Conns : proj[c] \in Projects
  BY DEF TypeOK, ConnTypeOK
<1>2. SamePersistence'
  BY DEF SamePersistence
<1>3. Lasting'
  BY <1>1 DEF Undisturbed, Knows, Lasting
<1>4. Looked'
  BY DEF Looked, StaleZeroConnections
<1> QED BY <1>2, <1>3, <1>4

(* What is said of persistence holds, if processes agree on who is         *)
(* persistent.                                                             *)
THEOREM PersistenceHolds ==
    ASSUME Alone, OnePersistence
    PROVE  Spec => []Persisting
<1>1. Init => Persisting
  BY DEF Init, StoreInit, ConnInit, Persisting, SamePersistence, OnePersistence, Lasting, Looked,
     HasRow, DestroySteps, StaleZeroConnections
<1>2. TypeOK /\ TypeOK' /\ Referenced /\ Persisting /\ [Next]_vars => Persisting'
  <2> SUFFICES ASSUME TypeOK, TypeOK', Referenced, Persisting, [Next]_vars
               PROVE  Persisting'
    OBVIOUS
  <2>1. ASSUME NEW c \in Conns, Advance(c) \/ Hangup(c) \/ Crash(c)
        PROVE  Persisting'
    <3>1. Allowed(c)
      BY <2>1, OnlyAllowed DEF Referenced, Exclusive, Undisturbed
    <3> QED BY <3>1, ConnectionKeepsPersistence, ConnectionKeepsLasting, ConnectionKeepsLooked
            DEF Persisting, Referenced
  <2>2. CASE Ages
    BY <2>2, AgingKeepsPersisting DEF Referenced
  <2> QED BY <2>1, <2>2, ElseAges
<1> QED BY <1>1, <1>2, TypeCorrect, CountingHolds, PTL DEF Spec

(* A session that everybody has left is not forgotten: once the lock is    *)
(* free, its grace period runs, unless a process was killed in between.    *)
THEOREM IdleSessionsAreLookedAfter ==
    ASSUME Alone, OnePersistence
    PROVE  Spec => []IdleSessionsExpire
<1>1. Referenced /\ Persisting => IdleSessionsExpire
  <2> SUFFICES ASSUME Referenced, Persisting, NEW p \in Projects,
                      lock = None, StaleZeroConnections(p)
               PROVE  \E c \in Conns : proj[c] = p /\ pc[c] = "crashed"
    BY DEF IdleSessionsExpire
  <2>1. PICK c \in Conns : /\ proj[c] = p
                           /\ pc[c] \in {"crashed", "settle", "join"} \cup DestroySteps
    BY DEF Persisting, Looked
  <2>2. ~InCritical(c)
    BY StoreAssumption DEF Referenced, Exclusive, LockHeld
  <2> QED BY <2>1, <2>2 DEF Referenced, Undisturbed, Knows, InCritical, LockedSteps
<1> QED BY <1>1, CountingHolds, PersistenceHolds, PTL

(* A persistent session and its container outlive every disconnect.        *)
THEOREM PersistentSessionsStay ==
    ASSUME Alone, OnePersistence
    PROVE  Spec => PersistentKept
<1> DEFINE Keep == \A p \in Projects :
        HasRow(p) /\ row[p].mode = "persistent" => HasRow(p)' /\ box'[p] = box[p]
<1>1. TypeOK /\ TypeOK' /\ Referenced /\ Persisting /\ [Next]_vars => [Keep]_vars
  <2> SUFFICES ASSUME TypeOK, TypeOK', Referenced, Persisting, [Next]_vars
               PROVE  Keep
    OBVIOUS
  <2>1. ASSUME NEW c \in Conns, Advance(c) \/ Hangup(c) \/ Crash(c)
        PROVE  Keep
    <3>1. Allowed(c)
      BY <2>1, OnlyAllowed DEF Referenced, Exclusive, Undisturbed
    <3> QED BY <3>1, PersistentSurvives DEF Referenced, Persisting
  <2>2. CASE Ages
    BY <2>2 DEF Ages
  <2> QED BY <2>1, <2>2, ElseAges
<1> QED BY <1>1, TypeCorrect, CountingHolds, PersistenceHolds, PTL DEF Spec, PersistentKept
=============================================================================
