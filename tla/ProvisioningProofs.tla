------------------------- MODULE ProvisioningProofs -------------------------
(***************************************************************************)
(* Proofs about Provisioning, for every number of logins, of services and  *)
(* of everybody else: type correctness; what crashes leave behind is never *)
(* part of a session; and a session is whole or nothing of it is there.    *)
(***************************************************************************)
EXTENDS Provisioning, TLAPS

USE DEF Procs, Names, Network, Row, Everything

-----------------------------------------------------------------------------
(* Types.                                                                  *)

(* The initial state has the types.                                        *)
LEMMA InitTypes == Init => TypeOK
  BY ProvisioningAssumption DEF Init, TypeOK, Outside

(* The removal of one thing, whichever it is, keeps the types of what it   *)
(* may change (cleanup.DestroySession).                                    *)
LEMMA RemovalTypes ==
    ASSUME TypeOK, NEW s, NEW x, RemoveThing(s, x)
    PROVE  /\ net' \in Logins \cup {None}
           /\ box' \in [Names -> Container \cup {None}]
           /\ row' \in Session \cup {None}
<1>1. net' \in Logins \cup {None} BY DEF TypeOK, RemoveThing, RemoveNetwork
<1>2. row' \in Session \cup {None} BY DEF TypeOK, RemoveThing
<1>3. box' \in [Names -> Container \cup {None}]
  BY DEF TypeOK, RemoveThing, RemoveId, RemoveName
<1> QED BY <1>1, <1>2, <1>3

(* Going on to remove a session keeps the types of what a process knows.   *)
LEMMA RemoveTypes ==
    ASSUME TypeOK, NEW p \in Procs, NEW from, NEW s \in Session \cup {None},
           NEW things \in SUBSET Everything, NEW return \in {"get", "leave", "done"},
           Remove(p, from, s, things, return)
    PROVE  /\ pc' \in [Procs -> Inside \cup Outside \cup {"undo"}]
           /\ at' \in [Procs -> 0..Services]
           /\ ref' \in [Procs -> Session \cup {None}]
           /\ todo' \in [Procs -> SUBSET Everything]
           /\ back' \in [Procs -> {"get", "leave", "done"}]
<1> USE ProvisioningAssumption DEF TypeOK, Remove, Goto
<1>1. pc' \in [Procs -> Inside \cup Outside \cup {"undo"}] OBVIOUS
<1>2. at' \in [Procs -> 0..Services] OBVIOUS
<1>3. ref' \in [Procs -> Session \cup {None}] OBVIOUS
<1>4. todo' \in [Procs -> SUBSET Everything] OBVIOUS
<1>5. back' \in [Procs -> {"get", "leave", "done"}] OBVIOUS
<1> QED BY <1>1, <1>2, <1>3, <1>4, <1>5

(* No step of a login changes a type: who builds knows the network.        *)
LEMMA LoginTypes ==
    ASSUME TypeOK, LockHeld, NEW l \in Logins, LoginStep(l)
    PROVE  TypeOK'
<1> USE ProvisioningAssumption DEF TypeOK, Goto, Inside, Provisions, Outside, procVars,
        sweepVars, harmVars, docker
<1>1. CASE Acquire(l) BY <1>1 DEF Acquire
<1>2. CASE LookUp(l) BY <1>2 DEF LookUp, Step
<1>21. CASE Reconcile(l)
  <2>1. row \in Session \cup {None} /\ Everything \in SUBSET Everything OBVIOUS
  <2> QED BY ONLY TypeOK, l \in Procs, <1>21, <2>1, RemoveTypes
          DEF Reconcile, TypeOK, docker, sweepVars, harmVars
<1>3. CASE Reattach(l) BY <1>3 DEF Reattach, Release
<1>4. CASE Stale(l) \/ Forget(l) BY <1>4 DEF Stale, Forget, Step
<1>5. CASE CreateNetwork(l)
  <2>1. net' \in Logins BY <1>5 DEF CreateNetwork
  <2>2. [by |-> l, net |-> net'] \in Session BY <2>1 DEF Session
  <2> QED BY <1>5, <2>1, <2>2 DEF CreateNetwork
<1>6. CASE Resolve(l) BY <1>6 DEF Resolve
<1>7. ASSUME NEW k \in Names, CreateContainer(k, l, ref[l].net), pc[l] \in Building
      PROVE  box' \in [Names -> Container \cup {None}]
  <2>1. ref[l] \in Session BY <1>7 DEF LockHeld
  <2>2. [by |-> l, net |-> ref[l].net, up |-> FALSE] \in Container
    BY <2>1 DEF Session, Container
  <2> QED BY <1>7, <2>2 DEF CreateContainer
<1>8. ASSUME NEW k \in Names, StartContainer(k, l)
      PROVE  box' \in [Names -> Container \cup {None}]
  <2>1. box[k] \in Container BY <1>8 DEF StartContainer, Exists
  <2>2. [box[k] EXCEPT !.up = TRUE] \in Container BY <2>1 DEF Container
  <2> QED BY <1>8, <2>2 DEF StartContainer
<1>9. CASE CreateService(l) BY <1>7, <1>9 DEF CreateService, Step, Building
<1>10. CASE StartService(l) BY <1>8, <1>10 DEF StartService
<1>11. CASE CreateBox(l) BY <1>7, <1>11 DEF CreateBox, Step, Building
<1>12. CASE Boot(l) BY <1>8, <1>12 DEF Boot, Step
<1>13. CASE Record(l) BY <1>13 DEF Record
<1>14. CASE Fail(l) \/ LeaveIt(l) \/ LeaveTimesOut(l)
  BY <1>14 DEF Fail, LeaveIt, LeaveTimesOut, Release, Step
<1>15. ASSUME NEW from \in Inside, NEW things \in SUBSET Everything, Abort(l, from, things)
       PROVE  TypeOK'
  <2>1. ref[l] \in Session \cup {None} OBVIOUS
  <2> QED BY ONLY TypeOK, l \in Procs, <1>15, <2>1, RemoveTypes DEF Abort, TypeOK, docker, sweepVars, harmVars
<1>16. CASE ResolveFails(l)
  <2>1. {Network} \subseteq Everything OBVIOUS
  <2> QED BY <1>15, <1>16, <2>1 DEF ResolveFails
<1>17. CASE CreateServiceFails(l)
  <2>1. Started(l) \cup {Network} \subseteq Everything BY DEF Started
  <2> QED BY <1>15, <1>17, <2>1 DEF CreateServiceFails
<1>18. CASE StartServiceFails(l)
  <2>1. 1..at[l] \cup {Network} \subseteq Everything OBVIOUS
  <2> QED BY <1>15, <1>18, <2>1 DEF StartServiceFails
<1>19. CASE CreateBoxFails(l) \/ BootFails(l) \/ RecordFails(l)
  <2>1. 1..Network \subseteq Everything /\ 0..Network \subseteq Everything OBVIOUS
  <2> QED BY <1>15, <1>19, <2>1 DEF CreateBoxFails, BootFails, RecordFails
<1>20. CASE LastToLeave(l)
  <2>1. row \in Session \cup {None} /\ Everything \in SUBSET Everything OBVIOUS
  <2> QED BY ONLY TypeOK, l \in Procs, <1>20, <2>1, RemoveTypes
          DEF LastToLeave, TypeOK, docker, sweepVars, harmVars
<1> QED
  BY <1>1, <1>2, <1>3, <1>4, <1>5, <1>6, <1>9, <1>10, <1>11, <1>12, <1>13, <1>14, <1>16,
     <1>17, <1>18, <1>19, <1>20, <1>21 DEF LoginStep

(* Nor does any other step.                                                *)
LEMMA OtherTypes ==
    ASSUME TypeOK, Next, ~\E l \in Logins : LoginStep(l)
    PROVE  TypeOK'
<1> USE ProvisioningAssumption DEF TypeOK, Goto, Inside, Provisions, Outside, procVars,
        sweepVars, harmVars, docker, Harm
<1>1. ASSUME NEW p \in Procs, Undo(p) PROVE TypeOK'
  <2>1. PICK x \in todo[p] : RemoveThing(ref[p], x) BY <1>1 DEF Undo
  <2> QED BY <1>1, <2>1, RemovalTypes DEF Undo
<1>2. ASSUME NEW p \in Procs, UndoFails(p) \/ Undone(p) \/ Crash(p) PROVE TypeOK'
  <2>1. CASE UndoFails(p) BY <2>1 DEF UndoFails
  <2>2. CASE Undone(p) BY <2>2 DEF Undone
  <2>3. CASE Crash(p) BY <2>3 DEF Crash
  <2> QED BY <1>2, <2>1, <2>2, <2>3
<1>3. ASSUME NEW g \in Legacy, LegacyEnter(g) PROVE TypeOK'
  <2>1. [by |-> g, net |-> None, up |-> FALSE] \in Container BY DEF Container
  <2>2. box' \in [Names -> Container \cup {None}]
    <3>1. CASE UNCHANGED box BY <3>1
    <3>2. CASE CreateContainer(0, g, None) BY <2>1, <3>2 DEF CreateContainer
    <3> QED BY <1>3, <3>1, <3>2 DEF LegacyEnter
  <2> QED BY <1>3, <2>2 DEF LegacyEnter
<1>4. ASSUME NEW g \in Legacy, LegacyBoot(g) PROVE TypeOK'
  <2>1. 0 \in Names OBVIOUS
  <2>3. box[0] \in Container
    BY ONLY TypeOK, <1>4, <2>1 DEF TypeOK, LegacyBoot, StartContainer, Exists
  <2>2. [box[0] EXCEPT !.up = TRUE] \in Container BY <2>3 DEF Container
  <2>4. box' \in [Names -> Container \cup {None}]
    BY <1>4, <2>1, <2>2 DEF LegacyBoot, StartContainer
  <2> QED BY <1>4, <2>4 DEF LegacyBoot, Step
<1>5. ASSUME NEW g \in Legacy, LegacyBootFails(g) \/ LegacyLeave(g) PROVE TypeOK'
  BY <1>5 DEF LegacyBootFails, LegacyLeave, RemoveName, Step
<1>6. ASSUME NEW s \in Stoppers, Stop(s) PROVE TypeOK'
  <2>1. row \in Session \cup {None} /\ Everything \in SUBSET Everything OBVIOUS
  <2>2. left' \in 0..Harms /\ harm' \subseteq {"debris", "race"} BY <1>6 DEF Stop
  <2> QED BY ONLY TypeOK, s \in Procs, <1>6, <2>1, <2>2, RemoveTypes
          DEF Stop, TypeOK, docker, sweepVars
<1>7. ASSUME NEW l \in Logins, Hangup(l) \/ HookFails(l) PROVE TypeOK'
  <2>1. CASE Hangup(l) BY <2>1 DEF Hangup, Step
  <2>2. CASE HookFails(l)
    <3>1. row \in Session \cup {None} /\ Everything \in SUBSET Everything OBVIOUS
    <3>2. left' \in 0..Harms /\ harm' \subseteq {"debris", "race"} BY <2>2 DEF HookFails
    <3> QED BY ONLY TypeOK, l \in Procs, <2>2, <3>1, <3>2, RemoveTypes
            DEF HookFails, TypeOK, docker, sweepVars
  <2> QED BY <1>7, <2>1, <2>2
<1>8. ASSUME NEW d \in Cleaners, ListContainers(d) PROVE TypeOK'
  <2>1. {<<k, box[k].by>> : k \in {x \in Names : Exists(x)}} \subseteq
          Names \X (Logins \cup Legacy)
    BY DEF Exists, Container
  <2> QED BY <1>8, <2>1 DEF ListContainers
<1>9. ASSUME NEW d \in Cleaners, Match(d) \/ Rest(d) PROVE TypeOK'
  <2>1. CASE Match(d) BY <2>1 DEF Match
  <2>2. CASE Rest(d) BY <2>2 DEF Rest
  <2> QED BY <1>9, <2>1, <2>2
<1>10. ASSUME NEW d \in Cleaners, NEW k \in Names, NEW p \in Logins \cup Legacy, Reap(d, k, p)
       PROVE  TypeOK'
  BY <1>10 DEF Reap, RemoveId, RemoveName
<1>11. ASSUME NEW k \in Names, Vanish(k) PROVE TypeOK' BY <1>11 DEF Vanish, RemoveName
<1> QED
  BY <1>1, <1>2, <1>3, <1>4, <1>5, <1>6, <1>7, <1>8, <1>9, <1>10, <1>11
  DEF Next, ProcStep, SweepStep

-----------------------------------------------------------------------------
(* Who holds the lock.                                                     *)

(* Steps of a login keep what is known of the lock.                        *)
LEMMA LoginKeepsLock ==
    ASSUME TypeOK, LockHeld, NEW l \in Logins, LoginStep(l)
    PROVE  LockHeld'
<1> USE NoneAssumption DEF Goto, Inside, Provisions, Building
<1> DEFINE Mine == pc[l] \in Inside /\ lock = l
<1>1. ASSUME NEW q \in Procs, q # l
      PROVE  pc'[q] = pc[q] /\ ref'[q] = ref[q] /\ back'[q] = back[q]
  BY <1>1 DEF TypeOK, LoginStep, Acquire, Reconcile, LookUp, Step, Remove, Reattach, Release, Stale, Forget,
     CreateNetwork, Resolve, CreateService, StartService, CreateBox, Boot, Record, Fail,
     ResolveFails, CreateServiceFails, StartServiceFails, CreateBoxFails, BootFails,
     RecordFails, Abort, LeaveIt, LastToLeave, LeaveTimesOut
<1>2. harm' = harm
  BY DEF LoginStep, Acquire, Reconcile, LookUp, Step, Remove, Reattach, Release, Stale, Forget,
     CreateNetwork, Resolve, CreateService, StartService, CreateBox, Boot, Record, Fail,
     ResolveFails, CreateServiceFails, StartServiceFails, CreateBoxFails, BootFails,
     RecordFails, Abort, LeaveIt, LastToLeave, LeaveTimesOut, harmVars
<1>3. lock' # lock => lock \in {None, l}
  BY DEF LoginStep, Acquire, Reconcile, LookUp, Step, Remove, Reattach, Release, Stale, Forget,
     CreateNetwork, Resolve, CreateService, StartService, CreateBox, Boot, Record, Fail,
     ResolveFails, CreateServiceFails, StartServiceFails, CreateBoxFails, BootFails,
     RecordFails, Abort, LeaveIt, LastToLeave, LeaveTimesOut, LockHeld
<1>4. pc'[l] \in Inside \cup {"undo"} => lock' = l
  BY DEF TypeOK, LoginStep, Acquire, Reconcile, LookUp, Step, Remove, Reattach, Release, Stale, Forget,
     CreateNetwork, Resolve, CreateService, StartService, CreateBox, Boot, Record, Fail,
     ResolveFails, CreateServiceFails, StartServiceFails, CreateBoxFails, BootFails,
     RecordFails, Abort, LeaveIt, LastToLeave, LeaveTimesOut, LockHeld
<1>5. pc'[l] \in Building => ref'[l] # None
  <2>1. CASE CreateNetwork(l)
    <3>1. [by |-> l, net |-> net'] \in Session BY <2>1 DEF CreateNetwork, TypeOK, Session
    <3> QED BY <2>1, <3>1 DEF CreateNetwork, TypeOK
  <2>2. CASE ~CreateNetwork(l)
    BY <2>2 DEF TypeOK, LoginStep, Acquire, Reconcile, LookUp, Step, Remove, Reattach, Release, Stale,
       Forget, Resolve, CreateService, StartService, CreateBox, Boot, Record, Fail,
       ResolveFails, CreateServiceFails, StartServiceFails, CreateBoxFails, BootFails,
       RecordFails, Abort, LeaveIt, LastToLeave, LeaveTimesOut, LockHeld
  <2> QED BY <2>1, <2>2
<1>6. ASSUME NEW q \in Logins, q # l, lock = q PROVE lock' = q BY <1>3, <1>6
<1> QED BY <1>1, <1>2, <1>4, <1>5, <1>6, ProvisioningAssumption DEF LockHeld

(* So do the steps of everybody else; without the lock they are a race.    *)
LEMMA OthersKeepLock ==
    ASSUME TypeOK, LockHeld, Next, ~\E l \in Logins : LoginStep(l)
    PROVE  LockHeld'
<1> USE NoneAssumption, ProvisioningAssumption DEF Goto, Inside, Provisions, Building, Harm,
        procVars, harmVars
<1>1. ASSUME NEW p \in Procs, Undo(p) PROVE LockHeld'
  BY <1>1 DEF Undo, LockHeld
<1>2. ASSUME NEW p \in Procs, UndoFails(p) PROVE LockHeld'
  BY <1>2 DEF UndoFails, LockHeld
<1>3. ASSUME NEW p \in Procs, Undone(p) PROVE LockHeld'
  <2>1. ASSUME NEW q \in Logins, q # p
        PROVE  pc'[q] = pc[q] /\ ref'[q] = ref[q] /\ back'[q] = back[q]
    BY <1>3, <2>1 DEF Undone, TypeOK
  <2>2. pc'[p] \in {"get", "leave", "done"} BY <1>3 DEF Undone, TypeOK
  <2>3. lock' = lock \/ (lock = p /\ lock' = None /\ pc'[p] # "get")
    BY <1>3 DEF Undone, TypeOK
  <2>4. pc[p] = "undo" /\ harm' = harm /\ pc'[p] = back[p] BY <1>3 DEF Undone, TypeOK
  <2>5. ASSUME NEW q \in Procs, q # p PROVE pc'[q] = pc[q] BY <1>3, <2>5 DEF Undone, TypeOK
  <2>6. ASSUME p \in Logins, pc'[p] = "get" PROVE lock' = p
    <3>1. pc[p] = "undo" /\ back[p] = "get" BY <2>4, <2>6
    <3>2. lock = p BY <2>6, <3>1 DEF LockHeld
    <3> QED BY <2>3, <2>6, <3>2
  <2>7. ASSUME NEW q \in Logins, q # p, lock = q PROVE lock' = q BY <2>3, <2>7
  <2>8. \A l \in Logins : pc'[l] \in Inside => lock' = l
    BY <2>1, <2>2, <2>6, <2>7 DEF LockHeld
  <2>9. \A l \in Logins : pc'[l] = "undo" /\ back'[l] = "get" => lock' = l
    BY <2>1, <2>2, <2>7 DEF LockHeld
  <2>10. \A l \in Logins : pc'[l] \in Building => ref'[l] # None
    BY <2>1, <2>2 DEF LockHeld
  <2>11. "race" \notin harm' =>
           /\ \A l \in Logins : pc'[l] = "undo" => lock' = l
           /\ \A q \in Procs \ Logins : pc'[q] = "start"
    BY <2>1, <2>2, <2>4, <2>5, <2>7 DEF LockHeld
  <2> QED BY <2>8, <2>9, <2>10, <2>11 DEF LockHeld
<1>4. ASSUME NEW p \in Procs, Crash(p) PROVE LockHeld'
  <2>1. ASSUME NEW q \in Procs, q # p PROVE pc'[q] = pc[q] BY <1>4, <2>1 DEF Crash, TypeOK
  <2>2. pc'[p] = "crashed" /\ (lock' = lock \/ (lock = p /\ lock' = None))
    BY <1>4 DEF Crash, TypeOK
  <2> QED BY <1>4, <2>1, <2>2 DEF Crash, LockHeld
<1>5. ASSUME NEW g \in Legacy, LegacyEnter(g) PROVE LockHeld'
  <2>1. ASSUME NEW q \in Logins PROVE pc'[q] = pc[q] BY <1>5 DEF LegacyEnter, TypeOK
  <2>2. UNCHANGED <<lock, ref, back>> /\ "race" \in harm' BY <1>5 DEF LegacyEnter
  <2> QED BY <2>1, <2>2 DEF LockHeld
<1>6. ASSUME NEW g \in Legacy, LegacyBoot(g) \/ LegacyBootFails(g) \/ LegacyLeave(g) PROVE LockHeld'
  <2>1. g \in Procs \ Logins OBVIOUS
  <2>2. pc[g] # "start" /\ UNCHANGED <<lock, ref, back, harm>>
    BY <1>6 DEF LegacyBoot, LegacyBootFails, LegacyLeave, Step
  <2>3. ASSUME NEW q \in Logins PROVE pc'[q] = pc[q]
    BY <1>6, <2>1, <2>3 DEF LegacyBoot, LegacyBootFails, LegacyLeave, Step, TypeOK
  <2> QED BY <2>1, <2>2, <2>3 DEF LockHeld
<1>7. ASSUME NEW s \in Stoppers, Stop(s) PROVE LockHeld'
  BY <1>7 DEF Stop, Remove, LockHeld, TypeOK
<1>8. ASSUME NEW l \in Logins, Hangup(l) PROVE LockHeld'
  BY <1>8 DEF Hangup, Step, LockHeld, TypeOK
<1>9. ASSUME NEW l \in Logins, HookFails(l) PROVE LockHeld'
  BY <1>9 DEF HookFails, Remove, LockHeld, TypeOK
<1>10. ASSUME NEW d \in Cleaners, SweepStep(d) PROVE LockHeld'
  BY <1>10 DEF SweepStep, ListContainers, Match, Reap, Rest, LockHeld
<1>11. ASSUME NEW k \in Names, Vanish(k) PROVE LockHeld' BY <1>11 DEF Vanish, LockHeld
<1> QED
  BY <1>1, <1>2, <1>3, <1>4, <1>5, <1>6, <1>7, <1>8, <1>9, <1>10, <1>11 DEF Next, ProcStep

-----------------------------------------------------------------------------
(* What a login has made is its own.                                       *)

(* A login that builds nothing has made nothing.                           *)
LEMMA MadeNothing ==
    ASSUME NEW m, pc'[m] \notin Building
    PROVE  Made(m)'
  BY DEF Made, Building, Provisions

(* What a login has made stays, if nobody touches it.                      *)
LEMMA MadeFrame ==
    ASSUME NEW m, Made(m), pc'[m] = pc[m], ref'[m] = ref[m], at'[m] = at[m],
           pc[m] \in Building => UNCHANGED docker
    PROVE  Made(m)'
<1>1. CASE pc[m] \in Building
  BY <1>1 DEF Made, Building, Provisions, Runs, PartOf, Exists, docker
<1>2. CASE pc[m] \notin Building BY <1>2, MadeNothing
<1> QED BY <1>1, <1>2

(* The next call of a login adds to what it has made: StartServices and    *)
(* ensureContainerWithState.                                               *)
LEMMA MadeNext ==
    ASSUME TypeOK, LockHeld, NEW l \in Logins, Made(l), LoginStep(l)
    PROVE  Made(l)'
<1> USE ProvisioningAssumption, NoneAssumption DEF Goto
<1>1. l \in Procs OBVIOUS
<1>2. CASE CreateNetwork(l)
  BY <1>1, <1>2 DEF CreateNetwork, Made, TypeOK, Building, Provisions
<1>3. CASE Resolve(l)
  <2>1. UNCHANGED <<net, box, ref>> /\ pc[l] = "resolve" BY <1>3 DEF Resolve, docker
  <2>2. IF Services = 0 THEN pc'[l] = "box" ELSE pc'[l] = "service" /\ at'[l] = 1
    BY <1>1, <1>3 DEF Resolve, TypeOK
  <2>3. ref'[l].by = l /\ ref'[l].net = net' BY <2>1 DEF Made, Building, Provisions
  <2> QED BY <2>1, <2>2, <2>3 DEF Made
<1>4. ASSUME NEW k \in Names, CreateContainer(k, l, ref[l].net), pc[l] \in Building
      PROVE  /\ box'[k] # None /\ box'[k].by = l /\ box'[k].net = ref[l].net
             /\ \A j \in Names : j # k => box'[j] = box[j]
  <2>1. [by |-> l, net |-> ref[l].net, up |-> FALSE] \in Container
    BY <1>4 DEF LockHeld, TypeOK, Container, Session
  <2> QED BY <1>4, <2>1 DEF CreateContainer, TypeOK
<1>5. ASSUME NEW k \in Names, StartContainer(k, l)
      PROVE  /\ box'[k] # None /\ box'[k].by = box[k].by /\ box'[k].net = box[k].net
             /\ box'[k].up
             /\ \A j \in Names : j # k => box'[j] = box[j]
  <2>1. box[k] \in Container BY <1>5 DEF StartContainer, TypeOK, Exists
  <2>2. [box[k] EXCEPT !.up = TRUE] \in Container BY <2>1 DEF Container
  <2>3. box'[k] = [box[k] EXCEPT !.up = TRUE] BY <1>5 DEF StartContainer, TypeOK
  <2>4. \A j \in Names : j # k => box'[j] = box[j] BY <1>5 DEF StartContainer, TypeOK
  <2>5. /\ [box[k] EXCEPT !.up = TRUE].by = box[k].by
        /\ [box[k] EXCEPT !.up = TRUE].net = box[k].net
        /\ [box[k] EXCEPT !.up = TRUE].up
    BY <2>1 DEF Container
  <2> QED BY <2>2, <2>3, <2>4, <2>5
<1>6. ASSUME UNCHANGED <<net, ref>>, pc[l] \in Building
      PROVE  ref[l].by = l /\ ref'[l].by = l /\ ref'[l].net = net'
  BY <1>6 DEF Made
<1>7. CASE CreateService(l)
  <2>1. /\ UNCHANGED <<net, ref, at>>
        /\ pc[l] = "service" /\ pc[l] \in Building
        /\ pc'[l] = "startService"
        /\ CreateContainer(at[l], l, ref[l].net)
    BY <1>1, <1>7 DEF CreateService, Step, TypeOK, Building, Provisions
  <2>2. at[l] \in 1..Services /\ at[l] \in Names BY <2>1 DEF Made
  <2>3. PartOf(at[l], ref[l])' BY <1>4, <1>6, <2>1, <2>2 DEF PartOf, Exists
  <2>4. \A k \in 1..(at[l] - 1) : box'[k] = box[k] BY <1>4, <2>1, <2>2
  <2>5. \A k \in 1..(at[l] - 1) : Runs(k, ref[l])'
    BY <2>1, <2>4 DEF Made, Runs, PartOf, Exists
  <2> QED BY <1>6, <2>1, <2>2, <2>3, <2>5 DEF Made
<1>8. CASE StartService(l)
  <2>1. /\ UNCHANGED <<net, ref>>
        /\ pc[l] = "startService" /\ pc[l] \in Building
        /\ StartContainer(at[l], l)
    BY <1>8 DEF StartService, Building, Provisions
  <2>2. IF at[l] = Services THEN pc'[l] = "box" ELSE pc'[l] = "service" /\ at'[l] = at[l] + 1
    BY <1>1, <1>8 DEF StartService, TypeOK
  <2>3. at[l] \in 1..Services /\ at[l] \in Names /\ PartOf(at[l], ref[l]) BY <2>1 DEF Made
  <2>4. \A k \in 1..at[l] : Runs(k, ref[l])'
    <3>1. ASSUME NEW k \in 1..at[l], k = at[l] PROVE Runs(k, ref[l])'
      BY <1>5, <2>1, <2>3, <3>1 DEF Runs, PartOf, Exists
    <3>2. ASSUME NEW k \in 1..(at[l] - 1) PROVE Runs(k, ref[l])'
      <4>1. box'[k] = box[k] BY <1>5, <2>1, <2>3
      <4> QED BY <2>1, <4>1 DEF Made, Runs, PartOf, Exists
    <3>3. \A k \in 1..at[l] : k = at[l] \/ k \in 1..(at[l] - 1) BY <2>3
    <3> QED BY <3>1, <3>2, <3>3
  <2> QED BY <1>6, <2>1, <2>2, <2>3, <2>4 DEF Made
<1>9. CASE CreateBox(l)
  <2>1. /\ UNCHANGED <<net, ref, at>>
        /\ pc[l] = "box" /\ pc[l] \in Building
        /\ pc'[l] = "boot"
        /\ CreateContainer(0, l, ref[l].net)
        /\ 0 \in Names
    BY <1>1, <1>9 DEF CreateBox, Step, TypeOK, Building, Provisions
  <2>2. PartOf(0, ref[l])' BY <1>4, <1>6, <2>1 DEF PartOf, Exists
  <2>3. \A k \in 1..Services : box'[k] = box[k] BY <1>4, <2>1
  <2>4. \A k \in 1..Services : Runs(k, ref[l])'
    BY <2>1, <2>3 DEF Made, Runs, PartOf, Exists
  <2> QED BY <1>6, <2>1, <2>2, <2>4 DEF Made
<1>10. CASE Boot(l)
  <2>1. /\ UNCHANGED <<net, ref, at>>
        /\ pc[l] = "boot" /\ pc[l] \in Building
        /\ pc'[l] = "record"
        /\ StartContainer(0, l)
        /\ 0 \in Names
    BY <1>1, <1>10 DEF Boot, Step, TypeOK, Building, Provisions
  <2>2. Runs(0, ref[l])' BY <1>5, <2>1 DEF Made, Runs, PartOf, Exists
  <2>3. \A k \in 1..Services : box'[k] = box[k] BY <1>5, <2>1
  <2>4. \A k \in 1..Services : Runs(k, ref[l])'
    BY <2>1, <2>3 DEF Made, Runs, PartOf, Exists
  <2> QED BY <1>6, <2>1, <2>2, <2>4 DEF Made
<1>11. CASE ~(CreateNetwork(l) \/ Resolve(l) \/ CreateService(l) \/ StartService(l)
              \/ CreateBox(l) \/ Boot(l))
  <2>1. pc'[l] \notin Building
    BY <1>1, <1>11 DEF TypeOK, LoginStep, Acquire, Reconcile, LookUp, Step, Remove, Reattach, Release,
       Stale, Forget, Record, Fail, ResolveFails, CreateServiceFails, StartServiceFails,
       CreateBoxFails, BootFails, RecordFails, Abort, LeaveIt, LastToLeave, LeaveTimesOut,
       Building, Provisions
  <2> QED BY <2>1, MadeNothing
<1> QED BY <1>2, <1>3, <1>7, <1>8, <1>9, <1>10, <1>11

(* Steps of a login leave alone what the others have made.                 *)
LEMMA LoginMade ==
    ASSUME OwnInvariant, "race" \notin harm, NEW l \in Logins, LoginStep(l), NEW m \in Logins
    PROVE  Made(m)'
<1>1. Made(m) BY DEF OwnInvariant
<1>2. CASE m = l BY <1>1, <1>2, MadeNext DEF OwnInvariant
<1>3. CASE m # l
  <2>1. pc'[m] = pc[m] /\ ref'[m] = ref[m] /\ at'[m] = at[m]
    BY <1>3 DEF OwnInvariant, TypeOK, Goto, LoginStep, Acquire, Reconcile, LookUp, Step, Remove, Reattach,
       Release, Stale, Forget, CreateNetwork, Resolve, CreateService, StartService, CreateBox,
       Boot, Record, Fail, ResolveFails, CreateServiceFails, StartServiceFails, CreateBoxFails,
       BootFails, RecordFails, Abort, LeaveIt, LastToLeave, LeaveTimesOut
  <2>2. ASSUME pc[m] \in Building PROVE UNCHANGED docker
    <3>1. lock # l BY <1>3, <2>2 DEF OwnInvariant, LockHeld, Building, Inside
    <3>2. pc[l] \notin Inside BY <3>1 DEF OwnInvariant, LockHeld
    <3> QED
      BY <3>2 DEF Goto, Inside, Provisions, LoginStep, Acquire, Reconcile, LookUp, Step, Remove, Reattach,
         Release, Stale, Forget, CreateNetwork, Resolve, CreateService, StartService, CreateBox,
         Boot, Record, Fail, ResolveFails, CreateServiceFails, StartServiceFails,
         CreateBoxFails, BootFails, RecordFails, Abort, LeaveIt, LastToLeave, LeaveTimesOut
  <2> QED BY <1>1, <2>1, <2>2, MadeFrame
<1> QED BY <1>2, <1>3

(* So does everybody else, unless the step is a race.                      *)
LEMMA OthersMade ==
    ASSUME OwnInvariant, Next, "race" \notin harm', ~\E l \in Logins : LoginStep(l),
           NEW m \in Logins
    PROVE  Made(m)'
<1>1. "race" \notin harm
  BY DEF Next, ProcStep, LoginStep, Undo, UndoFails, Undone, LegacyEnter, LegacyBoot, LegacyBootFails, LegacyLeave,
     Stop, Crash, Hangup, HookFails, SweepStep, ListContainers, Match, Reap, Rest, Vanish, Harm,
     Step, harmVars
<1>2. Made(m) BY <1>1 DEF OwnInvariant
<1>3. m \in Procs OBVIOUS
<1> USE DEF Goto, procVars, docker
<1>4. ASSUME NEW p \in Procs, Undo(p) PROVE Made(m)'
  <2>1. UNCHANGED <<pc, at, ref>> BY <1>4 DEF Undo
  <2>2. ASSUME pc[m] \in Building PROVE FALSE
    <3>1. lock = m BY <2>2 DEF OwnInvariant, LockHeld, Building, Inside
    <3>2. pc[p] = "undo" BY <1>4 DEF Undo
    <3>3. p \in Logins BY <1>1, <3>2 DEF OwnInvariant, LockHeld
    <3>4. p = m BY <1>1, <3>1, <3>2, <3>3 DEF OwnInvariant, LockHeld
    <3> QED BY <2>2, <3>2, <3>4 DEF Building, Provisions
  <2> QED BY <1>2, <2>1, <2>2, MadeFrame
<1>5. ASSUME NEW p \in Procs, UndoFails(p) PROVE Made(m)'
  BY <1>2, <1>5, MadeFrame DEF UndoFails
<1>6. ASSUME NEW p \in Procs, Undone(p) PROVE Made(m)'
  <2>1. CASE p = m
    BY <1>3, <1>6, <2>1, MadeNothing DEF Undone, OwnInvariant, TypeOK, Building, Provisions
  <2>2. CASE p # m
    BY <1>2, <1>3, <1>6, <2>2, MadeFrame DEF Undone, OwnInvariant, TypeOK
  <2> QED BY <2>1, <2>2
<1>7. ASSUME NEW p \in Procs, Crash(p) PROVE Made(m)'
  <2>1. CASE p = m
    BY <1>3, <1>7, <2>1, MadeNothing DEF Crash, OwnInvariant, TypeOK, Building, Provisions
  <2>2. CASE p # m
    BY <1>2, <1>3, <1>7, <2>2, MadeFrame DEF Crash, OwnInvariant, TypeOK
  <2> QED BY <2>1, <2>2
<1>8. ASSUME NEW g \in Legacy, LegacyBoot(g) \/ LegacyBootFails(g) \/ LegacyLeave(g) PROVE FALSE
  <2>1. g \in Procs \ Logins BY ProvisioningAssumption
  <2>2. pc[g] = "start" BY <1>1, <2>1 DEF OwnInvariant, LockHeld
  <2> QED BY <1>8, <2>2 DEF LegacyBoot, LegacyBootFails, LegacyLeave, Step
<1>9. ASSUME NEW l \in Logins, Hangup(l) PROVE Made(m)'
  <2>1. CASE l = m
    BY <1>3, <1>9, <2>1, MadeNothing DEF Hangup, Step, OwnInvariant, TypeOK, Building, Provisions
  <2>2. CASE l # m
    BY <1>2, <1>3, <1>9, <2>2, MadeFrame DEF Hangup, Step, OwnInvariant, TypeOK
  <2> QED BY <2>1, <2>2
<1>10. ASSUME NEW d \in Cleaners, ListContainers(d) \/ Match(d) \/ Rest(d) PROVE Made(m)'
  BY <1>2, <1>10, MadeFrame DEF ListContainers, Match, Rest
<1> QED
  BY <1>4, <1>5, <1>6, <1>7, <1>8, <1>9, <1>10
  DEF Next, ProcStep, SweepStep, LegacyEnter, Stop, HookFails, Reap, Vanish, Harm

(* TypeOK, LockHeld and Made hold of the initial states.                   *)
LEMMA InitOwn == Init => OwnInvariant
<1> SUFFICES ASSUME Init PROVE OwnInvariant
  OBVIOUS
<1>1. TypeOK BY InitTypes
<1>2. LockHeld BY DEF Init, LockHeld, Inside, Provisions, Building
<1>3. ASSUME NEW l \in Logins PROVE Made(l)
  BY DEF Init, Made, Building, Provisions
<1> QED BY <1>1, <1>2, <1>3 DEF OwnInvariant

(* Every step keeps them.                                                  *)
LEMMA NextOwn == OwnInvariant /\ [Next]_vars => OwnInvariant'
<1> SUFFICES ASSUME OwnInvariant, [Next]_vars PROVE OwnInvariant'
  OBVIOUS
<1>1. CASE UNCHANGED vars
  BY <1>1 DEF vars, docker, procVars, sweepVars, harmVars, OwnInvariant, TypeOK, LockHeld, Made,
     Runs, PartOf, Exists
<1>2. ASSUME NEW l \in Logins, LoginStep(l) PROVE OwnInvariant'
  <2>1. TypeOK' /\ LockHeld' BY <1>2, LoginTypes, LoginKeepsLock DEF OwnInvariant
  <2>2. harm' = harm
    BY <1>2 DEF LoginStep, Acquire, Reconcile, LookUp, Step, Remove, Reattach, Release, Stale, Forget,
       CreateNetwork, Resolve, CreateService, StartService, CreateBox, Boot, Record, Fail,
       ResolveFails, CreateServiceFails, StartServiceFails, CreateBoxFails, BootFails,
       RecordFails, Abort, LeaveIt, LastToLeave, LeaveTimesOut, harmVars
  <2> QED BY <1>2, <2>1, <2>2, LoginMade DEF OwnInvariant
<1>3. CASE Next /\ ~\E l \in Logins : LoginStep(l)
  <2>1. TypeOK' /\ LockHeld' BY <1>3, OtherTypes, OthersKeepLock DEF OwnInvariant
  <2> QED BY <1>3, <2>1, OthersMade DEF OwnInvariant
<1> QED BY <1>1, <1>2, <1>3

(* At all times, what holds of the types, the lock and what each login has *)
(* made so far.                                                            *)
THEOREM OwnInvariantHolds == Spec => []OwnInvariant
  BY InitOwn, NextOwn, PTL DEF Spec

(* The containers, the network, the row and the processes keep their types *)
(* (spawn.go, services.go, cleanup.go).                                    *)
THEOREM TypeCorrect == Spec => []TypeOK
<1>1. OwnInvariant => TypeOK BY DEF OwnInvariant
<1> QED BY <1>1, OwnInvariantHolds, PTL

(* Whoever records a session has made each container of it, whatever       *)
(* crashes and failed roll-backs have left under the same names, and all   *)
(* of them run on the network that the row names (ensureContainerWithState)*)
THEOREM EnvironmentIsOwn == Spec => []OwnEnvironment
<1>1. OwnInvariant => OwnEnvironment
  <2> SUFFICES ASSUME OwnInvariant, harm \subseteq {"debris"}, NEW l \in Logins,
                      pc[l] = "record"
               PROVE  ref[l].by = l /\ Whole(ref[l])
    BY DEF OwnEnvironment
  <2>1. Made(l) BY DEF OwnInvariant
  <2>2. \A k \in Names : k = 0 \/ k \in 1..Services BY ProvisioningAssumption
  <2> QED BY <2>1, <2>2 DEF Made, Whole, Building, Provisions
<1> QED BY <1>1, OwnInvariantHolds, PTL

-----------------------------------------------------------------------------
(* A session is whole, or nothing of it is there.                          *)

(* Nothing is claimed of a login outside of the lock.                      *)
LEMMA NothingOutside ==
    ASSUME NEW m, pc'[m] \notin Inside \cup {"undo"}
    PROVE  NothingElse(m)'
  BY DEF NothingElse, Inside, Provisions

(* What is claimed of a login stays, if nobody touches anything.           *)
LEMMA NothingElseFrame ==
    ASSUME NEW m, NothingElse(m), pc'[m] = pc[m], ref'[m] = ref[m], at'[m] = at[m],
           todo'[m] = todo[m],
           pc[m] \in Inside \cup {"undo"} => UNCHANGED <<docker, row>>
    PROVE  NothingElse(m)'
<1>1. CASE pc[m] \in Inside \cup {"undo"}
  BY <1>1 DEF NothingElse, Settled, Whole, Runs, PartOf, Empty, Exists, docker
<1>2. CASE pc[m] \notin Inside \cup {"undo"} BY <1>2, NothingOutside
<1> QED BY <1>1, <1>2

(* Whoever begins to remove a whole session removes all there is:          *)
(* DestroySession.                                                         *)
LEMMA RemovesWhole ==
    ASSUME TypeOK, NEW l \in Logins, NEW from, NEW return,
           Remove(l, from, row, Everything, return), row # None, Settled,
           UNCHANGED <<docker, row>>
    PROVE  NothingElse(l)'
<1> USE ProvisioningAssumption
<1>1. pc'[l] = "undo" /\ ref'[l] = row /\ todo'[l] = Everything
  BY DEF Remove, Goto, TypeOK
<1>2. Whole(row) BY DEF Settled
<1>3. \A k \in Names : box[k].by = row.by BY <1>2 DEF Whole, Runs, PartOf
<1>4. Network \in Everything /\ Row \in Everything /\ \A k \in Names : k \in Everything
  OBVIOUS
<1> QED BY <1>1, <1>2, <1>3, <1>4 DEF NothingElse, Whole, Exists, docker, Inside, Provisions

(* Whoever gives up removes all there is: the roll-backs of StartServices  *)
(* and of ensureContainerWithState.                                        *)
LEMMA GivesUp ==
    ASSUME TypeOK, LockHeld, Malformed = {}, NEW l \in Logins, Made(l), NothingElse(l),
           \/ ResolveFails(l) \/ CreateServiceFails(l) \/ StartServiceFails(l)
           \/ CreateBoxFails(l) \/ BootFails(l) \/ RecordFails(l)
    PROVE  NothingElse(l)'
<1> USE ProvisioningAssumption
<1>1. ASSUME NEW from \in Building, NEW things, Abort(l, from, things), Network \in things,
             \A k \in Names : Exists(k) => k \in things /\ (k = 0 \/ box[k].by = ref[l].by)
      PROVE  NothingElse(l)'
  <2>1. /\ pc[l] \in Building /\ UNCHANGED <<docker, row>>
        /\ pc'[l] = "undo" /\ ref'[l] = ref[l] /\ todo'[l] = things
    BY <1>1 DEF Abort, Remove, Goto, TypeOK
  <2>2. row = None /\ net = ref[l].net BY <2>1 DEF Made, NothingElse, Building
  <2> QED BY <1>1, <2>1, <2>2 DEF NothingElse, Exists, docker, Inside, Provisions
<1>2. CASE ResolveFails(l)
  <2>1. pc[l] = "resolve" BY <1>2 DEF ResolveFails, Abort, Remove, Goto
  <2> QED BY <1>1, <1>2, <2>1 DEF ResolveFails, NothingElse, Empty, Building, Provisions
<1>3. CASE CreateServiceFails(l)
  <2>1. pc[l] = "service" BY <1>3 DEF CreateServiceFails, Abort, Remove, Goto
  <2>2. at[l] \in 1..Services /\ Started(l) = 1..(at[l] - 1) BY <2>1 DEF Made, Started
  <2>3. ASSUME NEW k \in Names, Exists(k) PROVE k \in 1..(at[l] - 1) /\ box[k].by = ref[l].by
    <3>1. k \notin {0} \cup at[l]..Services BY <2>1, <2>3 DEF NothingElse, Empty
    <3>2. k \in 1..(at[l] - 1) BY <2>2, <3>1
    <3> QED BY <2>1, <3>2 DEF Made, Runs, PartOf
  <2> QED BY <1>1, <1>3, <2>2, <2>3 DEF CreateServiceFails, Building, Provisions
<1>4. CASE StartServiceFails(l)
  <2>1. pc[l] = "startService" BY <1>4 DEF StartServiceFails, Abort, Remove, Goto
  <2>2. at[l] \in 1..Services BY <2>1 DEF Made
  <2>3. ASSUME NEW k \in Names, Exists(k) PROVE k \in 1..at[l] /\ box[k].by = ref[l].by
    <3>1. k \notin {0} \cup (at[l] + 1)..Services BY <2>1, <2>3 DEF NothingElse, Empty
    <3>2. k \in 1..(at[l] - 1) \/ k = at[l] BY <2>2, <3>1
    <3>3. k \in 1..at[l] BY <2>2, <3>2
    <3> QED BY <2>1, <3>2, <3>3 DEF Made, Runs, PartOf
  <2> QED BY <1>1, <1>4, <2>2, <2>3 DEF StartServiceFails, Building, Provisions
<1>5. CASE CreateBoxFails(l)
  <2>1. pc[l] = "box" BY <1>5 DEF CreateBoxFails, Abort, Remove, Goto
  <2>2. ASSUME NEW k \in Names, Exists(k) PROVE k \in 1..Services /\ box[k].by = ref[l].by
    <3>1. k # 0 BY <2>1, <2>2 DEF NothingElse, Empty
    <3>2. k \in 1..Services BY <3>1
    <3> QED BY <2>1, <3>2 DEF Made, Runs, PartOf
  <2>3. Network \in 1..Network /\ \A k \in 1..Services : k \in 1..Network OBVIOUS
  <2> QED BY <1>1, <1>5, <2>2, <2>3 DEF CreateBoxFails, Building, Provisions
<1>6. CASE BootFails(l) \/ RecordFails(l)
  <2>1. pc[l] \in {"boot", "record"}
    BY <1>6 DEF BootFails, RecordFails, Abort, Remove, Goto
  <2>2. ASSUME NEW k \in Names PROVE k = 0 \/ box[k].by = ref[l].by
    <3>1. k = 0 \/ k \in 1..Services OBVIOUS
    <3> QED BY <2>1, <3>1 DEF Made, Runs, PartOf
  <2>3. Network \in 0..Network /\ \A k \in Names : k \in 0..Network OBVIOUS
  <2> QED BY <1>1, <1>6, <2>2, <2>3 DEF BootFails, RecordFails, Building, Provisions
<1> QED BY <1>2, <1>3, <1>4, <1>5, <1>6

(* The removal of the next thing leaves only what is still to be removed.  *)
LEMMA UndoNext ==
    ASSUME TypeOK, NEW l \in Logins, NothingElse(l), Undo(l)
    PROVE  NothingElse(l)'
<1> USE ProvisioningAssumption
<1>1. PICK x \in todo[l] :
        /\ \A y \in todo[l] : x <= y
        /\ todo' = [todo EXCEPT ![l] = @ \ {x}]
        /\ RemoveThing(ref[l], x)
  BY DEF Undo
<1>2. pc[l] = "undo" /\ UNCHANGED <<pc, ref>> BY DEF Undo
<1>3. todo'[l] = todo[l] \ {x} /\ x \in Everything BY <1>1 DEF TypeOK
<1>4. ASSUME NEW k \in Names, Exists(k)'
      PROVE  Exists(k) /\ box'[k] = box[k] /\ k # x
  <2>1. CASE x = 0
    BY <1>1, <1>4, <2>1 DEF RemoveThing, RemoveName, Exists, TypeOK
  <2>2. CASE x \in 1..Services
    <3>1. RemoveId(x, ref[l].by) BY <1>1, <2>2 DEF RemoveThing
    <3>2. Exists(x) => box[x].by = ref[l].by BY <1>2, <2>2 DEF NothingElse
    <3>3. CASE Exists(x)
      <4>1. box' = [box EXCEPT ![x] = None] BY <3>1, <3>2, <3>3 DEF RemoveId, RemoveName
      <4> QED BY <1>4, <2>2, <4>1 DEF Exists, TypeOK
    <3>4. CASE ~Exists(x)
      <4>1. box' = box BY <3>1, <3>4 DEF RemoveId
      <4> QED BY <1>4, <3>4, <4>1 DEF Exists
    <3> QED BY <3>3, <3>4
  <2>3. CASE x \notin Names
    BY <1>1, <1>4, <2>3 DEF RemoveThing, Exists
  <2> QED BY <2>1, <2>2, <2>3
<1>5. ASSUME net' # None PROVE net' = net /\ x # Network
  <2>1. CASE x = Network
    <3>1. \A k \in Names : ~Exists(k) BY <1>1, <1>2, <2>1 DEF NothingElse
    <3>2. RemoveNetwork(ref[l].net) BY <1>1, <2>1 DEF RemoveThing
    <3>3. net # None => net = ref[l].net BY <1>2 DEF NothingElse
    <3> QED BY <1>5, <3>1, <3>2, <3>3 DEF RemoveNetwork
  <2>2. CASE x # Network BY <1>1, <2>2 DEF RemoveThing
  <2> QED BY <2>1, <2>2
<1>6. ASSUME row' # None PROVE row # None /\ x # Row BY <1>1, <1>6 DEF RemoveThing
<1>7. \A k \in Names : Exists(k)' => k \in todo'[l] /\ (k = 0 \/ box'[k].by = ref'[l].by)
  BY <1>2, <1>3, <1>4 DEF NothingElse
<1>8. net' # None => Network \in todo'[l] /\ net' = ref'[l].net
  BY <1>2, <1>3, <1>5 DEF NothingElse
<1>9. row' # None => Row \in todo'[l] BY <1>2, <1>3, <1>6 DEF NothingElse
<1> QED BY <1>2, <1>7, <1>8, <1>9 DEF NothingElse, Inside, Provisions

(* Each step of a login keeps what is claimed of it.                       *)
LEMMA NothingElseNext ==
    ASSUME OwnInvariant, Malformed = {}, harm = {}, NEW l \in Logins, NothingElse(l),
           lock = None => Settled, LoginStep(l)
    PROVE  NothingElse(l)'
<1> USE ProvisioningAssumption DEF Goto
<1>1. l \in Procs /\ TypeOK /\ LockHeld /\ Made(l) BY DEF OwnInvariant
<1>2. CASE Acquire(l)
  <2>1. Settled /\ UNCHANGED <<docker, row>> /\ pc'[l] \in {"lookup", "settle"}
    BY <1>1, <1>2 DEF Acquire, TypeOK
  <2> QED
    BY <2>1 DEF NothingElse, Provisions, Settled, Whole, Runs, PartOf, Empty, Exists, docker
<1>3. CASE LookUp(l)
  <2>1. /\ Settled /\ UNCHANGED <<docker, row>>
        /\ pc'[l] = IF row = None THEN "network" ELSE "inspect"
    BY <1>1, <1>3 DEF LookUp, Step, NothingElse, TypeOK
  <2> QED
    BY <2>1 DEF NothingElse, Provisions, Settled, Whole, Runs, PartOf, Empty, Exists, docker
<1>14. CASE Reconcile(l)
  <2>1. /\ row # None /\ Remove(l, "lookup", row, Everything, "get")
        /\ UNCHANGED <<docker, row>> /\ pc[l] = "lookup"
    BY <1>14 DEF Reconcile, Remove
  <2> QED BY <1>1, <2>1, RemovesWhole DEF NothingElse
<1>4. CASE Reattach(l) \/ LeaveIt(l) \/ LeaveTimesOut(l) \/ Fail(l) \/ Record(l)
  <2>1. pc'[l] \notin Inside \cup {"undo"}
    BY <1>1, <1>4 DEF Reattach, LeaveIt, LeaveTimesOut, Fail, Record, Release, Step, TypeOK,
       Inside, Provisions
  <2> QED BY <2>1, NothingOutside
<1>5. CASE Stale(l)
  <2>1. row # None /\ Settled BY <1>5 DEF Stale, Step, NothingElse
  <2> QED BY <1>5, <2>1 DEF Stale, Settled, Whole, Runs, PartOf
<1>6. CASE Forget(l) BY <1>6 DEF Forget, NothingElse
<1>7. CASE CreateNetwork(l)
  <2>1. pc[l] = "network" /\ pc'[l] = "resolve" /\ UNCHANGED <<box, row>>
    BY <1>1, <1>7 DEF CreateNetwork, TypeOK
  <2> QED BY <2>1 DEF NothingElse, Provisions, Empty, Exists
<1>8. CASE Resolve(l)
  <2>1. pc[l] = "resolve" /\ UNCHANGED <<box, net, row>> BY <1>8 DEF Resolve, docker
  <2>2. pc'[l] = "box" \/ (pc'[l] = "service" /\ at'[l] = 1)
    BY <1>1, <1>8 DEF Resolve, TypeOK
  <2>3. Empty(Names) /\ row = None BY <2>1 DEF NothingElse, Provisions
  <2> QED BY <2>1, <2>2, <2>3 DEF NothingElse, Provisions, Empty, Exists
<1>9. CASE CreateService(l)
  <2>1. /\ pc[l] = "service" /\ pc'[l] = "startService" /\ UNCHANGED <<net, row, at>>
        /\ CreateContainer(at[l], l, ref[l].net)
    BY <1>1, <1>9 DEF CreateService, Step, TypeOK
  <2>2. at[l] \in 1..Services BY <1>1, <2>1 DEF Made
  <2>3. \A k \in Names : k # at[l] => box'[k] = box[k]
    BY <1>1, <2>1 DEF CreateContainer, TypeOK
  <2>4. Empty({0} \cup at[l]..Services) /\ row = None BY <2>1 DEF NothingElse, Provisions
  <2>5. \A k \in {0} \cup (at[l] + 1)..Services : k \in {0} \cup at[l]..Services /\ k # at[l] /\ k \in Names
    BY <2>2
  <2>6. Empty({0} \cup (at[l] + 1)..Services)'
    BY <2>1, <2>3, <2>4, <2>5 DEF Empty, Exists
  <2> QED BY <2>1, <2>4, <2>6 DEF NothingElse, Provisions
<1>10. CASE StartService(l)
  <2>1. /\ pc[l] = "startService" /\ UNCHANGED <<net, row>>
        /\ pc'[l] = "box" \/ (pc'[l] = "service" /\ at'[l] = at[l] + 1)
        /\ StartContainer(at[l], l)
    BY <1>1, <1>10 DEF StartService, TypeOK
  <2>2. at[l] \in 1..Services BY <1>1, <2>1 DEF Made
  <2>3. \A k \in Names : k # at[l] => box'[k] = box[k]
    BY <1>1, <2>1 DEF StartContainer, TypeOK
  <2>4. Empty({0} \cup (at[l] + 1)..Services) /\ row = None BY <2>1 DEF NothingElse, Provisions
  <2>5. \A k \in {0} \cup (at[l] + 1)..Services : k # at[l] /\ k \in Names BY <2>2
  <2>6. \A k \in {0} \cup (at[l] + 1)..Services : box'[k] = None
    BY <2>3, <2>4, <2>5 DEF Empty, Exists
  <2>7. pc'[l] = "service" => Empty({0} \cup at[l]..Services)'
    BY <2>1, <2>6 DEF Empty, Exists
  <2>8. Empty({0})' BY <2>6 DEF Empty, Exists
  <2> QED BY <2>1, <2>4, <2>7, <2>8 DEF NothingElse, Provisions
<1>11. CASE CreateBox(l) \/ Boot(l)
  <2>1. pc'[l] \in {"boot", "record"} /\ row' = row /\ pc[l] \in {"box", "boot"}
    BY <1>1, <1>11 DEF CreateBox, Boot, Step, TypeOK
  <2> QED BY <2>1 DEF NothingElse, Provisions
<1>12. CASE ResolveFails(l) \/ CreateServiceFails(l) \/ StartServiceFails(l)
            \/ CreateBoxFails(l) \/ BootFails(l) \/ RecordFails(l)
  BY <1>1, <1>12, GivesUp
<1>13. CASE LastToLeave(l)
  <2>1. /\ row # None /\ Remove(l, "settle", row, Everything, "done")
        /\ UNCHANGED <<docker, row>> /\ pc[l] = "settle"
    BY <1>13 DEF LastToLeave, Remove
  <2> QED BY <1>1, <2>1, RemovesWhole DEF NothingElse
<1> QED
  BY <1>2, <1>3, <1>4, <1>5, <1>6, <1>7, <1>8, <1>9, <1>10, <1>11, <1>12, <1>13,
     <1>14 DEF LoginStep

(* Whoever lets go of the lock leaves a whole session, or nothing.         *)
LEMMA LoginSettles ==
    ASSUME OwnInvariant, Malformed = {}, harm = {}, NEW l \in Logins, NothingElse(l),
           lock = None => Settled, LoginStep(l), lock' = None
    PROVE  Settled'
<1> USE ProvisioningAssumption, NoneAssumption DEF Goto
<1>1. l \in Procs /\ TypeOK /\ LockHeld /\ Made(l) BY DEF OwnInvariant
<1>2. CASE UNCHANGED <<docker, row>> /\ Settled
  BY <1>2 DEF Settled, Whole, Runs, PartOf, Empty, Exists, docker
<1>3. CASE lock = None
  <2>1. pc[l] \notin Inside BY <1>1, <1>3 DEF LockHeld
  <2>2. UNCHANGED <<docker, row>>
    BY <2>1 DEF Inside, Provisions, LoginStep, Acquire, Reconcile, LookUp, Step, Remove, Reattach, Release,
       Stale, Forget, CreateNetwork, Resolve, CreateService, StartService, CreateBox, Boot,
       Record, Fail, ResolveFails, CreateServiceFails, StartServiceFails, CreateBoxFails,
       BootFails, RecordFails, Abort, LeaveIt, LastToLeave, LeaveTimesOut
  <2> QED BY <1>2, <1>3, <2>2
<1>4. CASE Reattach(l) \/ LeaveIt(l)
  BY <1>2, <1>4 DEF Reattach, LeaveIt, Release, NothingElse
<1>5. CASE Fail(l)
  <2>1. pc[l] \in {"lookup", "get", "network"} /\ UNCHANGED <<docker, row>>
    BY <1>5 DEF Fail, Release, NothingElse
  <2>2. Settled BY <2>1 DEF NothingElse, Settled, Provisions
  <2> QED BY <1>2, <2>1, <2>2
<1>6. CASE Record(l)
  <2>1. pc[l] = "record" /\ row' = ref[l] /\ UNCHANGED docker BY <1>6 DEF Record
  <2>2. ref[l] # None BY <1>1, <2>1 DEF LockHeld, Building, Provisions
  <2>3. ASSUME NEW k \in Names PROVE Runs(k, ref[l])
    <3>1. k = 0 \/ k \in 1..Services OBVIOUS
    <3> QED BY <1>1, <2>1, <3>1 DEF Made
  <2>4. net = ref[l].net BY <1>1, <2>1 DEF Made, Building, Provisions
  <2> QED BY <2>1, <2>2, <2>3, <2>4 DEF Settled, Whole, Runs, PartOf, Exists, docker
<1>7. CASE lock # None /\ ~(Reattach(l) \/ LeaveIt(l) \/ Fail(l) \/ Record(l))
  BY <1>1, <1>7 DEF Inside, Provisions, LoginStep, Acquire, Reconcile, LookUp, Step, Remove,
     Stale, Forget, CreateNetwork, Resolve, CreateService, StartService, CreateBox, Boot,
     ResolveFails, CreateServiceFails, StartServiceFails, CreateBoxFails,
     BootFails, RecordFails, Abort, LastToLeave, LeaveTimesOut
<1> QED BY <1>3, <1>4, <1>5, <1>6, <1>7

(* Steps of a login leave alone what is claimed of the others.             *)
LEMMA LoginWhole ==
    ASSUME OwnInvariant, Malformed = {}, harm = {}, NEW l \in Logins, LoginStep(l),
           NEW m \in Logins, NothingElse(m), NothingElse(l), lock = None => Settled
    PROVE  NothingElse(m)'
<1>1. CASE m = l BY <1>1, NothingElseNext
<1>2. CASE m # l
  <2>1. pc'[m] = pc[m] /\ ref'[m] = ref[m] /\ at'[m] = at[m] /\ todo'[m] = todo[m]
    BY <1>2 DEF OwnInvariant, TypeOK, Goto, LoginStep, Acquire, Reconcile, LookUp, Step, Remove, Reattach,
       Release, Stale, Forget, CreateNetwork, Resolve, CreateService, StartService, CreateBox,
       Boot, Record, Fail, ResolveFails, CreateServiceFails, StartServiceFails, CreateBoxFails,
       BootFails, RecordFails, Abort, LeaveIt, LastToLeave, LeaveTimesOut
  <2>2. ASSUME pc[m] \in Inside \cup {"undo"} PROVE UNCHANGED <<docker, row>>
    <3>1. lock # l BY <1>2, <2>2 DEF OwnInvariant, LockHeld
    <3>2. pc[l] \notin Inside BY <3>1 DEF OwnInvariant, LockHeld
    <3> QED
      BY <3>2 DEF Goto, Inside, Provisions, LoginStep, Acquire, Reconcile, LookUp, Step, Remove, Reattach,
         Release, Stale, Forget, CreateNetwork, Resolve, CreateService, StartService, CreateBox,
         Boot, Record, Fail, ResolveFails, CreateServiceFails, StartServiceFails,
         CreateBoxFails, BootFails, RecordFails, Abort, LeaveIt, LastToLeave, LeaveTimesOut
  <2> QED BY <2>1, <2>2, NothingElseFrame
<1> QED BY <1>1, <1>2

(* Nor does anybody else disturb them, unless the step is a race or leaves *)
(* something behind.                                                       *)
LEMMA OthersWhole ==
    ASSUME OwnInvariant, harm = {}, harm' = {}, Next, ~\E l \in Logins : LoginStep(l),
           \A m \in Logins : NothingElse(m), lock = None => Settled
    PROVE  (lock' = None => Settled') /\ \A m \in Logins : NothingElse(m)'
<1> USE NoneAssumption DEF Goto, procVars
<1> DEFINE Goal == (lock' = None => Settled') /\ \A m \in Logins : NothingElse(m)'
<1>1. ASSUME UNCHANGED <<docker, row>>, Settled PROVE Settled'
  BY <1>1 DEF Settled, Whole, Runs, PartOf, Empty, Exists, docker
<1>2. ASSUME NEW p \in Procs, pc[p] # "start" PROVE p \in Logins
  BY <1>2 DEF OwnInvariant, LockHeld
<1>3. ASSUME NEW p \in Procs, Undo(p) PROVE Goal
  <2>1. pc[p] = "undo" /\ p \in Logins BY <1>2, <1>3 DEF Undo
  <2>2. lock = p /\ lock' # None BY <1>3, <2>1 DEF Undo, OwnInvariant, LockHeld
  <2>3. ASSUME NEW m \in Logins, m # p PROVE NothingElse(m)'
    <3>1. pc'[m] \notin Inside \cup {"undo"}
      BY <1>3, <2>2, <2>3 DEF Undo, OwnInvariant, LockHeld
    <3> QED BY <3>1, NothingOutside
  <2>4. NothingElse(p)' BY <1>3, <2>1, UndoNext DEF OwnInvariant
  <2> QED BY <2>2, <2>3, <2>4
<1>4. ASSUME NEW p \in Procs, Undone(p) PROVE Goal
  <2>1. /\ pc[p] = "undo" /\ p \in Logins /\ todo[p] = {} /\ UNCHANGED <<docker, row>>
        /\ pc'[p] = back[p]
    BY <1>2, <1>4 DEF Undone, OwnInvariant, TypeOK
  <2>2. lock = p BY <2>1 DEF OwnInvariant, LockHeld
  <2>3. Empty(Names) /\ net = None /\ row = None BY <2>1 DEF NothingElse, Empty
  <2>4. Settled' BY <2>1, <2>3 DEF Settled, Empty, Exists, docker
  <2>5. ASSUME NEW m \in Logins, m # p PROVE NothingElse(m)'
    <3>1. pc'[m] = pc[m] BY <1>4, <2>5 DEF Undone, OwnInvariant, TypeOK
    <3>2. pc'[m] \notin Inside \cup {"undo"} BY <2>2, <2>5, <3>1 DEF OwnInvariant, LockHeld
    <3> QED BY <3>2, NothingOutside
  <2>6. NothingElse(p)'
    <3>1. CASE pc'[p] = "get" BY <2>4, <3>1 DEF NothingElse, Provisions
    <3>2. CASE pc'[p] # "get"
      <4>1. pc'[p] \notin Inside \cup {"undo"}
        BY <2>1, <3>2 DEF OwnInvariant, TypeOK, Inside, Provisions
      <4> QED BY <4>1, NothingOutside
    <3> QED BY <3>1, <3>2
  <2> QED BY <2>4, <2>5, <2>6
<1>5. ASSUME NEW p \in Procs, UndoFails(p) \/ Crash(p) PROVE FALSE
  BY <1>5 DEF UndoFails, Crash, Harm
<1>6. ASSUME NEW g \in Legacy, LegacyBoot(g) \/ LegacyBootFails(g) \/ LegacyLeave(g) PROVE FALSE
  <2>1. g \in Procs \ Logins BY ProvisioningAssumption
  <2>2. pc[g] = "start" BY <2>1 DEF OwnInvariant, LockHeld
  <2> QED BY <1>6, <2>2 DEF LegacyBoot, LegacyBootFails, LegacyLeave, Step
<1>7. ASSUME NEW l \in Logins, Hangup(l) PROVE Goal
  <2>1. UNCHANGED <<docker, row, lock>> /\ pc'[l] = "leave"
    BY <1>7 DEF Hangup, Step, OwnInvariant, TypeOK
  <2>2. NothingElse(l)' BY <2>1, NothingOutside DEF Inside, Provisions
  <2>3. ASSUME NEW m \in Logins, m # l PROVE NothingElse(m)'
    BY <1>7, <2>1, <2>3, NothingElseFrame DEF Hangup, Step, OwnInvariant, TypeOK
  <2> QED BY <1>1, <2>1, <2>2, <2>3
<1>8. ASSUME NEW d \in Cleaners, ListContainers(d) \/ Match(d) \/ Rest(d) PROVE Goal
  <2>1. UNCHANGED <<docker, row, lock, pc, at, ref, todo>>
    BY <1>8 DEF ListContainers, Match, Rest
  <2> QED BY <1>1, <2>1, NothingElseFrame
<1> QED
  BY <1>3, <1>4, <1>5, <1>6, <1>7, <1>8
  DEF Next, ProcStep, SweepStep, LegacyEnter, Stop, HookFails, Reap, Vanish, Harm

(* Every step keeps the whole of the invariant.                            *)
LEMMA NextWhole ==
    ASSUME Malformed = {}
    PROVE  WholeInvariant /\ [Next]_vars => WholeInvariant'
<1> SUFFICES ASSUME WholeInvariant, [Next]_vars PROVE WholeInvariant'
  OBVIOUS
<1>1. OwnInvariant' BY NextOwn DEF WholeInvariant
<1>2. OwnInvariant BY DEF WholeInvariant
<1>3. ASSUME harm' = {}
      PROVE  (lock' = None => Settled') /\ \A m \in Logins : NothingElse(m)'
  <2>1. harm = {}
    BY <1>3 DEF Next, ProcStep, LoginStep, Undo, UndoFails, Undone, LegacyEnter, LegacyBoot, LegacyBootFails,
       LegacyLeave, Stop, Crash, Hangup, HookFails, SweepStep, ListContainers, Match, Reap, Rest,
       Vanish, Harm, Step, harmVars, vars, Acquire, Reconcile, LookUp, Remove, Reattach, Release, Stale,
       Forget, CreateNetwork, Resolve, CreateService, StartService, CreateBox, Boot, Record,
       Fail, ResolveFails, CreateServiceFails, StartServiceFails, CreateBoxFails, BootFails,
       RecordFails, Abort, LeaveIt, LastToLeave, LeaveTimesOut
  <2>2. (lock = None => Settled) /\ \A m \in Logins : NothingElse(m)
    BY <2>1 DEF WholeInvariant
  <2>3. CASE UNCHANGED vars
    BY <2>2, <2>3 DEF vars, docker, procVars, sweepVars, harmVars, NothingElse, Settled, Whole,
       Runs, PartOf, Empty, Exists
  <2>4. ASSUME NEW l \in Logins, LoginStep(l)
        PROVE  (lock' = None => Settled') /\ \A m \in Logins : NothingElse(m)'
    BY <1>2, <2>1, <2>2, <2>4, LoginWhole, LoginSettles
  <2>5. CASE Next /\ ~\E l \in Logins : LoginStep(l)
    BY <1>2, <1>3, <2>1, <2>2, <2>5, OthersWhole
  <2> QED BY <2>3, <2>4, <2>5
<1> QED BY <1>1, <1>3 DEF WholeInvariant

(* Whenever nobody holds the lock, a session is there with its container,  *)
(* its services and its network, or nothing of it is, wherever the calls   *)
(* have failed on the way; with Podfiles whose volumes can be parsed       *)
(* (ensureContainerWithState, StartServices, DestroySession).              *)
THEOREM WholeSessions ==
    ASSUME Malformed = {}
    PROVE  Spec => []WholeOrNothing
<1>1. Init => WholeInvariant
  BY InitOwn DEF Init, WholeInvariant, Settled, Empty, Exists, NothingElse, Provisions
<1>2. WholeInvariant /\ [Next]_vars => WholeInvariant' BY NextWhole
<1>3. WholeInvariant => WholeOrNothing
  BY DEF WholeInvariant, WholeOrNothing, Settled, Empty
<1> QED BY <1>1, <1>2, <1>3, PTL DEF Spec
=============================================================================
