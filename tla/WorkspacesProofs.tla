--------------------------- MODULE WorkspacesProofs ---------------------------
(***************************************************************************)
(* Proofs about Workspaces.                                                *)
(*                                                                         *)
(* CheckoutOfRow is not inductive: Record inserts a row that was made many *)
(* calls before, Wipe removes a directory by its name, and UpdateBranch    *)
(* writes what git did a call earlier.  What these commands still know of  *)
(* the row and the checkout is Knowledge, as long as nobody acts on what   *)
(* another is using; kills do not matter to it.                            *)
(*                                                                         *)
(* InitializedIsReady and OnCreateOnce need what the row, the checkout and *)
(* the session say of on_create while a command is on its way through it:  *)
(* Readiness.  A command that is killed there leaves the row without the   *)
(* mark: only OnCreateOnce is about histories without kills and failures.  *)
(***************************************************************************)
EXTENDS Workspaces, TLAPS

\* What a command has in memory at its calls, whatever happens around it.
RememberedOf(p) ==
    /\ pc[p] \in {"idle", "attached"} => ws[p] = None /\ p \notin created
    /\ pc[p] = "record" => ws[p] # None
    /\ p \in created => ws[p] # None
    /\ pc[p] = "undo" => p \in created
    /\ pc[p] \in {"git", "branch"} => want[p] # None

Remembered == \A p \in Procs : RememberedOf(p)

\* A create that is about to insert the row has the checkout for it.
Cloning ==
    \A p \in Procs :
        pc[p] \in {"cloning", "podfile", "record"} =>
            /\ row = None
            /\ dir # None /\ dir.by = p
            /\ pc[p] # "cloning" => dir.cloned
            /\ pc[p] = "record" => ws[p].branch = dir.branch

\* Whoever changes the workspace is the only one to know of it.
Alone ==
    \A p \in Procs :
        pc[p] \in Changing =>
            /\ row # None
            /\ \A q \in Procs \ {p} :
                 ws[q] = None /\ pc[q] \notin Changing \cup {"cloning", "podfile"}

\* A directory that a create may remove is not that of another's row.
Foreign ==
    \A p \in Procs :
        pc[p] \in {"collide", "clone", "wipe"} /\ row # None /\ dir # None => dir.by # p

\* What is still being cloned is not complete.
Unfinished ==
    \A p \in Procs : pc[p] = "cloning" /\ dir # None /\ dir.by = p => ~dir.cloned

\* Whoever has read or inserted the row works on one that is still there.
Rowed == \A p \in Procs : ws[p] # None /\ pc[p] \notin {"record", "wipe"} => row # None

\* A session on the checkout has it, and nobody is about to take it away.
Mounted ==
    Running /\ session.mount = "checkout" =>
        /\ row # None /\ dir # None /\ dir.cloned
        /\ \A p \in Procs : pc[p] \notin {"rmdir", "rmrow"}

\* A session on a temporary clone has that, and its run has not begun again.
Temporary ==
    Running /\ session.mount \in Runs =>
        session.mount \in tmp /\ pc[session.mount] # "clone"

\* Between the two steps on the checkout and on the row.
Between ==
    \A p \in Procs :
        /\ pc[p] = "branch" => dir # None /\ dir.cloned /\ dir.branch = want[p]
        /\ pc[p] = "rmrow" => dir = None

\* A row has its checkout.
Backed ==
    row # None =>
        \/ \E p \in Procs : pc[p] \in {"branch", "rmrow"}
        \/ dir # None /\ dir.cloned /\ dir.branch = row.branch

\* A checkout has its row, or the create that is to insert it or to remove the checkout.
Owned ==
    dir # None /\ row = None =>
        \E p \in Procs : pc[p] \in {"cloning", "podfile", "record", "wipe"}

Knowledge == Cloning /\ Alone /\ Foreign /\ Unfinished /\ Rowed
Consistent == Between /\ Backed

Untorn == Spared({"torn", "clobber", "underfoot"})
Unkilled == Spared({"kill", "torn", "clobber", "underfoot"})

WorkspacesInvariant ==
    /\ TypeOK
    /\ Remembered
    /\ Temporary
    /\ Spared({"clobber", "underfoot"}) => Knowledge /\ Mounted
    /\ Untorn => Consistent
    /\ Unkilled => Owned

-----------------------------------------------------------------------------
(* Types, and what commands remember.                                      *)

Kinds == {"kill", "torn", "failure", "clobber", "underfoot", "stop"}
Calls == {"idle", "attached"} \cup Creating \cup Starting \cup Changing

LEMMA HarmTyped ==
    ASSUME TypeOK, NEW c, NEW kind \in Kinds, HarmIf(c, kind)
    PROVE  harm' \subseteq Kinds /\ left' \in 0..Harms
<1>1. harm \subseteq Kinds /\ left \in 0..Harms /\ Harms \in Nat
    BY WorkspacesAssumption DEF TypeOK, Kinds
<1>2. CASE c
    BY <1>1, <1>2 DEF HarmIf, Harm
<1>3. CASE ~c
    BY <1>1, <1>3 DEF HarmIf, harmVars
<1>4. QED
    BY <1>2, <1>3

LEMMA HarmedTyped ==
    ASSUME TypeOK, NEW kind \in Kinds, Harm(kind)
    PROVE  harm' \subseteq Kinds /\ left' \in 0..Harms
BY HarmTyped DEF HarmIf

LEMMA UnharmedTyped ==
    ASSUME TypeOK, UNCHANGED harmVars
    PROVE  harm' \subseteq Kinds /\ left' \in 0..Harms
BY DEF TypeOK, harmVars, Kinds

\* Rows and checkouts stay what they are when one of their fields changes.
LEMMA RowTyped ==
    ASSUME NEW r \in Workspace
    PROVE  /\ \A b \in BOOLEAN : [r EXCEPT !.preserved = b] \in Workspace
           /\ \A b \in BOOLEAN : [r EXCEPT !.initialized = b] \in Workspace
           /\ \A x \in Branches : [r EXCEPT !.branch = x] \in Workspace
           /\ \A x \in Branches \cup {None} : [r EXCEPT !.head = x] \in Workspace
BY DEF Workspace

LEMMA CheckoutTyped ==
    ASSUME NEW d \in Checkout
    PROVE  /\ d.branch \in Branches /\ d.by \in Creators
           /\ \A x \in Branches : [d EXCEPT !.branch = x] \in Checkout
           /\ \A x \in Branches : [d EXCEPT !.branch = x, !.ready = None] \in Checkout
           /\ [d EXCEPT !.cloned = TRUE] \in Checkout
           /\ [d EXCEPT !.cloned = FALSE] \in Checkout
           /\ [d EXCEPT !.cloned = d.cloned] \in Checkout
           /\ \A x \in Branches : [d EXCEPT !.ready = x] \in Checkout
BY DEF Checkout

LEMMA SessionTyped ==
    ASSUME NEW s \in Session
    PROVE  [s EXCEPT !.up = FALSE] \in Session /\ [s EXCEPT !.shared = TRUE] \in Session
BY DEF Session

\* One process goes to its next call.
LEMMA GotoTyped ==
    ASSUME TypeOK, NEW p \in Procs, NEW from, NEW to \in Calls, Goto(p, from, to)
    PROVE  /\ pc' \in [Procs -> Calls]
           /\ pc'[p] = to /\ pc[p] = from
           /\ \A q \in Procs \ {p} : pc'[q] = pc[q]
BY DEF TypeOK, Goto, Calls

LEMMA ForgetTyped ==
    ASSUME TypeOK, NEW p \in Procs, NEW from, NEW to \in Calls, Forget(p, from, to)
    PROVE  /\ pc' \in [Procs -> Calls]
           /\ pc'[p] = to /\ pc[p] = from
           /\ ws' \in [Procs -> Workspace \cup {None}] /\ ws'[p] = None
           /\ want' \in [Procs -> Branches \cup {None}] /\ want'[p] = None
           /\ created' = created \ {p} /\ created' \subseteq Creators
           /\ \A q \in Procs \ {p} : pc'[q] = pc[q] /\ ws'[q] = ws[q] /\ want'[q] = want[q]
BY GotoTyped DEF TypeOK, Forget

-----------------------------------------------------------------------------
LEMMA CreateTypes ==
    ASSUME TypeOK, Remembered, NEW p \in Creators, Create(p)
    PROVE  TypeOK'
<1> USE DEF Creating, Starting, Changing
<1>p. p \in Procs
    BY DEF Procs
<1>1. CASE Adopt(p)
    <2>1. row \in Workspace /\ [row EXCEPT !.preserved = FALSE] \in Workspace
        BY <1>1, RowTyped DEF Adopt, TypeOK
    <2>2. harm' \subseteq Kinds /\ left' \in 0..Harms
        BY <1>1, HarmTyped DEF Adopt, Kinds
    <2>3. PICK to \in Calls : Goto(p, "idle", to)
        BY <1>1 DEF Adopt, Begin, Calls
    <2>4. pc' \in [Procs -> Calls]
        BY <1>p, <2>3, GotoTyped
    <2>5. QED
        BY <1>1, <2>1, <2>2, <2>4 DEF Adopt, Begin, TypeOK, Kinds, Calls, disk
<1>2. CASE Revive(p)
    <2>1. row' \in Workspace \cup {None}
        BY <1>2, RowTyped DEF Revive, Update, TypeOK
    <2>2. harm' \subseteq Kinds /\ left' \in 0..Harms
        BY <1>2, UnharmedTyped DEF Revive
    <2>3. pc' \in [Procs -> Calls]
        BY <1>2, <1>p, GotoTyped DEF Revive, Calls
    <2>4. QED
        BY <1>2, <2>1, <2>2, <2>3 DEF Revive, TypeOK, Kinds, Calls, disk, memory
<1>3. CASE NoWorkspace(p)
    <2>1. harm' \subseteq Kinds /\ left' \in 0..Harms
        BY <1>3, UnharmedTyped DEF NoWorkspace
    <2>2. pc' \in [Procs -> Calls]
        BY <1>3, <1>p, GotoTyped DEF NoWorkspace, Begin, Calls
    <2>3. QED
        BY <1>3, <2>1, <2>2 DEF NoWorkspace, Begin, TypeOK, Kinds, Calls, disk
<1>4. CASE Collide(p)
    <2>1. harm' \subseteq Kinds /\ left' \in 0..Harms
        BY <1>4, UnharmedTyped DEF Collide
    <2>2. CASE Return(p, "collide") /\ UNCHANGED session
        <3>1. Forget(p, "collide", "idle")
            BY <2>2 DEF Return
        <3>2. QED
            BY <1>4, <1>p, <2>1, <2>2, <3>1, ForgetTyped
            DEF Collide, TypeOK, Kinds, Calls, disk
    <2>3. CASE session' = None /\ UNCHANGED memory
        <3>1. pc' \in [Procs -> Calls]
            BY <1>4, <1>p, GotoTyped DEF Collide, Return, Forget, Calls
        <3>2. QED
            BY <1>4, <2>1, <2>3, <3>1 DEF Collide, TypeOK, Kinds, Calls, disk, memory
    <2>4. QED
        BY <1>4, <2>2, <2>3 DEF Collide
<1>5. CASE StartClone(p)
    <2>1. harm' \subseteq Kinds /\ left' \in 0..Harms
        BY <1>5, HarmTyped, UnharmedTyped DEF StartClone, Kinds
    <2>2. pc' \in [Procs -> Calls]
        BY <1>5, <1>p, GotoTyped DEF StartClone, Calls
    <2>3. dir' \in Checkout \cup {None}
        <3>1. CASE dir # None
            BY <1>5, <3>1 DEF StartClone, TypeOK
        <3>2. CASE dir = None
            <4>1. PICK b \in (IF want[p] = None THEN Branches ELSE {want[p]}) :
                    dir' = [by |-> p, branch |-> b, cloned |-> FALSE, ready |-> None]
                BY <1>5, <3>2 DEF StartClone
            <4>2. b \in Branches
                BY <1>p DEF TypeOK
            <4>3. QED
                BY <4>1, <4>2 DEF Checkout
        <3>3. QED
            BY <3>1, <3>2
    <2>4. QED
        BY <1>5, <2>1, <2>2, <2>3 DEF StartClone, TypeOK, Kinds, Calls, memory
<1>6. CASE FinishClone(p)
    <2>1. harm' \subseteq Kinds /\ left' \in 0..Harms
        BY <1>6, UnharmedTyped DEF FinishClone
    <2>2. pc' \in [Procs -> Calls]
        BY <1>6, <1>p, GotoTyped DEF FinishClone, Calls
    <2>3. dir' \in Checkout \cup {None}
        BY <1>6, CheckoutTyped DEF FinishClone, Mine, TypeOK
    <2>4. QED
        BY <1>6, <2>1, <2>2, <2>3 DEF FinishClone, TypeOK, Kinds, Calls, memory
<1>7. CASE ReadPodfile(p)
    <2>1. harm' \subseteq Kinds /\ left' \in 0..Harms
        BY <1>7, UnharmedTyped DEF ReadPodfile
    <2>2. pc' \in [Procs -> Calls]
        BY <1>7, <1>p, GotoTyped DEF ReadPodfile, Calls
    <2>3. dir' \in Checkout \cup {None} /\ ws' \in [Procs -> Workspace \cup {None}]
        <3>1. CASE UNCHANGED <<dir, ws>>
            BY <3>1 DEF TypeOK
        <3>2. ASSUME NEW b \in (IF want[p] = None THEN Branches ELSE {want[p]}),
                     dir # None, dir' = [dir EXCEPT !.branch = b],
                     ws' = [ws EXCEPT ![p] =
                         [by |-> p, branch |-> b, initialized |-> FALSE,
                          preserved |-> FALSE, head |-> None]]
              PROVE  dir' \in Checkout \cup {None} /\ ws' \in [Procs -> Workspace \cup {None}]
            <4>1. b \in Branches
                BY <1>p DEF TypeOK
            <4>2. dir' \in Checkout
                BY <3>2, <4>1, CheckoutTyped DEF TypeOK
            <4>3. [by |-> p, branch |-> b, initialized |-> FALSE,
                   preserved |-> FALSE, head |-> None] \in Workspace
                BY <4>1 DEF Workspace
            <4>4. QED
                BY <3>2, <4>2, <4>3 DEF TypeOK
        <3>3. QED
            BY <1>7, <3>1, <3>2 DEF ReadPodfile
    <2>4. QED
        BY <1>7, <2>1, <2>2, <2>3 DEF ReadPodfile, TypeOK, Kinds, Calls
<1>8. CASE Record(p)
    <2>1. harm' \subseteq Kinds /\ left' \in 0..Harms
        BY <1>8, UnharmedTyped DEF Record
    <2>2. pc' \in [Procs -> Calls]
        BY <1>8, <1>p, GotoTyped DEF Record, Calls
    <2>3. row' \in Workspace \cup {None} /\ created' \subseteq Creators
        BY <1>8, <1>p DEF Record, TypeOK
    <2>4. QED
        BY <1>8, <2>1, <2>2, <2>3 DEF Record, TypeOK, Kinds, Calls, disk
<1>9. CASE Undo(p)
    <2>1. harm' \subseteq Kinds /\ left' \in 0..Harms
        BY <1>9, HarmTyped DEF Undo, Kinds
    <2>2. pc' \in [Procs -> Calls]
        BY <1>9, <1>p, GotoTyped DEF Undo, Calls
    <2>3. QED
        BY <1>9, <2>1, <2>2 DEF Undo, TypeOK, Kinds, Calls, disk, memory
<1>10. CASE Wipe(p)
    <2>1. harm' \subseteq Kinds /\ left' \in 0..Harms
        BY <1>10, HarmTyped DEF Wipe, Kinds
    <2>2. Forget(p, "wipe", "idle")
        BY <1>10 DEF Wipe, Return
    <2>3. QED
        BY <1>10, <1>p, <2>1, <2>2, ForgetTyped DEF Wipe, TypeOK, Kinds, Calls
<1>11. QED
    BY <1>1, <1>2, <1>3, <1>4, <1>5, <1>6, <1>7, <1>8, <1>9, <1>10 DEF Create

MemoryTyped ==
    /\ pc \in [Procs -> Calls]
    /\ ws \in [Procs -> Workspace \cup {None}]
    /\ want \in [Procs -> Branches \cup {None}]
    /\ created \subseteq Creators

LEMMA MoveTyped ==
    ASSUME TypeOK, NEW p \in Procs, NEW from, NEW to \in Calls,
           (Goto(p, from, to) /\ UNCHANGED memory) \/ Forget(p, from, to)
    PROVE  MemoryTyped'
<1>1. CASE Goto(p, from, to) /\ UNCHANGED memory
    BY <1>1, GotoTyped DEF MemoryTyped, TypeOK, memory
<1>2. CASE Forget(p, from, to)
    BY <1>2, ForgetTyped DEF MemoryTyped
<1>3. QED
    BY <1>1, <1>2

LEMMA ReadyTyped ==
    ASSUME TypeOK, NEW p \in Procs, NEW from, Ready(p, from)
    PROVE  MemoryTyped'
BY MoveTyped DEF Ready, Calls

LEMMA GiveUpTyped ==
    ASSUME TypeOK, NEW p \in Procs, NEW from, GiveUp(p, from)
    PROVE  MemoryTyped'
BY MoveTyped, ReadyTyped DEF GiveUp, Calls, Creating

LEMMA AllTyped ==
    ASSUME MemoryTyped', row' \in Workspace \cup {None}, dir' \in Checkout \cup {None},
           session' \in Session \cup {None}, tmp' \subseteq Runs,
           harm' \subseteq Kinds, left' \in 0..Harms
    PROVE  TypeOK'
BY DEF TypeOK, MemoryTyped, Calls, Kinds

LEMMA NewSessionTyped ==
    ASSUME TypeOK, NEW p \in Creators \cup Shells \cup Runs
    PROVE  [by |-> p, up |-> TRUE, shared |-> FALSE, mount |-> Mount(p)] \in Session
BY DEF Session, Mount

LEMMA UseTypes ==
    ASSUME TypeOK, Remembered, NEW p \in Creators \cup Shells \cup Runs, UseSession(p)
    PROVE  TypeOK'
<1>p. p \in Procs
    BY DEF Procs
<1>s. Starting \subseteq Calls /\ "undo" \in Calls
    BY DEF Calls, Creating
<1>t. /\ row \in Workspace \cup {None} /\ dir \in Checkout \cup {None}
      /\ session \in Session \cup {None} /\ tmp \subseteq Runs
    BY DEF TypeOK
<1>1. CASE RefusePreserved(p)
    <2>1. MemoryTyped'
        BY <1>1, <1>p, GiveUpTyped DEF RefusePreserved
    <2>2. harm' \subseteq Kinds /\ left' \in 0..Harms
        BY <1>1, UnharmedTyped DEF RefusePreserved
    <2>3. QED
        BY <1>1, <1>t, <2>1, <2>2, AllTyped DEF RefusePreserved, disk
<1>2. CASE Reattach(p)
    <2>1. MemoryTyped'
        BY <1>2, <1>p, ReadyTyped DEF Reattach
    <2>2. harm' \subseteq Kinds /\ left' \in 0..Harms
        BY <1>2, UnharmedTyped DEF Reattach
    <2>3. session' \in Session
        BY <1>2, <1>t, SessionTyped DEF Reattach, Running
    <2>4. QED
        BY <1>2, <1>t, <2>1, <2>2, <2>3, AllTyped DEF Reattach, disk
<1>3. CASE Provision(p)
    <2>1. MemoryTyped'
        BY <1>3, <1>p, <1>s, ReadyTyped, MoveTyped DEF Provision, Starting
    <2>2. harm' \subseteq Kinds /\ left' \in 0..Harms
        BY <1>3, UnharmedTyped DEF Provision
    <2>3. session' \in Session
        BY <1>3, NewSessionTyped DEF Provision
    <2>4. QED
        BY <1>3, <1>t, <2>1, <2>2, <2>3, AllTyped DEF Provision, disk
<1>4. CASE ProvisionFails(p)
    <2>1. MemoryTyped'
        BY <1>4, <1>p, GiveUpTyped DEF ProvisionFails
    <2>2. harm' \subseteq Kinds /\ left' \in 0..Harms
        BY <1>4, UnharmedTyped DEF ProvisionFails
    <2>3. QED
        BY <1>4, <1>t, <2>1, <2>2, AllTyped DEF ProvisionFails, disk
<1>5. CASE HookSucceeds(p)
    <2>1. MemoryTyped'
        BY <1>5, <1>p, <1>s, ReadyTyped, MoveTyped DEF HookSucceeds, Starting
    <2>2. harm' \subseteq Kinds /\ left' \in 0..Harms
        BY <1>5, UnharmedTyped DEF HookSucceeds
    <2>3. dir' \in Checkout \cup {None}
        BY <1>5, <1>t, CheckoutTyped DEF HookSucceeds
    <2>4. QED
        BY <1>5, <1>t, <2>1, <2>2, <2>3, AllTyped DEF HookSucceeds
<1>6. CASE HookFails(p)
    <2>1. MemoryTyped'
        BY <1>6, <1>p, <1>s, MoveTyped DEF HookFails, Starting
    <2>2. harm' \subseteq Kinds /\ left' \in 0..Harms
        BY <1>6, UnharmedTyped DEF HookFails
    <2>3. QED
        BY <1>6, <1>t, <2>1, <2>2, AllTyped DEF HookFails, disk
<1>7. CASE MarkInitialized(p)
    <2>1. MemoryTyped'
        BY <1>7, <1>p, <1>s, MoveTyped DEF MarkInitialized, Starting
    <2>2. harm' \subseteq Kinds /\ left' \in 0..Harms
        BY <1>7, UnharmedTyped DEF MarkInitialized
    <2>3. row' \in Workspace \cup {None}
        BY <1>7, <1>t, RowTyped DEF MarkInitialized, Update
    <2>4. QED
        BY <1>7, <1>t, <2>1, <2>2, <2>3, AllTyped DEF MarkInitialized, disk
<1>8. CASE CaptureHead(p)
    <2>1. MemoryTyped'
        BY <1>8, <1>p, ReadyTyped DEF CaptureHead
    <2>2. harm' \subseteq Kinds /\ left' \in 0..Harms
        BY <1>8, UnharmedTyped DEF CaptureHead
    <2>3. row' \in Workspace \cup {None}
        <3>1. CASE dir # None /\ Update([row EXCEPT !.head = dir.branch])
            <4>1. dir.branch \in Branches
                BY <1>t, <3>1, CheckoutTyped
            <4>2. row # None => [row EXCEPT !.head = dir.branch] \in Workspace
                BY <1>t, <4>1, RowTyped
            <4>3. QED
                BY <3>1, <4>2 DEF Update
        <3>2. QED
            BY <1>8, <1>t, <3>1 DEF CaptureHead
    <2>4. QED
        BY <1>8, <1>t, <2>1, <2>2, <2>3, AllTyped DEF CaptureHead, disk
<1>9. CASE Preserve(p)
    <2>1. MemoryTyped'
        BY <1>9, <1>p, <1>s, MoveTyped DEF Preserve, Starting
    <2>2. harm' \subseteq Kinds /\ left' \in 0..Harms
        BY <1>9, UnharmedTyped DEF Preserve
    <2>3. row' \in Workspace \cup {None}
        BY <1>9, <1>t, RowTyped DEF Preserve, Update
    <2>4. QED
        BY <1>9, <1>t, <2>1, <2>2, <2>3, AllTyped DEF Preserve, disk
<1>10. CASE Unwind(p)
    <2>1. MemoryTyped'
        BY <1>10, <1>p, ReadyTyped DEF Unwind
    <2>2. harm' \subseteq Kinds /\ left' \in 0..Harms
        BY <1>10, HarmTyped DEF Unwind, Interrupts, Kinds
    <2>3. QED
        BY <1>10, <1>t, <2>1, <2>2, AllTyped DEF Unwind
<1>11. CASE MarkFails(p)
    <2>1. MemoryTyped'
        BY <1>11, <1>p, GiveUpTyped DEF MarkFails
    <2>2. harm' \subseteq Kinds /\ left' \in 0..Harms
        BY <1>11, HarmedTyped DEF MarkFails, Kinds
    <2>3. QED
        BY <1>11, <1>t, <2>1, <2>2, AllTyped DEF MarkFails, disk
<1>12. QED
    BY <1>1, <1>2, <1>3, <1>4, <1>5, <1>6, <1>7, <1>8, <1>9, <1>10, <1>11 DEF UseSession

\* What begins and ends the commands, and switch-branch and rm.
LEMMA BeginTyped ==
    ASSUME TypeOK, NEW p \in Procs, NEW to \in Calls, Begin(p, to),
           ws' \in [Procs -> Workspace \cup {None}],
           want' \in [Procs -> Branches \cup {None}]
    PROVE  MemoryTyped'
BY GotoTyped DEF Begin, MemoryTyped, TypeOK

LEMMA LookUpTypes ==
    ASSUME TypeOK, NEW p \in Procs, NEW next \in Calls, LookUp(p, next),
           want' \in [Procs -> Branches \cup {None}]
    PROVE  TypeOK'
<1>1. MemoryTyped'
    BY BeginTyped DEF LookUp, TypeOK
<1>2. harm' \subseteq Kinds /\ left' \in 0..Harms
    BY HarmTyped DEF LookUp, Kinds
<1>3. QED
    BY <1>1, <1>2, AllTyped DEF LookUp, TypeOK, disk

LEMMA ChangeTypes ==
    ASSUME TypeOK, Remembered, NEW p \in Procs, Switch(p) \/ Remove(p)
    PROVE  TypeOK'
<1>t. /\ row \in Workspace \cup {None} /\ dir \in Checkout \cup {None}
      /\ session \in Session \cup {None} /\ tmp \subseteq Runs
    BY DEF TypeOK
<1>c. Changing \subseteq Calls /\ "idle" \in Calls
    BY DEF Calls
<1>w. pc[p] \in {"git", "branch"} => want[p] \in Branches
    BY DEF TypeOK, Remembered, RememberedOf
<1>1. CASE LookUp(p, "git") /\ \E b \in Branches : want' = [want EXCEPT ![p] = b]
    <2>1. want' \in [Procs -> Branches \cup {None}]
        BY <1>1 DEF TypeOK
    <2>2. QED
        BY <1>1, <1>c, <2>1, LookUpTypes DEF Changing
<1>2. CASE SwitchBranch(p)
    <2>1. MemoryTyped'
        BY <1>2, <1>c, MoveTyped DEF SwitchBranch, Return, Changing
    <2>2. harm' \subseteq Kinds /\ left' \in 0..Harms
        BY <1>2, HarmTyped, UnharmedTyped DEF SwitchBranch, Kinds
    <2>3. dir' \in Checkout \cup {None}
        <3>1. pc[p] = "git"
            BY <1>2 DEF SwitchBranch, Return, Forget, Goto
        <3>2. QED
            BY <1>2, <1>t, <1>w, <3>1, CheckoutTyped DEF SwitchBranch
    <2>4. QED
        BY <1>2, <1>t, <2>1, <2>2, <2>3, AllTyped DEF SwitchBranch
<1>3. CASE UpdateBranch(p)
    <2>1. MemoryTyped'
        BY <1>3, <1>c, MoveTyped DEF UpdateBranch, Changing
    <2>2. harm' \subseteq Kinds /\ left' \in 0..Harms
        BY <1>3, UnharmedTyped DEF UpdateBranch
    <2>3. row' \in Workspace \cup {None}
        BY <1>3, <1>t, <1>w, RowTyped DEF UpdateBranch, Update, Goto
    <2>4. QED
        BY <1>3, <1>t, <2>1, <2>2, <2>3, AllTyped DEF UpdateBranch, disk
<1>4. CASE ResetInitialized(p)
    <2>1. MemoryTyped'
        BY <1>4, <1>c, MoveTyped DEF ResetInitialized, Changing
    <2>2. harm' \subseteq Kinds /\ left' \in 0..Harms
        BY <1>4, UnharmedTyped DEF ResetInitialized
    <2>3. row' \in Workspace \cup {None}
        BY <1>4, <1>t, RowTyped DEF ResetInitialized, Update
    <2>4. QED
        BY <1>4, <1>t, <2>1, <2>2, <2>3, AllTyped DEF ResetInitialized, disk
<1>5. CASE ClearHead(p)
    <2>1. MemoryTyped'
        BY <1>5, <1>c, MoveTyped DEF ClearHead, Return
    <2>2. harm' \subseteq Kinds /\ left' \in 0..Harms
        BY <1>5, UnharmedTyped DEF ClearHead
    <2>3. row' \in Workspace \cup {None}
        BY <1>5, <1>t, RowTyped DEF ClearHead, Update
    <2>4. QED
        BY <1>5, <1>t, <2>1, <2>2, <2>3, AllTyped DEF ClearHead, disk
<1>6. CASE (LookUp(p, "rmdir") \/ LookUp(p, "destroy")) /\ UNCHANGED want
    BY <1>6, <1>c, LookUpTypes DEF Changing, TypeOK
<1>7. CASE Destroy(p)
    <2>1. MemoryTyped'
        BY <1>7, <1>c, MoveTyped DEF Destroy, Changing
    <2>2. harm' \subseteq Kinds /\ left' \in 0..Harms
        BY <1>7, HarmTyped DEF Destroy, Interrupts, Kinds
    <2>3. QED
        BY <1>7, <1>t, <2>1, <2>2, AllTyped DEF Destroy, disk
<1>8. CASE RemoveCheckout(p)
    <2>1. MemoryTyped'
        BY <1>8, <1>c, MoveTyped DEF RemoveCheckout, Changing
    <2>2. harm' \subseteq Kinds /\ left' \in 0..Harms
        BY <1>8, HarmTyped DEF RemoveCheckout, Kinds
    <2>3. QED
        BY <1>8, <1>t, <2>1, <2>2, AllTyped DEF RemoveCheckout
<1>9. CASE DeleteWorkspace(p)
    <2>1. MemoryTyped'
        BY <1>9, <1>c, MoveTyped DEF DeleteWorkspace, Return
    <2>2. harm' \subseteq Kinds /\ left' \in 0..Harms
        BY <1>9, UnharmedTyped DEF DeleteWorkspace
    <2>3. QED
        BY <1>9, <1>t, <2>1, <2>2, AllTyped DEF DeleteWorkspace, disk
<1>10. CASE RemovalFails(p)
    <2>1. MemoryTyped'
        BY <1>10, <1>c, MoveTyped DEF RemovalFails, Return
    <2>2. harm' \subseteq Kinds /\ left' \in 0..Harms
        BY <1>10, HarmedTyped DEF RemovalFails, Kinds
    <2>3. dir' \in Checkout
        <3>1. dir \in Checkout
            BY <1>10, <1>t DEF RemovalFails
        <3>2. \/ dir' = [dir EXCEPT !.cloned = FALSE]
              \/ dir' = [dir EXCEPT !.cloned = dir.cloned]
            BY <1>10 DEF RemovalFails
        <3>3. QED
            BY <3>1, <3>2, CheckoutTyped
    <2>4. QED
        BY <1>10, <1>t, <2>1, <2>2, <2>3, AllTyped DEF RemovalFails
<1>11. QED
    BY <1>1, <1>2, <1>3, <1>4, <1>5, <1>6, <1>7, <1>8, <1>9, <1>10 DEF Switch, Remove

LEMMA RestTypes ==
    ASSUME TypeOK, NEW p \in Procs,
           \/ p \in Shells /\ Inspect(p)
           \/ p \in Runs /\ (CheckName(p) \/ CloneTemporary(p))
           \/ Kill(p) \/ Leave(p)
    PROVE  TypeOK'
<1>t. /\ row \in Workspace \cup {None} /\ dir \in Checkout \cup {None}
      /\ session \in Session \cup {None} /\ tmp \subseteq Runs
    BY DEF TypeOK
<1>c. {"idle", "ensure", "clone"} \subseteq Calls
    BY DEF Calls, Starting, Creating
<1>1. CASE Inspect(p)
    <2>1. ws' \in [Procs -> Workspace \cup {None}] /\ want' \in [Procs -> Branches \cup {None}]
        BY <1>1 DEF Inspect, TypeOK
    <2>2. MemoryTyped'
        BY <1>1, <1>c, <2>1, BeginTyped DEF Inspect
    <2>3. harm' \subseteq Kinds /\ left' \in 0..Harms
        BY <1>1, HarmTyped DEF Inspect, Kinds
    <2>4. QED
        BY <1>1, <1>t, <2>2, <2>3, AllTyped DEF Inspect, disk
<1>2. CASE CheckName(p)
    <2>1. MemoryTyped'
        BY <1>2, <1>c, BeginTyped DEF CheckName, TypeOK
    <2>2. harm' \subseteq Kinds /\ left' \in 0..Harms
        BY <1>2, UnharmedTyped DEF CheckName
    <2>3. QED
        BY <1>2, <1>t, <2>1, <2>2, AllTyped DEF CheckName, disk
<1>3. CASE p \in Runs /\ CloneTemporary(p)
    <2>1. MemoryTyped'
        BY <1>3, <1>c, MoveTyped DEF CloneTemporary, Return
    <2>2. harm' \subseteq Kinds /\ left' \in 0..Harms
        BY <1>3, UnharmedTyped DEF CloneTemporary
    <2>3. tmp' \subseteq Runs
        BY <1>3, <1>t DEF CloneTemporary
    <2>4. QED
        BY <1>3, <1>t, <2>1, <2>2, <2>3, AllTyped DEF CloneTemporary
<1>4. CASE Kill(p)
    <2>1. MemoryTyped'
        BY <1>4, <1>c, MoveTyped DEF Kill, Return
    <2>2. harm' \subseteq Kinds /\ left' \in 0..Harms
        BY <1>4, HarmedTyped DEF Kill, Kinds
    <2>3. QED
        BY <1>4, <1>t, <2>1, <2>2, AllTyped DEF Kill, disk
<1>5. CASE Leave(p)
    <2>1. MemoryTyped'
        BY <1>5, <1>c, MoveTyped DEF Leave, Return
    <2>2. harm' \subseteq Kinds /\ left' \in 0..Harms
        BY <1>5, HarmTyped, UnharmedTyped DEF Leave, Interrupts, Kinds
    <2>3. QED
        BY <1>5, <1>t, <2>1, <2>2, AllTyped DEF Leave
<1>6. QED
    BY <1>1, <1>2, <1>3, <1>4, <1>5

LEMMA EndTypes ==
    ASSUME TypeOK, SessionEnds
    PROVE  TypeOK'
<1>1. /\ row \in Workspace \cup {None} /\ dir \in Checkout \cup {None}
      /\ session \in Session \cup {None} /\ tmp \subseteq Runs
    BY DEF TypeOK
<1>2. MemoryTyped'
    BY DEF SessionEnds, MemoryTyped, TypeOK, memory, Calls
<1>3. harm' \subseteq Kinds /\ left' \in 0..Harms
    BY HarmTyped DEF SessionEnds, Interrupts, Kinds
<1>4. session' \in Session \cup {None}
    BY <1>1, SessionTyped DEF SessionEnds
<1>5. QED
    BY <1>1, <1>2, <1>3, <1>4, AllTyped DEF SessionEnds, disk

-----------------------------------------------------------------------------
(* What a step of one process leaves alone, and what it remembers then.    *)

OnlyOf(p) ==
    \A q \in Procs \ {p} :
        /\ pc'[q] = pc[q] /\ ws'[q] = ws[q] /\ want'[q] = want[q]
        /\ q \in created' <=> q \in created

LEMMA MoveRemembered ==
    ASSUME TypeOK, Remembered, NEW p \in Procs, NEW from, NEW to \in Calls,
           Goto(p, from, to), UNCHANGED memory,
           to \notin {"idle", "attached"},
           to = "record" => ws[p] # None,
           to = "undo" => p \in created,
           to \in {"git", "branch"} => want[p] # None
    PROVE  OnlyOf(p) /\ RememberedOf(p)'
BY GotoTyped DEF OnlyOf, Remembered, RememberedOf, memory

LEMMA ForgetRemembered ==
    ASSUME TypeOK, NEW p \in Procs, NEW from, NEW to \in {"idle", "attached"},
           Forget(p, from, to)
    PROVE  OnlyOf(p) /\ RememberedOf(p)'
<1>1. to \in Calls
    BY DEF Calls
<1>2. QED
    BY <1>1, ForgetTyped DEF OnlyOf, RememberedOf

LEMMA ReadyRemembered ==
    ASSUME TypeOK, NEW p \in Procs, NEW from, Ready(p, from)
    PROVE  OnlyOf(p) /\ RememberedOf(p)'
BY ForgetRemembered DEF Ready

LEMMA GiveUpRemembered ==
    ASSUME TypeOK, Remembered, NEW p \in Procs, NEW from, GiveUp(p, from)
    PROVE  OnlyOf(p) /\ RememberedOf(p)'
<1>1. "undo" \in Calls
    BY DEF Calls, Creating
<1>2. QED
    BY <1>1, MoveRemembered, ReadyRemembered DEF GiveUp

\* A command that begins knows the row, if it has read it, and no more.
LEMMA BeginRemembered ==
    ASSUME TypeOK, Remembered, NEW p \in Procs,
           NEW to \in {"revive", "ensure", "collide", "clone", "git", "rmdir", "destroy"},
           Begin(p, to), \A q \in Procs \ {p} : ws'[q] = ws[q] /\ want'[q] = want[q],
           to = "git" => want'[p] # None
    PROVE  OnlyOf(p) /\ RememberedOf(p)'
<1>1. to \in Calls
    BY DEF Calls, Creating, Starting, Changing
<1>2. pc'[p] = to /\ pc[p] = "idle" /\ \A q \in Procs \ {p} : pc'[q] = pc[q]
    BY <1>1, GotoTyped DEF Begin
<1>3. QED
    BY <1>2 DEF OnlyOf, Begin, Remembered, RememberedOf

LEMMA CreateRemembered ==
    ASSUME TypeOK, Remembered, NEW p \in Creators, Create(p)
    PROVE  OnlyOf(p) /\ RememberedOf(p)'
<1>p. p \in Procs
    BY DEF Procs
<1>c. Creating \cup Starting \cup {"idle"} \subseteq Calls
    BY DEF Calls
<1>t. ws \in [Procs -> Workspace \cup {None}] /\ want \in [Procs -> Branches \cup {None}]
    BY DEF TypeOK
<1>1. CASE Adopt(p)
    <2>1. \A q \in Procs \ {p} : ws'[q] = ws[q] /\ want'[q] = want[q]
        BY <1>1, <1>t DEF Adopt
    <2>2. QED
        BY <1>1, <1>p, <2>1, BeginRemembered DEF Adopt
<1>2. CASE Revive(p)
    BY <1>2, <1>p, <1>c, MoveRemembered DEF Revive, Starting
<1>3. CASE NoWorkspace(p)
    <2>1. \A q \in Procs \ {p} : ws'[q] = ws[q] /\ want'[q] = want[q]
        BY <1>3, <1>t DEF NoWorkspace
    <2>2. QED
        BY <1>3, <1>p, <2>1, BeginRemembered DEF NoWorkspace
<1>4. CASE Collide(p)
    BY <1>4, <1>p, <1>c, MoveRemembered, ForgetRemembered
    DEF Collide, Return, Creating, Starting
<1>5. CASE StartClone(p)
    BY <1>5, <1>p, <1>c, MoveRemembered DEF StartClone, Creating
<1>6. CASE FinishClone(p)
    BY <1>6, <1>p, <1>c, MoveRemembered DEF FinishClone, Creating
<1>7. CASE ReadPodfile(p)
    <2>1. CASE Goto(p, "podfile", "wipe") /\ UNCHANGED ws
        BY <1>7, <2>1, <1>p, <1>c, MoveRemembered DEF ReadPodfile, Creating, memory
    <2>2. ASSUME NEW b \in (IF want[p] = None THEN Branches ELSE {want[p]}),
                 Goto(p, "podfile", "record"),
                 ws' = [ws EXCEPT ![p] =
                     [by |-> p, branch |-> b, initialized |-> FALSE,
                      preserved |-> FALSE, head |-> None]]
          PROVE  OnlyOf(p) /\ RememberedOf(p)'
        <3>1. b \in Branches
            BY <1>p, <1>t
        <3>2. [by |-> p, branch |-> b, initialized |-> FALSE,
               preserved |-> FALSE, head |-> None] \in Workspace
            BY <3>1 DEF Workspace
        <3>3. ws'[p] # None /\ \A q \in Procs \ {p} : ws'[q] = ws[q]
            BY <1>p, <1>t, <2>2, <3>2, NoneAssumption
        <3>4. pc'[p] = "record" /\ \A q \in Procs \ {p} : pc'[q] = pc[q]
            BY <1>p, <1>c, <2>2, GotoTyped DEF Creating
        <3>5. UNCHANGED <<want, created>>
            BY <1>7 DEF ReadPodfile
        <3>6. QED
            BY <3>3, <3>4, <3>5 DEF OnlyOf, RememberedOf
    <2>3. QED
        BY <1>7, <2>1, <2>2 DEF ReadPodfile
<1>8. CASE Record(p)
    <2>1. pc[p] = "record" /\ pc'[p] \in {"ensure", "wipe"}
          /\ \A q \in Procs \ {p} : pc'[q] = pc[q]
        BY <1>8, <1>p, <1>c, GotoTyped DEF Record, Creating, Starting
    <2>2. ws[p] # None /\ UNCHANGED <<ws, want>> /\ created' \in {created, created \cup {p}}
        BY <1>8, <1>p, <2>1 DEF Record, Remembered, RememberedOf
    <2>3. QED
        BY <2>1, <2>2 DEF OnlyOf, RememberedOf
<1>9. CASE Undo(p)
    BY <1>9, <1>p, <1>c, MoveRemembered DEF Undo, Creating
<1>10. CASE Wipe(p)
    BY <1>10, <1>p, ForgetRemembered DEF Wipe, Return
<1>11. QED
    BY <1>1, <1>2, <1>3, <1>4, <1>5, <1>6, <1>7, <1>8, <1>9, <1>10 DEF Create

LEMMA UseRemembered ==
    ASSUME TypeOK, Remembered, NEW p \in Procs, UseSession(p)
    PROVE  OnlyOf(p) /\ RememberedOf(p)'
<1>c. Starting \subseteq Calls
    BY DEF Calls
<1>1. CASE RefusePreserved(p) \/ ProvisionFails(p) \/ MarkFails(p)
    BY <1>1, GiveUpRemembered DEF RefusePreserved, ProvisionFails, MarkFails
<1>2. CASE Reattach(p) \/ CaptureHead(p) \/ Unwind(p)
    BY <1>2, ReadyRemembered DEF Reattach, CaptureHead, Unwind
<1>3. CASE Provision(p)
    BY <1>3, <1>c, ReadyRemembered, MoveRemembered DEF Provision, Starting
<1>4. CASE HookSucceeds(p)
    BY <1>4, <1>c, ReadyRemembered, MoveRemembered DEF HookSucceeds, Starting
<1>5. CASE HookFails(p) \/ MarkInitialized(p) \/ Preserve(p)
    BY <1>5, <1>c, MoveRemembered DEF HookFails, MarkInitialized, Preserve, Starting
<1>6. QED
    BY <1>1, <1>2, <1>3, <1>4, <1>5 DEF UseSession

LEMMA ChangeRemembered ==
    ASSUME TypeOK, Remembered, NEW p \in Procs, Switch(p) \/ Remove(p)
    PROVE  OnlyOf(p) /\ RememberedOf(p)'
<1>c. Changing \subseteq Calls
    BY DEF Calls
<1>t. want \in [Procs -> Branches \cup {None}]
    BY DEF TypeOK
<1>1. CASE LookUp(p, "git") /\ \E b \in Branches : want' = [want EXCEPT ![p] = b]
    <2>1. want'[p] # None /\ \A q \in Procs \ {p} : want'[q] = want[q]
        BY <1>1, <1>t, NoneAssumption
    <2>2. QED
        BY <1>1, <2>1, BeginRemembered DEF LookUp
<1>2. CASE (LookUp(p, "rmdir") \/ LookUp(p, "destroy")) /\ UNCHANGED want
    BY <1>2, BeginRemembered DEF LookUp
<1>3. CASE SwitchBranch(p)
    <2>1. CASE Return(p, "git")
        BY <2>1, ForgetRemembered DEF Return
    <2>2. CASE Goto(p, "git", "branch") /\ UNCHANGED memory
        <3>1. want[p] # None
            BY <2>2 DEF Goto, Remembered, RememberedOf
        <3>2. QED
            BY <1>c, <2>2, <3>1, MoveRemembered DEF Changing
    <2>3. QED
        BY <1>3, <2>1, <2>2 DEF SwitchBranch
<1>4. CASE UpdateBranch(p) \/ ResetInitialized(p) \/ Destroy(p) \/ RemoveCheckout(p)
    BY <1>4, <1>c, MoveRemembered
    DEF UpdateBranch, ResetInitialized, Destroy, RemoveCheckout, Changing
<1>5. CASE ClearHead(p) \/ DeleteWorkspace(p) \/ RemovalFails(p)
    BY <1>5, ForgetRemembered DEF ClearHead, DeleteWorkspace, RemovalFails, Return
<1>6. QED
    BY <1>1, <1>2, <1>3, <1>4, <1>5 DEF Switch, Remove

LEMMA RestRemembered ==
    ASSUME TypeOK, Remembered, NEW p \in Procs,
           Inspect(p) \/ CheckName(p) \/ CloneTemporary(p) \/ Kill(p) \/ Leave(p)
    PROVE  OnlyOf(p) /\ RememberedOf(p)'
<1>c. Starting \subseteq Calls
    BY DEF Calls
<1>1. CASE Inspect(p)
    <2>1. \A q \in Procs \ {p} : ws'[q] = ws[q] /\ want'[q] = want[q]
        BY <1>1 DEF Inspect, TypeOK
    <2>2. QED
        BY <1>1, <2>1, BeginRemembered DEF Inspect
<1>2. CASE CheckName(p)
    BY <1>2, BeginRemembered DEF CheckName
<1>3. CASE CloneTemporary(p)
    BY <1>3, <1>c, MoveRemembered, ForgetRemembered DEF CloneTemporary, Return, Starting
<1>4. CASE Kill(p) \/ Leave(p)
    BY <1>4, ForgetRemembered DEF Kill, Leave, Return
<1>5. QED
    BY <1>1, <1>2, <1>3, <1>4

-----------------------------------------------------------------------------
(* Kills and collisions that have not happened.                            *)

Collisions == {"clobber", "underfoot"}
Spare == Spared(Collisions)

\* If no collision was recorded, the step was none.
LEMMA Unharmed ==
    ASSUME NEW c, NEW kind \in Collisions, HarmIf(c, kind), Spare'
    PROVE  ~c
BY DEF HarmIf, Harm, Spare, Spared, Collisions

\* What was recorded is on record for good.
LEMMA StaysSpared ==
    ASSUME NEW c, NEW kind, HarmIf(c, kind) \/ Harm(kind) \/ UNCHANGED harmVars
    PROVE  harm \subseteq harm'
BY DEF HarmIf, Harm, harmVars

\* Rows and checkouts keep their other fields.
LEMMA RowKept ==
    ASSUME NEW r \in Workspace
    PROVE  /\ r # None
           /\ \A b : [r EXCEPT !.preserved = b].branch = r.branch
           /\ \A b : [r EXCEPT !.initialized = b].branch = r.branch
           /\ \A x : [r EXCEPT !.head = x].branch = r.branch
           /\ \A x : [r EXCEPT !.branch = x].branch = x
BY NoneAssumption DEF Workspace

LEMMA CheckoutNotNone == ASSUME NEW d \in Checkout PROVE d # None
BY NoneAssumption

LEMMA CheckoutKept ==
    ASSUME NEW d \in Checkout
    PROVE  /\ d # None
           /\ \A x : /\ [d EXCEPT !.ready = x].by = d.by
                     /\ [d EXCEPT !.ready = x].cloned = d.cloned
                     /\ [d EXCEPT !.ready = x].branch = d.branch
           /\ \A x : /\ [d EXCEPT !.branch = x].by = d.by
                     /\ [d EXCEPT !.branch = x].cloned = d.cloned
                     /\ [d EXCEPT !.branch = x].branch = x
           /\ \A x : /\ [d EXCEPT !.branch = x, !.ready = None].by = d.by
                     /\ [d EXCEPT !.branch = x, !.ready = None].cloned = d.cloned
                     /\ [d EXCEPT !.branch = x, !.ready = None].branch = x
           /\ [d EXCEPT !.cloned = FALSE].by = d.by
           /\ [d EXCEPT !.cloned = d.cloned].by = d.by
           /\ [d EXCEPT !.cloned = TRUE].by = d.by
           /\ [d EXCEPT !.cloned = TRUE].cloned
           /\ [d EXCEPT !.cloned = TRUE].branch = d.branch
BY NoneAssumption DEF Checkout

-----------------------------------------------------------------------------
(* Most steps change neither which row and which checkout there are, nor   *)
(* what anybody knows of them.                                             *)

SameRow ==
    /\ row' = None <=> row = None
    /\ row # None => row'.branch = row.branch

SameCheckout ==
    /\ dir' = None <=> dir = None
    /\ dir # None =>
          /\ dir'.by = dir.by
          /\ dir'.cloned <=> dir.cloned
          /\ dir'.branch = dir.branch

\* The row keeps its checkout, and the checkout its row, if they had them.
Steady ==
    /\ Consistent => Consistent'
    /\ Consistent /\ Owned => Owned'

Exact == {"cloning", "podfile", "record", "wipe", "branch", "rmrow"}

CalmOf(q) ==
    /\ pc[q] \in Exact \/ pc'[q] \in Exact =>
          pc'[q] = pc[q] /\ ws'[q] = ws[q] /\ want'[q] = want[q]
    /\ pc'[q] \in Changing => pc[q] \in Changing
    /\ pc'[q] \in {"collide", "clone", "wipe"} =>
          pc[q] \in {"collide", "clone", "wipe"} \/ row = None
    /\ ws'[q] # None =>
          ws[q] # None \/ (row # None /\ \A r \in Procs : pc[r] \notin Changing)

LEMMA CalmKeepsKnowledge ==
    ASSUME Knowledge, SameRow, SameCheckout, \A q \in Procs : CalmOf(q)
    PROVE  Knowledge' /\ Steady
<1> USE DEF Knowledge, SameRow, SameCheckout, CalmOf
<1>1. Cloning'
    BY DEF Cloning, Exact
<1>2. Alone'
    BY DEF Alone, Exact
<1>3. Foreign'
    BY DEF Foreign
<1>4. Unfinished'
    BY DEF Unfinished, Exact
<1>5. Rowed'
    BY DEF Rowed, Exact
<1>6. Between => Between'
    BY DEF Between, Exact
<1>7. (Backed => Backed') /\ (Owned => Owned')
    BY DEF Backed, Owned, Exact
<1>8. QED
    BY <1>1, <1>2, <1>3, <1>4, <1>5, <1>6, <1>7 DEF Steady, Consistent

\* It is enough that the process that takes the step is calm.
LEMMA CalmSteps ==
    ASSUME Knowledge, SameRow, SameCheckout, NEW p \in Procs, OnlyOf(p), CalmOf(p)
    PROVE  Knowledge' /\ Steady
<1>1. \A q \in Procs : CalmOf(q)
    BY DEF OnlyOf, CalmOf
<1>2. QED
    BY <1>1, CalmKeepsKnowledge

LEMMA SameRowIfUnchanged ==
    ASSUME UNCHANGED row
    PROVE  SameRow
BY DEF SameRow

LEMMA SameCheckoutIfUnchanged ==
    ASSUME UNCHANGED dir
    PROVE  SameCheckout
BY DEF SameCheckout

\* A process moves between calls that need no exact knowledge.
Loose == Calls \ (Exact \cup Changing \cup {"collide", "clone"})

LEMMA LooseSteps ==
    ASSUME TypeOK, Knowledge, SameRow, SameCheckout, NEW p \in Procs, OnlyOf(p),
           pc[p] \notin Exact, pc'[p] \in Loose, ws'[p] \in {ws[p], None}
    PROVE  Knowledge' /\ Steady
<1>1. CalmOf(p)
    BY DEF CalmOf, Loose, Exact
<1>2. QED
    BY <1>1, CalmSteps

-----------------------------------------------------------------------------
(* The files of a session.                                                 *)

\* The session that runs, if any, is the one that ran before.
SameMount ==
    Running' => Running /\ session'.mount = session.mount

\* Files are taken away from no session that runs, and nobody sets out to.
Harmless ==
    Running' =>
        /\ dir # None /\ dir.cloned => dir' # None /\ dir'.cloned
        /\ row # None => row' # None
        /\ \A q \in Procs :
              pc'[q] \in {"rmdir", "rmrow"} => pc[q] \in {"rmdir", "rmrow"}

LEMMA SameMountIfUnchanged ==
    ASSUME session' \in {session, None}
    PROVE  SameMount
BY DEF SameMount, Running

LEMMA HarmlessSteps ==
    ASSUME TypeOK, Mounted, SameMount, Harmless
    PROVE  Mounted'
BY DEF Mounted, SameMount, Harmless, Procs

\* The usual case: the step of one process that touches neither row nor checkout.
LEMMA MountedStays ==
    ASSUME TypeOK, Mounted, SameMount, SameRow, SameCheckout,
           NEW p \in Procs, OnlyOf(p),
           Running' => (pc'[p] \in {"rmdir", "rmrow"} => pc[p] \in {"rmdir", "rmrow"})
    PROVE  Mounted'
<1>1. Harmless
    BY DEF Harmless, OnlyOf, SameRow, SameCheckout
<1>2. QED
    BY <1>1, HarmlessSteps

LEMMA UseKeepsKnowledge ==
    ASSUME TypeOK, Knowledge, Mounted, NEW p \in Creators \cup Shells \cup Runs,
           UseSession(p), OnlyOf(p)
    PROVE  Knowledge' /\ Mounted' /\ Steady
<1>p. p \in Procs
    BY DEF Procs
<1>t. row \in Workspace \cup {None} /\ dir \in Checkout \cup {None}
    BY DEF TypeOK
<1>1. SameRow
    <2>1. CASE UNCHANGED row
        BY <2>1, SameRowIfUnchanged
    <2>2. CASE MarkInitialized(p)
        BY <2>2, <1>t, RowKept, RowTyped DEF MarkInitialized, Update, SameRow
    <2>3. CASE CaptureHead(p)
        <3>1. CASE dir # None /\ Update([row EXCEPT !.head = dir.branch])
            <4>1. CASE row = None
                BY <3>1, <4>1 DEF Update, SameRow
            <4>2. CASE row # None
                <5>1. row' = [row EXCEPT !.head = dir.branch]
                    BY <3>1, <4>2 DEF Update
                <5>2. row' \in Workspace
                    BY <3>1, <4>2, <5>1, <1>t, RowTyped, CheckoutTyped
                <5>3. QED
                    BY <4>2, <5>1, <5>2, <1>t, RowKept DEF SameRow
            <4>3. QED
                BY <4>1, <4>2
        <3>2. QED
            BY <2>1, <2>3, <3>1 DEF CaptureHead
    <2>4. CASE Preserve(p)
        BY <2>4, <1>t, RowKept, RowTyped DEF Preserve, Update, SameRow
    <2>5. QED
        BY <2>1, <2>2, <2>3, <2>4 DEF UseSession, RefusePreserved, Reattach, Provision,
           ProvisionFails, HookSucceeds, HookFails, MarkFails, Unwind
<1>2. SameCheckout
    <2>1. CASE UNCHANGED dir
        BY <2>1, SameCheckoutIfUnchanged
    <2>2. CASE dir # None /\ dir' = [dir EXCEPT !.ready = dir.branch]
        <3>1. dir' \in Checkout
            BY <2>2, <1>t, CheckoutTyped
        <3>2. QED
            BY <2>2, <3>1, <1>t, CheckoutKept DEF SameCheckout
    <2>3. QED
        BY <2>1, <2>2 DEF UseSession, RefusePreserved, Reattach, Provision, ProvisionFails,
           HookSucceeds, HookFails, MarkInitialized, MarkFails, CaptureHead, Preserve, Unwind,
           disk
<1>3. pc[p] \in {"ensure", "hook", "mark", "capture", "preserve", "unwind"}
    BY DEF UseSession, RefusePreserved, Reattach, Provision, ProvisionFails, HookSucceeds,
       HookFails, MarkInitialized, MarkFails, CaptureHead, Preserve, Unwind, GiveUp, Ready, Forget, Goto
<1>4. /\ pc'[p] \in {"idle", "attached", "undo", "hook", "mark", "capture", "preserve", "unwind"}
      /\ ws'[p] \in {ws[p], None}
    BY <1>p DEF UseSession, RefusePreserved, Reattach, Provision, ProvisionFails, HookSucceeds,
       HookFails, MarkInitialized, MarkFails, CaptureHead, Preserve, Unwind, GiveUp, Ready, Forget, Goto,
       TypeOK, memory
<1>5. pc[p] \notin Exact /\ pc'[p] \in Loose
    BY <1>3, <1>4 DEF Exact, Loose, Calls, Creating, Starting, Changing
<1>6. Knowledge' /\ Steady
    BY <1>p, <1>1, <1>2, <1>4, <1>5, LooseSteps
<1>7. Mounted'
    <2>1. CASE Provision(p)
        <3>1. pc[p] = "ensure" /\ Available(Mount(p)) /\ UNCHANGED <<row, dir, tmp>>
            BY <2>1 DEF Provision, Ready, Forget, Goto, disk
        <3>2. session' = [by |-> p, up |-> TRUE, shared |-> FALSE, mount |-> Mount(p)]
            BY <2>1 DEF Provision
        <3>3. session'.mount = Mount(p)
            BY <3>2
        <3>4. CASE p \in Runs
            <4>1. Mount(p) = p
                BY <3>4 DEF Mount
            <4>2. p # "checkout"
                BY <3>4, WorkspacesAssumption
            <4>3. QED
                BY <3>3, <4>1, <4>2 DEF Mounted
        <3>5. CASE p \notin Runs /\ ws[p] # None
            <4>1. Mount(p) = "checkout" /\ dir # None /\ dir.cloned
                <5>1. Mount(p) = "checkout"
                    BY <3>5 DEF Mount
                <5>2. "checkout" \notin Runs
                    BY WorkspacesAssumption
                <5>3. Available("checkout") <=> dir # None /\ dir.cloned
                    BY <5>2 DEF Available
                <5>4. QED
                    BY <3>1, <5>1, <5>3
            <4>2. row # None
                BY <1>p, <3>1, <3>5 DEF Knowledge, Rowed
            <4>3. \A q \in Procs \ {p} : pc[q] \notin Changing
                BY <1>p, <3>5 DEF Knowledge, Alone
            <4>4. \A q \in Procs : pc'[q] \notin {"rmdir", "rmrow"}
                BY <1>4, <4>3 DEF OnlyOf, Changing
            <4>5. QED
                BY <3>1, <3>3, <4>1, <4>2, <4>4, WorkspacesAssumption DEF Mounted
        <3>6. CASE p \notin Runs /\ ws[p] = None
            BY <3>3, <3>6, NoneAssumption DEF Mounted, Mount, Procs
        <3>7. QED
            BY <3>4, <3>5, <3>6
    <2>2. CASE ~Provision(p)
        <3>1. SameMount
            <4>1. CASE session' \in {session, None}
                BY <4>1, SameMountIfUnchanged
            <4>2. CASE Reattach(p)
                <5>1. session \in Session
                    BY <4>2 DEF Reattach, Running, TypeOK
                <5>2. QED
                    BY <4>2, <5>1 DEF Reattach, SameMount, Running, Session
            <4>3. QED
                BY <2>2, <4>1, <4>2 DEF UseSession, RefusePreserved, ProvisionFails, HookSucceeds,
                   HookFails, MarkInitialized, MarkFails, CaptureHead, Preserve, Unwind
        <3>2. QED
            BY <1>p, <1>1, <1>2, <1>4, <3>1, MountedStays
    <2>3. QED
        BY <2>1, <2>2
<1>8. QED
    BY <1>6, <1>7

LEMMA RestKeepsKnowledge ==
    ASSUME TypeOK, Knowledge, Mounted, NEW p \in Procs, OnlyOf(p), Spare',
           Inspect(p) \/ (p \in Runs /\ (CheckName(p) \/ CloneTemporary(p))) \/ Leave(p)
    PROVE  Knowledge' /\ Mounted' /\ Steady
<1>t. pc \in [Procs -> Calls] /\ ws \in [Procs -> Workspace \cup {None}]
    BY DEF TypeOK, Calls
<1>1. SameRow /\ SameCheckout
    BY SameRowIfUnchanged, SameCheckoutIfUnchanged
    DEF Inspect, CheckName, CloneTemporary, Leave, disk
<1>2. CASE Inspect(p)
    <2>1. ~Meddling
        BY <1>2, Unharmed DEF Inspect, Collisions
    <2>2. pc[p] = "idle" /\ pc'[p] = "ensure"
        BY <1>2, <1>t DEF Inspect, Begin, Goto
    <2>3. CalmOf(p)
        <3>1. ws'[p] = row
            BY <1>2, <1>t DEF Inspect
        <3>2. QED
            BY <2>1, <2>2, <3>1 DEF CalmOf, Exact, Changing, Meddling
    <2>4. Mounted'
        BY <1>1, <1>2, <2>2, MountedStays, SameMountIfUnchanged DEF Inspect, disk
    <2>5. QED
        BY <1>1, <2>3, <2>4, CalmSteps
<1>3. CASE CheckName(p)
    <2>1. pc[p] = "idle" /\ pc'[p] = "clone" /\ row = None /\ ws' = ws
        BY <1>3, <1>t DEF CheckName, Begin, Goto
    <2>2. CalmOf(p)
        BY <2>1 DEF CalmOf, Exact, Changing
    <2>3. Mounted'
        BY <1>3 DEF CheckName, Mounted, Running
    <2>4. QED
        BY <1>1, <2>2, <2>3, CalmSteps
<1>4. CASE (p \in Runs /\ CloneTemporary(p)) \/ Leave(p)
    <2>1. /\ pc[p] \in {"clone", "attached"} /\ pc'[p] \in {"ensure", "idle"}
          /\ ws'[p] \in {ws[p], None}
        BY <1>4, <1>t DEF CloneTemporary, Leave, Return, Forget, Goto, memory
    <2>2. pc[p] \notin Exact /\ pc'[p] \in Loose
        BY <2>1 DEF Exact, Loose, Calls, Creating, Starting, Changing
    <2>3. Mounted'
        <3>1. session' \in {session, None}
            BY <1>4 DEF CloneTemporary, Leave
        <3>2. QED
            BY <1>1, <2>1, <3>1, MountedStays, SameMountIfUnchanged
    <2>4. QED
        BY <1>1, <2>1, <2>2, <2>3, LooseSteps
<1>5. QED
    BY <1>2, <1>3, <1>4

\* A command that is killed forgets what it knew; what it was about to do stays undone.
LEMMA KillKeepsKnowledge ==
    ASSUME TypeOK, Knowledge, Mounted, NEW p \in Procs, Kill(p), OnlyOf(p)
    PROVE  /\ Knowledge' /\ Mounted'
           /\ pc[p] \notin Tearing /\ Consistent => Consistent'
<1>1. pc'[p] = "idle" /\ ws'[p] = None /\ UNCHANGED <<row, dir, session>>
    BY DEF Kill, Return, Forget, Goto, TypeOK, disk
<1>2. Knowledge'
    BY <1>1 DEF Knowledge, OnlyOf, Cloning, Alone, Foreign, Unfinished, Rowed, Changing
<1>3. Mounted'
    BY <1>1, MountedStays, SameMountIfUnchanged, SameRowIfUnchanged, SameCheckoutIfUnchanged
<1>4. pc[p] \notin Tearing /\ Consistent => Consistent'
    BY <1>1 DEF Consistent, Between, Backed, OnlyOf, Tearing
<1>5. QED
    BY <1>2, <1>3, <1>4

\* rm that fails to remove the checkout leaves it to nobody who uses it.
LEMMA RemovalKeepsKnowledge ==
    ASSUME TypeOK, Knowledge, Mounted, NEW p \in Procs, RemovalFails(p), OnlyOf(p)
    PROVE  Knowledge' /\ Mounted'
<1>1. /\ pc[p] = "rmdir" /\ pc'[p] = "idle" /\ ws'[p] = None /\ dir # None
      /\ UNCHANGED <<row, session>>
    BY DEF RemovalFails, Return, Forget, Goto, TypeOK
<1>2. row # None /\ \A q \in Procs \ {p} : pc[q] \notin {"cloning", "podfile", "record"}
    BY <1>1 DEF Knowledge, Alone, Cloning, Changing
<1>3. dir' # None /\ dir'.by = dir.by
    <2>1. dir \in Checkout
        BY <1>1 DEF TypeOK
    <2>2. \/ dir' = [dir EXCEPT !.cloned = FALSE]
          \/ dir' = [dir EXCEPT !.cloned = dir.cloned]
        BY DEF RemovalFails
    <2>3. dir' \in Checkout /\ dir'.by = dir.by
        BY <2>1, <2>2, CheckoutTyped, CheckoutKept
    <2>4. QED
        BY <2>3, CheckoutNotNone
<1>4. Knowledge'
    BY <1>1, <1>2, <1>3
    DEF Knowledge, OnlyOf, Cloning, Alone, Foreign, Unfinished, Rowed, Changing
<1>5. Mounted'
    BY <1>1 DEF Mounted, Running
<1>6. QED
    BY <1>4, <1>5

\* create, up to the session: what it adds, it adds to a name that nobody has.
LEMMA CreateKeepsKnowledge ==
    ASSUME TypeOK, TypeOK', Remembered, Knowledge, Mounted, NEW p \in Creators, Create(p),
           OnlyOf(p), Spare'
    PROVE  Knowledge' /\ Mounted' /\ Steady
<1>p. p \in Procs
    BY DEF Procs
<1>t. /\ row \in Workspace \cup {None} /\ dir \in Checkout \cup {None}
      /\ pc \in [Procs -> Calls] /\ ws \in [Procs -> Workspace \cup {None}]
    BY DEF TypeOK, Calls
<1>m. ASSUME row = None, UNCHANGED <<session, tmp>> PROVE Mounted'
    BY <1>m DEF Mounted, Running
<1>1. CASE Adopt(p)
    <2>1. ~Meddling
        BY <1>1, Unharmed DEF Adopt, Collisions
    <2>2. pc[p] = "idle" /\ pc'[p] \in {"revive", "ensure"} /\ row # None
        BY <1>1, <1>p, <1>t DEF Adopt, Begin, Goto
    <2>3. CalmOf(p)
        BY <2>1, <2>2 DEF CalmOf, Exact, Changing, Meddling
    <2>4. UNCHANGED <<row, dir, tmp, session>>
        BY <1>1 DEF Adopt, disk
    <2>5. SameRow /\ SameCheckout /\ SameMount
        BY <2>4, SameRowIfUnchanged, SameCheckoutIfUnchanged, SameMountIfUnchanged
    <2>6. Mounted'
        BY <1>p, <2>2, <2>4, <2>5, MountedStays
    <2>7. QED
        BY <1>p, <2>3, <2>5, <2>6, CalmSteps
<1>2. CASE Revive(p)
    <2>1. SameRow
        BY <1>2, <1>t, RowKept, RowTyped DEF Revive, Update, SameRow
    <2>2. pc[p] = "revive" /\ pc'[p] = "ensure" /\ ws' = ws /\ UNCHANGED <<dir, tmp, session>>
        BY <1>2, <1>p, <1>t DEF Revive, Goto, memory, disk
    <2>3. pc[p] \notin Exact /\ pc'[p] \in Loose
        BY <2>2 DEF Exact, Loose, Calls, Creating, Starting, Changing
    <2>4. SameCheckout /\ SameMount
        BY <2>2, SameCheckoutIfUnchanged, SameMountIfUnchanged
    <2>5. Mounted'
        BY <1>p, <2>1, <2>2, <2>4, MountedStays
    <2>6. QED
        BY <1>p, <2>1, <2>2, <2>3, <2>4, <2>5, LooseSteps
<1>3. CASE NoWorkspace(p)
    <2>1. /\ pc[p] = "idle" /\ pc'[p] = "collide" /\ row = None /\ ws' = ws
          /\ UNCHANGED <<row, dir, tmp, session>>
        BY <1>3, <1>p, <1>t DEF NoWorkspace, Begin, Goto, disk
    <2>2. CalmOf(p)
        BY <2>1 DEF CalmOf, Exact, Changing
    <2>3. SameRow /\ SameCheckout
        BY <2>1, SameRowIfUnchanged, SameCheckoutIfUnchanged
    <2>4. QED
        BY <1>m, <1>p, <2>1, <2>2, <2>3, CalmSteps
<1>4. CASE Collide(p)
    <2>1. /\ pc[p] = "collide" /\ pc'[p] \in {"idle", "clone", "ensure"}
          /\ ws'[p] \in {ws[p], None} /\ UNCHANGED <<row, dir, tmp>>
        BY <1>4, <1>p, <1>t DEF Collide, Return, Forget, Goto, memory, disk
    <2>2. CalmOf(p)
        BY <2>1 DEF CalmOf, Exact, Changing
    <2>3. SameRow /\ SameCheckout
        BY <2>1, SameRowIfUnchanged, SameCheckoutIfUnchanged
    <2>4. Mounted'
        <3>1. CASE session' = None
            BY <3>1 DEF Mounted, Running
        <3>2. CASE session' # None
            <4>1. session' = session /\ pc'[p] = "idle"
                BY <1>4, <1>p, <1>t, <3>2 DEF Collide, Return, Forget, Goto
            <4>2. QED
                BY <1>p, <2>1, <2>3, <4>1, MountedStays, SameMountIfUnchanged
        <3>3. QED
            BY <3>1, <3>2
    <2>5. QED
        BY <1>p, <2>2, <2>3, <2>4, CalmSteps
<1>5. CASE StartClone(p)
    <2>1. pc[p] = "clone" /\ UNCHANGED <<row, tmp, session, ws, want>>
        BY <1>5 DEF StartClone, Goto, memory
    <2>2. CASE dir # None
        <3>1. pc'[p] = "wipe" /\ UNCHANGED dir
            BY <1>5, <2>2, <1>p, <1>t DEF StartClone, Goto
        <3>2. Knowledge'
            BY <1>p, <2>1, <3>1
            DEF Knowledge, OnlyOf, Cloning, Alone, Foreign, Unfinished, Rowed, Changing
        <3>3. Steady
            BY <1>p, <2>1, <3>1 DEF OnlyOf, Steady, Consistent, Between, Backed, Owned
        <3>4. Mounted'
            BY <1>p, <2>1, <3>1, MountedStays, SameMountIfUnchanged, SameRowIfUnchanged,
               SameCheckoutIfUnchanged
        <3>5. QED
            BY <3>2, <3>3, <3>4
    <2>3. CASE dir = None
        <3>1. ~(row # None \/ Meddling)
            BY <1>5, <2>3, Unharmed DEF StartClone, Collisions
        <3>2. pc'[p] = "cloning"
            BY <1>5, <2>3, <1>p, <1>t DEF StartClone, Goto
        <3>3. dir' # None /\ dir'.by = p /\ ~dir'.cloned
            <4>1. PICK b \in (IF want[p] = None THEN Branches ELSE {want[p]}) :
                    dir' = [by |-> p, branch |-> b, cloned |-> FALSE, ready |-> None]
                BY <1>5, <2>3 DEF StartClone
            <4>2. b \in Branches
                BY <1>p DEF TypeOK
            <4>3. dir' \in Checkout
                BY <4>1, <4>2 DEF Checkout
            <4>4. QED
                BY <4>1, <4>3, CheckoutNotNone
        <3>4. Knowledge'
            BY <1>p, <2>1, <2>3, <3>1, <3>2, <3>3
            DEF Knowledge, OnlyOf, Cloning, Alone, Foreign, Unfinished, Rowed, Changing, Meddling
        <3>5. Steady
            BY <1>p, <2>1, <2>3, <3>1, <3>2, <3>3
            DEF OnlyOf, Steady, Consistent, Between, Backed, Owned, Meddling, Changing
        <3>6. QED
            BY <1>m, <2>1, <3>1, <3>2, <3>4, <3>5
    <2>4. QED
        BY <2>2, <2>3
<1>6. CASE FinishClone(p)
    <2>1. pc[p] = "cloning" /\ UNCHANGED <<row, tmp, session, ws, want>>
        BY <1>6 DEF FinishClone, Goto, memory
    <2>2. row = None /\ dir # None /\ dir.by = p
        BY <1>p, <2>1 DEF Knowledge, Cloning
    <2>3. CASE pc'[p] = "podfile" /\ dir' = [dir EXCEPT !.cloned = TRUE]
        <3>1. dir' # None /\ dir'.by = p /\ dir'.cloned /\ dir'.branch = dir.branch
            BY <1>t, <2>2, <2>3, CheckoutTyped, CheckoutKept
        <3>2. Knowledge'
            BY <1>p, <2>1, <2>2, <2>3, <3>1
            DEF Knowledge, OnlyOf, Cloning, Alone, Foreign, Unfinished, Rowed, Changing
        <3>3. Steady
            BY <1>p, <2>1, <2>2, <2>3, <3>1 DEF OnlyOf, Steady, Consistent, Between, Backed, Owned
        <3>4. QED
            BY <1>m, <2>1, <2>2, <2>3, <3>2, <3>3
    <2>4. CASE pc'[p] = "wipe" /\ dir' = None
        <3>1. Knowledge'
            BY <1>p, <2>1, <2>2, <2>4
            DEF Knowledge, OnlyOf, Cloning, Alone, Foreign, Unfinished, Rowed, Changing
        <3>2. Steady
            BY <1>p, <2>1, <2>2, <2>4
            DEF Knowledge, Alone, Changing, OnlyOf, Steady, Consistent, Between, Backed, Owned
        <3>3. QED
            BY <1>m, <2>1, <2>2, <2>4, <3>1, <3>2
    <2>5. QED
        BY <1>6, <1>p, <1>t, <2>2, <2>3, <2>4 DEF FinishClone, Mine, Goto
<1>7. CASE ReadPodfile(p)
    <2>1. pc[p] = "podfile" /\ UNCHANGED <<row, tmp, session, want>>
        BY <1>7 DEF ReadPodfile, Goto
    <2>2. row = None /\ dir # None /\ dir.by = p /\ dir.cloned
        BY <1>p, <2>1 DEF Knowledge, Cloning
    <2>3. CASE pc'[p] = "wipe" /\ UNCHANGED <<dir, ws>>
        <3>1. Knowledge'
            BY <1>p, <2>1, <2>2, <2>3
            DEF Knowledge, OnlyOf, Cloning, Alone, Foreign, Unfinished, Rowed, Changing
        <3>2. Steady
            BY <1>p, <2>1, <2>2, <2>3 DEF OnlyOf, Steady, Consistent, Between, Backed, Owned
        <3>3. QED
            BY <1>m, <2>1, <2>2, <2>3, <3>1, <3>2
    <2>4. ASSUME NEW b \in (IF want[p] = None THEN Branches ELSE {want[p]}),
                 pc'[p] = "record", dir' = [dir EXCEPT !.branch = b],
                 ws' = [ws EXCEPT ![p] =
                     [by |-> p, branch |-> b, initialized |-> FALSE,
                      preserved |-> FALSE, head |-> None]]
          PROVE  Knowledge' /\ Mounted' /\ Steady
        <3>1. dir'.by = p /\ dir'.cloned /\ dir'.branch = b
            BY <1>t, <2>2, <2>4, CheckoutKept
        <3>2. dir' # None
            <4>1. b \in Branches
                BY <1>p DEF TypeOK
            <4>2. dir' \in Checkout
                BY <1>t, <2>2, <2>4, <4>1, CheckoutTyped
            <4>3. QED
                BY <4>2, CheckoutNotNone
        <3>3. ws'[p].branch = b /\ \A q \in Procs \ {p} : ws'[q] = ws[q]
            BY <1>p, <1>t, <2>4
        <3>4. Cloning' /\ Alone' /\ Foreign'
            BY <1>p, <2>1, <2>2, <2>4, <3>1, <3>2, <3>3
            DEF Knowledge, OnlyOf, Cloning, Alone, Foreign, Changing
        <3>5. Unfinished' /\ Rowed'
            BY <1>p, <2>1, <2>2, <2>4, <3>1, <3>2, <3>3
            DEF Knowledge, OnlyOf, Unfinished, Rowed
        <3>6. Steady
            BY <1>p, <2>1, <2>2, <2>4, <3>1, <3>2, <3>3
            DEF Knowledge, Alone, Changing, OnlyOf, Steady, Consistent, Between, Backed, Owned
        <3>7. QED
            BY <1>m, <2>1, <2>2, <2>4, <3>4, <3>5, <3>6 DEF Knowledge
    <2>5. QED
        BY <1>7, <1>p, <1>t, <2>3, <2>4 DEF ReadPodfile, Goto
<1>8. CASE Record(p)
    <2>1. pc[p] = "record" /\ UNCHANGED <<dir, tmp, session, ws, want>>
        BY <1>8 DEF Record, Goto, disk
    <2>2. row = None /\ dir # None /\ dir.by = p /\ dir.cloned /\ ws[p].branch = dir.branch
        BY <1>p, <2>1 DEF Knowledge, Cloning
    <2>3. pc'[p] = "ensure" /\ row' = ws[p]
        BY <1>8, <1>p, <1>t, <2>2 DEF Record, Goto
    <2>4. ws[p] # None
        BY <1>p, <2>1 DEF Remembered, RememberedOf
    <2>5. \A q \in Procs \ {p} : pc[q] \notin {"cloning", "podfile", "record"}
        BY <2>2 DEF Knowledge, Cloning
    <2>6. Cloning' /\ Foreign' /\ Unfinished'
        BY <1>p, <2>1, <2>2, <2>3, <2>5
        DEF Knowledge, OnlyOf, Cloning, Foreign, Unfinished
    <2>7. Alone' /\ Rowed'
        BY <1>p, <2>1, <2>4, <2>3 DEF Knowledge, OnlyOf, Alone, Rowed, Changing
    <2>8. Steady
        BY <1>p, <2>1, <2>2, <2>4, <2>3 DEF OnlyOf, Steady, Consistent, Between, Backed, Owned
    <2>9. QED
        BY <1>m, <2>1, <2>2, <2>3, <2>6, <2>7, <2>8 DEF Knowledge
<1>9. CASE Undo(p)
    <2>1. /\ pc[p] = "undo" /\ pc'[p] = "wipe" /\ row' = None
          /\ UNCHANGED <<dir, tmp, session, ws, want>>
        BY <1>9, <1>p, <1>t DEF Undo, Goto, disk, memory
    <2>2. ws[p] # None
        BY <1>p, <2>1 DEF Remembered, RememberedOf
    <2>3. row # None
        BY <1>p, <2>1, <2>2 DEF Knowledge, Rowed
    <2>4. ~InUse(p) /\ ~Running
        BY <1>9, <2>3, Unharmed DEF Undo, Collisions
    <2>5. ASSUME NEW q \in Procs \ {p}, ws[q] # None PROVE pc[q] \in {"idle", "attached"}
        BY <2>4, <2>5 DEF InUse, AtWork, Busy
    <2>6. \A q \in Procs \ {p} : ws[q] = None
        BY <2>5 DEF Remembered, RememberedOf
    <2>7. \A q \in Procs : pc[q] \notin Changing
        BY <1>p, <2>1, <2>2 DEF Knowledge, Alone, Changing
    <2>8. Knowledge'
        BY <1>p, <2>1, <2>3, <2>6, <2>7
        DEF Knowledge, OnlyOf, Cloning, Alone, Foreign, Unfinished, Rowed, Changing
    <2>9. Steady
        BY <1>p, <2>1, <2>7 DEF OnlyOf, Steady, Consistent, Between, Backed, Owned, Changing
    <2>10. Mounted'
        BY <2>1, <2>4 DEF Mounted, Running
    <2>11. QED
        BY <2>8, <2>9, <2>10
<1>10. CASE Wipe(p)
    <2>1. /\ pc[p] = "wipe" /\ pc'[p] = "idle" /\ dir' = None /\ ws'[p] = None
          /\ UNCHANGED <<row, tmp, session>>
        BY <1>10, <1>p, <1>t DEF Wipe, Return, Forget, Goto
    <2>2. dir = None \/ (dir.by = p /\ ~InUse(p))
        BY <1>10, Unharmed DEF Wipe, Collisions
    <2>3. dir = None \/ row = None
        BY <1>p, <2>1, <2>2 DEF Knowledge, Foreign
    <2>4. Knowledge'
        <3>1. \A q \in Procs : pc'[q] \notin {"cloning", "podfile", "record"}
            BY <2>1, <2>2 DEF Knowledge, Cloning, OnlyOf
        <3>2. Cloning' /\ Unfinished'
            BY <3>1 DEF Cloning, Unfinished
        <3>3. Alone' /\ Foreign' /\ Rowed'
            BY <1>p, <2>1 DEF Knowledge, OnlyOf, Alone, Foreign, Rowed, Changing
        <3>4. QED
            BY <3>2, <3>3 DEF Knowledge
    <2>5. Steady
        BY <1>p, <2>1, <2>3
        DEF Knowledge, Alone, Changing, OnlyOf, Steady, Consistent, Between, Backed, Owned
    <2>6. ~(Running /\ session.mount = "checkout")
        BY <2>3 DEF Mounted
    <2>7. Mounted'
        BY <2>1, <2>6 DEF Mounted, Running, OnlyOf, Procs
    <2>8. QED
        BY <2>4, <2>5, <2>7
<1>11. QED
    BY <1>1, <1>2, <1>3, <1>4, <1>5, <1>6, <1>7, <1>8, <1>9, <1>10 DEF Create

\* switch-branch and rm: nobody else knows of the workspace that they change.
LEMMA ChangeKeepsKnowledge ==
    ASSUME TypeOK, TypeOK', Remembered, Knowledge, Mounted, NEW p \in Procs,
           Switch(p) \/ Remove(p), ~RemovalFails(p), OnlyOf(p), Spare'
    PROVE  Knowledge' /\ Mounted' /\ Steady
<1>t. /\ row \in Workspace \cup {None} /\ dir \in Checkout \cup {None}
      /\ pc \in [Procs -> Calls] /\ ws \in [Procs -> Workspace \cup {None}]
    BY DEF TypeOK, Calls
<1>1. ASSUME NEW next \in {"git", "rmdir", "destroy"}, LookUp(p, next)
      PROVE  Knowledge' /\ Mounted' /\ Steady
    <2>1. ~InUse(p)
        BY <1>1, Unharmed DEF LookUp, Collisions
    <2>2. /\ pc[p] = "idle" /\ pc'[p] = next /\ row # None
          /\ UNCHANGED <<row, dir, tmp, ws>>
        BY <1>1, <1>t DEF LookUp, Begin, Goto, disk
    <2>3. ASSUME NEW q \in Procs \ {p}
          PROVE  ws[q] = None /\ pc[q] \notin Changing \cup {"cloning", "podfile"}
        <3>1. ~AtWork(q) /\ pc[q] \notin Changing
            BY <2>1 DEF InUse
        <3>2. CASE q \in Busy
            BY <3>1, <3>2 DEF AtWork
        <3>3. CASE q \notin Busy
            BY <3>1, <3>3 DEF Busy, Remembered, RememberedOf
        <3>4. QED
            BY <3>2, <3>3
    <2>4. Knowledge'
        BY <2>2, <2>3
        DEF Knowledge, OnlyOf, Cloning, Alone, Foreign, Unfinished, Rowed, Changing
    <2>5. Steady
        BY <2>2 DEF OnlyOf, Steady, Consistent, Between, Backed, Owned
    <2>6. Mounted'
        <3>1. CASE Running
            <4>1. session' = session /\ next = "destroy"
                BY <1>1, <3>1 DEF LookUp
            <4>2. QED
                BY <2>2, <4>1, MountedStays, SameMountIfUnchanged, SameRowIfUnchanged,
                   SameCheckoutIfUnchanged
        <3>2. CASE ~Running
            BY <1>1, <3>2 DEF LookUp, Mounted, Running
        <3>3. QED
            BY <3>1, <3>2
    <2>7. QED
        BY <2>4, <2>5, <2>6
<1>2. ASSUME pc[p] \in Changing
      PROVE  /\ row # None
             /\ \A q \in Procs \ {p} :
                  ws[q] = None /\ pc[q] \notin Changing \cup {"cloning", "podfile", "record"}
    BY <1>2 DEF Knowledge, Alone, Cloning
<1>3. CASE SwitchBranch(p)
    <2>0. pc[p] = "git" /\ UNCHANGED <<row, tmp, session>>
        BY <1>3 DEF SwitchBranch, Return, Forget, Goto
    <2>1. CASE dir # None /\ pc'[p] = "branch"
        <3>1. /\ dir' = [dir EXCEPT !.branch = want[p], !.ready = None]
              /\ UNCHANGED <<ws, want>>
            BY <1>3, <1>t, <2>1 DEF SwitchBranch, Return, Forget, Goto, memory
        <3>2. pc[p] \in Changing
            BY <2>0 DEF Changing
        <3>3. want[p] \in Branches
            BY <2>0 DEF TypeOK, Remembered, RememberedOf
        <3>4. dir' # None /\ dir'.by = dir.by /\ dir'.cloned = dir.cloned /\ dir'.branch = want[p]
            <4>1. dir' \in Checkout
                BY <1>t, <2>1, <3>1, <3>3, CheckoutTyped
            <4>2. QED
                BY <1>t, <2>1, <3>1, <4>1, CheckoutKept, CheckoutNotNone
        <3>5. Knowledge'
            BY <1>2, <2>0, <2>1, <3>1, <3>2, <3>4
            DEF Knowledge, OnlyOf, Cloning, Alone, Foreign, Unfinished, Rowed, Changing
        <3>6. Steady
            <4>1. Consistent => dir.cloned
                BY <1>2, <2>0, <2>1, <3>2 DEF Consistent, Backed, Changing
            <4>2. QED
                BY <1>2, <2>0, <2>1, <3>1, <3>2, <3>4, <4>1
                DEF OnlyOf, Steady, Consistent, Between, Backed, Owned, Changing
        <3>7. Mounted'
            <4>1. Harmless
                BY <2>0, <2>1, <3>4 DEF Harmless, OnlyOf
            <4>2. QED
                BY <2>0, <4>1, HarmlessSteps, SameMountIfUnchanged
        <3>8. QED
            BY <3>5, <3>6, <3>7
    <2>2. CASE Return(p, "git") /\ UNCHANGED dir
        <3>1. pc'[p] = "idle" /\ ws'[p] = None
            BY <1>t, <2>2 DEF Return, Forget, Goto
        <3>2. CalmOf(p)
            BY <2>0, <3>1 DEF CalmOf, Exact, Changing
        <3>3. SameRow /\ SameCheckout /\ SameMount
            BY <2>0, <2>2, SameRowIfUnchanged, SameCheckoutIfUnchanged, SameMountIfUnchanged
        <3>4. Mounted'
            BY <2>0, <3>1, <3>3, MountedStays
        <3>5. QED
            BY <3>2, <3>3, <3>4, CalmSteps
    <2>3. QED
        BY <1>3, <1>t, <2>1, <2>2 DEF SwitchBranch, Goto
<1>4. CASE UpdateBranch(p)
    <2>1. /\ pc[p] = "branch" /\ pc'[p] = "reset"
          /\ UNCHANGED <<dir, tmp, session, ws, want>>
        BY <1>4, <1>t DEF UpdateBranch, Goto, disk, memory
    <2>2. pc[p] \in Changing
        BY <2>1 DEF Changing
    <2>3. row' = [row EXCEPT !.branch = want[p]]
        BY <1>2, <1>4, <2>2 DEF UpdateBranch, Update
    <2>4. want[p] \in Branches
        BY <2>1 DEF TypeOK, Remembered, RememberedOf
    <2>5. row' # None /\ row'.branch = want[p]
        BY <1>2, <1>t, <2>2, <2>3, <2>4, RowTyped, RowKept
    <2>6. Knowledge'
        BY <1>2, <2>1, <2>2, <2>5
        DEF Knowledge, OnlyOf, Cloning, Alone, Foreign, Unfinished, Rowed, Changing
    <2>7. Steady
        BY <1>2, <2>1, <2>2, <2>5 DEF OnlyOf, Steady, Consistent, Between, Backed, Owned, Changing
    <2>8. Mounted'
        <3>1. Harmless
            BY <2>1, <2>5 DEF Harmless, OnlyOf
        <3>2. QED
            BY <2>1, <3>1, HarmlessSteps, SameMountIfUnchanged
    <2>9. QED
        BY <2>6, <2>7, <2>8
<1>5. CASE ResetInitialized(p) \/ ClearHead(p) \/ Destroy(p)
    <2>1. SameRow
        <3>1. CASE ResetInitialized(p)
            BY <3>1, <1>t, RowTyped, RowKept DEF ResetInitialized, Update, SameRow
        <3>2. CASE ClearHead(p)
            BY <3>2, <1>t, RowTyped, RowKept DEF ClearHead, Update, SameRow
        <3>3. CASE Destroy(p)
            BY <3>3, SameRowIfUnchanged DEF Destroy
        <3>4. QED
            BY <1>5, <3>1, <3>2, <3>3
    <2>2. UNCHANGED <<dir, tmp>> /\ SameCheckout
        BY <1>5, SameCheckoutIfUnchanged DEF ResetInitialized, ClearHead, Destroy, disk
    <2>3. /\ pc[p] \in {"reset", "clear", "destroy"} /\ pc'[p] \in {"clear", "idle", "rmdir"}
          /\ ws'[p] \in {ws[p], None}
        BY <1>5, <1>t DEF ResetInitialized, ClearHead, Destroy, Return, Forget, Goto, memory
    <2>4. CalmOf(p)
        BY <2>3 DEF CalmOf, Exact, Changing
    <2>5. Mounted'
        <3>1. CASE Destroy(p)
            BY <3>1 DEF Destroy, Mounted, Running
        <3>2. CASE ResetInitialized(p) \/ ClearHead(p)
            <4>1. session' = session /\ pc'[p] \in {"clear", "idle"}
                BY <1>t, <3>2 DEF ResetInitialized, ClearHead, Return, Forget, Goto
            <4>2. QED
                BY <2>1, <2>2, <4>1, MountedStays, SameMountIfUnchanged
        <3>3. QED
            BY <1>5, <3>1, <3>2
    <2>6. QED
        BY <2>1, <2>2, <2>4, <2>5, CalmSteps
<1>6. CASE RemoveCheckout(p)
    <2>1. /\ pc[p] = "rmdir" /\ pc'[p] = "rmrow" /\ dir' = None
          /\ UNCHANGED <<row, tmp, session, ws, want>>
        BY <1>6, <1>t DEF RemoveCheckout, Goto, memory
    <2>2. pc[p] \in Changing
        BY <2>1 DEF Changing
    <2>3. Knowledge'
        BY <1>2, <2>1, <2>2
        DEF Knowledge, OnlyOf, Cloning, Alone, Foreign, Unfinished, Rowed, Changing
    <2>4. Steady
        BY <1>2, <2>1, <2>2 DEF OnlyOf, Steady, Consistent, Between, Backed, Owned, Changing
    <2>5. Mounted'
        BY <2>1 DEF Mounted, Running, OnlyOf, Procs
    <2>6. QED
        BY <2>3, <2>4, <2>5
<1>7. CASE DeleteWorkspace(p)
    <2>1. /\ pc[p] = "rmrow" /\ pc'[p] = "idle" /\ row' = None /\ ws'[p] = None
          /\ UNCHANGED <<dir, tmp, session>>
        BY <1>7, <1>t DEF DeleteWorkspace, Return, Forget, Goto, disk
    <2>2. pc[p] \in Changing
        BY <2>1 DEF Changing
    <2>3. Knowledge'
        BY <1>2, <2>1, <2>2
        DEF Knowledge, OnlyOf, Cloning, Alone, Foreign, Unfinished, Rowed, Changing
    <2>4. Steady
        BY <1>2, <2>1, <2>2 DEF OnlyOf, Steady, Consistent, Between, Backed, Owned, Changing
    <2>5. Mounted'
        BY <2>1 DEF Mounted, Running, OnlyOf, Procs
    <2>6. QED
        BY <2>3, <2>4, <2>5
<1>8. QED
    BY <1>1, <1>3, <1>4, <1>5, <1>6, <1>7 DEF Switch, Remove

-----------------------------------------------------------------------------
(* The invariant, and what follows from it.                                *)

\* What harm there was is never forgotten.
LEMMA HarmGrows ==
    ASSUME [Next]_vars
    PROVE  harm \subseteq harm'
<1>1. ASSUME NEW p \in Procs, Create(p) \/ Inspect(p) \/ CheckName(p) \/ CloneTemporary(p)
      PROVE  harm \subseteq harm'
    BY <1>1, StaysSpared DEF Create, Adopt, Revive, NoWorkspace, Collide, StartClone,
       FinishClone, ReadPodfile, Record, Undo, Wipe, Inspect, CheckName, CloneTemporary
<1>2. ASSUME NEW p \in Procs, UseSession(p)
      PROVE  harm \subseteq harm'
    BY <1>2, StaysSpared DEF UseSession, RefusePreserved, Reattach, Provision, ProvisionFails,
       HookSucceeds, HookFails, MarkInitialized, MarkFails, CaptureHead, Preserve, Unwind,
       Interrupts
<1>3. ASSUME NEW p \in Procs, Switch(p) \/ Remove(p)
      PROVE  harm \subseteq harm'
    BY <1>3, StaysSpared DEF Switch, Remove, LookUp, SwitchBranch, UpdateBranch,
       ResetInitialized, ClearHead, Destroy, RemoveCheckout, RemovalFails, DeleteWorkspace,
       Interrupts
<1>4. ASSUME NEW p \in Procs, Kill(p) \/ Leave(p)
      PROVE  harm \subseteq harm'
    BY <1>4, StaysSpared DEF Kill, Leave, Interrupts
<1>5. CASE SessionEnds
    BY <1>5, StaysSpared DEF SessionEnds, Interrupts
<1>6. ASSUME NEW p \in Procs, Works(p)
      PROVE  harm \subseteq harm'
    BY <1>1, <1>2, <1>3, <1>6 DEF Works
<1>7. CASE UNCHANGED vars
    BY <1>7 DEF vars, disk, memory, harmVars
<1>8. QED
    <2>1. CASE \E p \in Procs : Works(p) \/ Kill(p)
        BY <1>4, <1>6, <2>1
    <2>2. CASE \E p \in Shells \cup Runs : Leave(p)
        BY <1>4, <2>2 DEF Procs
    <2>3. QED
        BY <1>5, <1>7, <2>1, <2>2 DEF Next, vars, disk, memory, harmVars

\* What a history is spared of, it has always been spared of.
LEMMA HarmStays ==
    ASSUME [Next]_vars, NEW kinds, Spared(kinds)'
    PROVE  Spared(kinds)
BY HarmGrows DEF Spared

\* What is spared of more is spared of less.
LEMMA Fewer ==
    /\ (Unkilled => Untorn) /\ (Untorn => Spare)
    /\ (Unkilled' => Untorn') /\ (Untorn' => Spare')
BY DEF Spared, Spare, Untorn, Unkilled, Collisions

\* A temporary clone goes with its session, or before a session has it.
LEMMA StepKeepsTemporary ==
    ASSUME TypeOK, Temporary, NEW p \in Procs, OnlyOf(p),
           Works(p) \/ Kill(p) \/ (p \in Shells \cup Runs /\ Leave(p))
    PROVE  Temporary'
<1>t. pc \in [Procs -> Calls] /\ Runs \subseteq Procs
    BY DEF TypeOK, Calls, Procs
<1>1. CASE session' = None
    BY <1>1 DEF Temporary, Running
<1>2. CASE p \in Runs /\ CloneTemporary(p)
    <2>1. pc[p] = "clone" /\ pc'[p] \in {"ensure", "idle"} /\ session' = session
        BY <1>2, <1>t DEF CloneTemporary, Return, Forget, Goto
    <2>2. ~(Running /\ session.mount = p)
        BY <1>2, <2>1 DEF Temporary
    <2>3. tmp \ {p} \subseteq tmp'
        BY <1>2 DEF CloneTemporary
    <2>4. QED
        BY <1>t, <2>1, <2>2, <2>3 DEF Temporary, Running, OnlyOf
<1>3. CASE p \in Runs /\ CheckName(p)
    BY <1>3 DEF CheckName, Temporary, Running
<1>4. CASE p \in Creators \cup Shells \cup Runs /\ Provision(p)
    <2>1. session' = [by |-> p, up |-> TRUE, shared |-> FALSE, mount |-> Mount(p)] /\ tmp' = tmp
        BY <1>4 DEF Provision, disk
    <2>2. session'.mount = Mount(p)
        BY <2>1
    <2>3. Mount(p) \in Runs => Mount(p) = p
        BY WorkspacesAssumption, NoneAssumption DEF Mount, Procs
    <2>4. Mount(p) \in Runs => p \in tmp
        <3>1. ASSUME Mount(p) \in Runs PROVE p \in tmp
            <4>1. p \in Runs /\ p # "checkout"
                BY <2>3, <3>1, WorkspacesAssumption
            <4>2. Available(p) <=> p \in tmp
                BY <4>1 DEF Available
            <4>3. QED
                BY <1>4, <2>3, <3>1, <4>2 DEF Provision
        <3>2. QED
            BY <3>1
    <2>5. pc'[p] \in {"hook", "idle", "attached"}
        BY <1>4, <1>t DEF Provision, Ready, Forget, Goto
    <2>6. QED
        BY <2>1, <2>2, <2>3, <2>4, <2>5 DEF Temporary
<1>5. CASE UseSession(p) /\ ~Provision(p)
    <2>1. pc'[p] # "clone"
        BY <1>5, <1>t DEF UseSession, RefusePreserved, Reattach, ProvisionFails, HookSucceeds,
           HookFails, MarkInitialized, MarkFails, CaptureHead, Preserve, Unwind, GiveUp, Ready,
           Forget, Goto
    <2>2. session' = None \/ tmp' = tmp
        BY <1>5 DEF UseSession, RefusePreserved, Reattach, ProvisionFails, HookSucceeds,
           HookFails, MarkInitialized, MarkFails, CaptureHead, Preserve, Unwind, disk
    <2>3. SameMount
        <3>1. CASE session' \in {session, None}
            BY <3>1, SameMountIfUnchanged
        <3>2. CASE Reattach(p)
            <4>1. session \in Session
                BY <3>2 DEF Reattach, Running, TypeOK
            <4>2. QED
                BY <3>2, <4>1 DEF Reattach, SameMount, Running, Session
        <3>3. QED
            BY <1>5, <3>1, <3>2 DEF UseSession, RefusePreserved, ProvisionFails, HookSucceeds,
               HookFails, MarkInitialized, MarkFails, CaptureHead, Preserve, Unwind
    <2>4. QED
        BY <1>1, <1>t, <2>1, <2>2, <2>3 DEF Temporary, SameMount, OnlyOf
<1>6. CASE \/ p \in Creators /\ Create(p)
           \/ p \in Shells /\ Inspect(p)
           \/ p \in Switchers /\ Switch(p)
           \/ p \in Removers /\ Remove(p)
           \/ Kill(p)
    <2>1. session' \in {session, None} /\ tmp' = tmp
        BY <1>6 DEF Create, Adopt, Revive, NoWorkspace, Collide, StartClone, FinishClone,
           ReadPodfile, Record, Undo, Wipe, Inspect, Switch, Remove, LookUp, SwitchBranch,
           UpdateBranch, ResetInitialized, ClearHead, Destroy, RemoveCheckout, RemovalFails,
           DeleteWorkspace, Kill, disk
    <2>2. p \in Runs => pc'[p] = "idle"
        BY <1>6, <1>t, WorkspacesAssumption DEF Kill, Return, Forget, Goto
    <2>3. QED
        BY <1>1, <1>t, <2>1, <2>2 DEF Temporary, Running, OnlyOf
<1>7. CASE p \in Shells \cup Runs /\ Leave(p)
    <2>1. pc'[p] = "idle"
        BY <1>7, <1>t DEF Leave, Return, Forget, Goto
    <2>2. session' = None \/ (session' = session /\ tmp' = tmp)
        BY <1>7 DEF Leave
    <2>3. QED
        BY <1>1, <1>t, <2>1, <2>2 DEF Temporary, Running, OnlyOf
<1>8. QED
    BY <1>2, <1>3, <1>4, <1>5, <1>6, <1>7 DEF Works

LEMMA StepKeepsInvariant ==
    ASSUME WorkspacesInvariant, NEW p \in Procs,
           Works(p) \/ Kill(p) \/ (p \in Shells \cup Runs /\ Leave(p)),
           Spare' => Spare, Untorn' => Untorn, Unkilled' => Unkilled
    PROVE  WorkspacesInvariant'
<1>0. TypeOK /\ Remembered /\ Temporary
    BY DEF WorkspacesInvariant
<1>1. TypeOK'
    BY <1>0, CreateTypes, UseTypes, ChangeTypes, RestTypes DEF Works
<1>2. OnlyOf(p) /\ RememberedOf(p)'
    BY <1>0, CreateRemembered, UseRemembered, ChangeRemembered, RestRemembered DEF Works
<1>3. Remembered'
    BY <1>0, <1>2 DEF OnlyOf, Remembered, RememberedOf
<1>4. Temporary'
    BY <1>0, <1>2, StepKeepsTemporary
<1>5. ASSUME Spare'
      PROVE  /\ Knowledge' /\ Mounted'
             /\ ~Kill(p) /\ ~RemovalFails(p) => Steady
             /\ Kill(p) /\ pc[p] \notin Tearing /\ Consistent => Consistent'
    <2>1. Knowledge /\ Mounted
        BY <1>5 DEF WorkspacesInvariant, Spare, Collisions
    <2>2. QED
        BY <1>0, <1>1, <1>2, <1>5, <2>1, CreateKeepsKnowledge, UseKeepsKnowledge,
           ChangeKeepsKnowledge, RestKeepsKnowledge, KillKeepsKnowledge, RemovalKeepsKnowledge
        DEF Works
<1>6. Untorn' => Consistent'
    <2> SUFFICES ASSUME Untorn' PROVE Consistent'
        OBVIOUS
    <2>1. ~RemovalFails(p) /\ (Kill(p) => pc[p] \notin Tearing)
        BY DEF RemovalFails, Kill, Harm, Untorn, Spared
    <2>2. Spare' /\ Consistent
        BY Fewer DEF WorkspacesInvariant
    <2>3. QED
        BY <1>5, <2>1, <2>2 DEF Steady
<1>7. Unkilled' => Owned'
    <2> SUFFICES ASSUME Unkilled' PROVE Owned'
        OBVIOUS
    <2>1. ~Kill(p) /\ ~RemovalFails(p)
        BY DEF RemovalFails, Kill, Harm, Unkilled, Spared
    <2>2. Spare' /\ Consistent /\ Owned
        BY Fewer DEF WorkspacesInvariant
    <2>3. QED
        BY <1>5, <2>1, <2>2 DEF Steady
<1>8. QED
    BY <1>1, <1>3, <1>4, <1>5, <1>6, <1>7 DEF WorkspacesInvariant, Spare, Collisions

\* A step of no process changes nothing that they know; the session goes on or ends.
LEMMA OthersKeepInvariant ==
    ASSUME WorkspacesInvariant, UNCHANGED <<row, dir, tmp, pc, memory>>, TypeOK',
           session' = session \/ ~Running',
           Spare' => Spare, Untorn' => Untorn, Unkilled' => Unkilled
    PROVE  WorkspacesInvariant'
<1>1. Remembered => Remembered'
    BY DEF Remembered, RememberedOf, memory
<1>2. Knowledge => Knowledge'
    BY DEF Knowledge, Cloning, Alone, Foreign, Unfinished, Rowed, memory
<1>3. (Consistent => Consistent') /\ (Owned => Owned')
    BY DEF Consistent, Between, Backed, Owned, memory
<1>4. (Mounted => Mounted') /\ (Temporary => Temporary')
    BY DEF Mounted, Temporary, Running
<1>5. QED
    BY <1>1, <1>2, <1>3, <1>4 DEF WorkspacesInvariant, Spare, Collisions

\* For any number of commands, the parts of the invariant hold together.
THEOREM InvariantHolds == Spec => []WorkspacesInvariant
<1>1. Init => WorkspacesInvariant
    <2> SUFFICES ASSUME Init PROVE WorkspacesInvariant
        OBVIOUS
    <2>1. TypeOK
        BY WorkspacesAssumption DEF Init, TypeOK
    <2>2. Remembered
        BY DEF Init, Remembered, RememberedOf
    <2>3. Knowledge /\ Mounted /\ Temporary
        BY DEF Init, Knowledge, Cloning, Alone, Foreign, Unfinished, Rowed, Changing, Mounted,
           Temporary, Running
    <2>4. Consistent /\ Owned
        BY DEF Init, Consistent, Between, Backed, Owned
    <2>5. QED
        BY <2>1, <2>2, <2>3, <2>4 DEF WorkspacesInvariant
<1>2. WorkspacesInvariant /\ [Next]_vars => WorkspacesInvariant'
    <2> SUFFICES ASSUME WorkspacesInvariant, [Next]_vars PROVE WorkspacesInvariant'
        OBVIOUS
    <2>1. (Spare' => Spare) /\ (Untorn' => Untorn) /\ (Unkilled' => Unkilled)
        BY HarmStays DEF Spare, Untorn, Unkilled
    <2>2. ASSUME NEW p \in Procs,
                 Works(p) \/ Kill(p) \/ (p \in Shells \cup Runs /\ Leave(p))
          PROVE  WorkspacesInvariant'
        BY <2>1, <2>2, StepKeepsInvariant
    <2>3. CASE SessionEnds
        <3>1. TypeOK'
            BY <2>3, EndTypes DEF WorkspacesInvariant
        <3>2. ~Running'
            <4>1. session \in Session
                BY <2>3 DEF SessionEnds, WorkspacesInvariant, TypeOK
            <4>2. [session EXCEPT !.up = FALSE].up = FALSE
                BY <4>1 DEF Session
            <4>3. QED
                BY <2>3, <4>2 DEF SessionEnds, Running
        <3>3. QED
            BY <2>1, <2>3, <3>1, <3>2, OthersKeepInvariant DEF SessionEnds, disk
    <2>4. CASE UNCHANGED vars
        <3>1. TypeOK'
            BY <2>4 DEF vars, disk, memory, harmVars, WorkspacesInvariant, TypeOK
        <3>2. QED
            BY <2>1, <2>4, <3>1, OthersKeepInvariant DEF vars, disk
    <2>5. QED
        BY <2>2, <2>3, <2>4 DEF Next, Procs
<1>3. QED
    BY <1>1, <1>2, PTL DEF Spec

\* Every variable keeps its type, whatever commands overlap, fail and are killed.
THEOREM TypeCorrect == Spec => []TypeOK
<1>1. WorkspacesInvariant => TypeOK
    BY DEF WorkspacesInvariant
<1>2. QED
    BY <1>1, InvariantHolds, PTL

\* For any number of commands of each kind, at any number of times, killed anywhere but
\* between the steps of switch-branch and rm on the row and the checkout, and as long as
\* none acts on what another is using: a workspace has its checkout, complete and on the
\* branch of its row, and without a kill no checkout is left without a row.
THEOREM CheckoutsOfRows == Spec => []CheckoutOfRow
<1>1. WorkspacesInvariant => CheckoutOfRow
    <2> SUFFICES ASSUME WorkspacesInvariant, Untorn PROVE CheckoutOfRow
        BY DEF CheckoutOfRow, Untorn
    <2>1. Consistent
        BY DEF WorkspacesInvariant
    <2>2. Spared({"kill"}) => Owned
        BY DEF WorkspacesInvariant, Unkilled, Untorn, Spared
    <2>3. QED
        BY <2>1, <2>2 DEF Consistent, Backed, Owned, CheckoutOfRow, Busy
<1>2. QED
    BY <1>1, InvariantHolds, PTL

\* For any number of commands, kills included: whichever of them comes, goes or rolls
\* back, the temporary clone of a session stays there while its container is up; and the
\* checkout does, as long as no command acts on what another is using.
THEOREM FilesOfSessions == Spec => []FilesOfSession
<1>1. WorkspacesInvariant => FilesOfSession
    <2> SUFFICES ASSUME WorkspacesInvariant, Running,
                        session.mount \in Runs \/ Spared({"clobber", "underfoot"})
                 PROVE  Available(session.mount)
        BY DEF FilesOfSession
    <2>1. "checkout" \notin Runs
        BY WorkspacesAssumption
    <2>2. CASE session.mount = "checkout"
        BY <2>1, <2>2 DEF WorkspacesInvariant, Mounted, Available
    <2>3. CASE session.mount \in Runs
        BY <2>1, <2>3 DEF WorkspacesInvariant, Temporary, Available
    <2>4. CASE session.mount # "checkout" /\ session.mount \notin Runs
        BY <2>4 DEF Available
    <2>5. QED
        BY <2>2, <2>3, <2>4
<1>2. QED
    BY <1>1, InvariantHolds, PTL

-----------------------------------------------------------------------------
(* on_create: what a command remembers, and what the row and the checkout  *)
(* say of it.                                                              *)

\* What a command has in memory on its way to a session and through on_create.
PreparedOf(p) ==
    /\ pc[p] \in {"collide", "clone"} => ws[p] = None
    /\ pc[p] = "record" => ~ws[p].initialized /\ ws[p].head = None
    /\ pc[p] \in {"hook", "mark", "capture", "preserve"} /\ p \notin Runs => ws[p] # None
    /\ pc[p] \in {"mark", "capture"} => p \notin Runs

Prepared == \A p \in Procs : PreparedOf(p)

\* A checkout that is new, or newly on a branch, is not ready.
Fresh == {"cloning", "podfile", "record", "branch", "reset"}

Unready == \A p \in Procs : pc[p] \in Fresh => dir # None /\ dir.ready = None

\* Whoever runs on_create does so in the session that it has provisioned.
Hooked ==
    \A p \in Procs :
        /\ pc[p] = "hook" =>
              Running /\ session.mount = IF p \in Runs THEN p ELSE "checkout"
        /\ pc[p] = "mark" => Running /\ dir # None /\ dir.ready = dir.branch

\* What the row says of the checkout, and, unless a command has been killed or has
\* failed before it said so, what it does not say yet.
Marked ==
    /\ row # None /\ row.initialized =>
          \/ \E p \in Procs : pc[p] \in {"branch", "reset", "rmrow"}
          \/ dir # None /\ dir.ready = row.branch
    /\ harm = {} /\ row # None /\ ~row.initialized /\ dir # None /\ dir.ready = dir.branch =>
          \E p \in Procs : pc[p] = "mark"

Captured ==
    row # None =>
        \/ \E p \in Procs : pc[p] \in {"reset", "clear"}
        \/ row.head \in {None, row.branch}

\* Who does not know yet that the checkout is ready finds a session that runs.
Unaware ==
    \A p \in Procs :
        /\ harm = {}
        /\ pc[p] \in {"revive", "ensure"}
        /\ ws[p] # None
        /\ ~ws[p].initialized
        /\ dir # None
        /\ dir.ready = dir.branch
        => Running

Readiness == Unready /\ Hooked /\ Marked /\ Captured /\ Unaware

\* Nobody was killed between the steps of switch-branch and rm, and nobody was acted upon.
Calm == Spared({"torn", "clobber", "underfoot", "stop"})

ReadyInvariant == Prepared /\ (Calm => Readiness)

-----------------------------------------------------------------------------
\* What changes of a row when one of its fields does.
LEMMA RowMarks ==
    ASSUME NEW r \in Workspace
    PROVE  /\ r.branch \in Branches /\ r.initialized \in BOOLEAN
           /\ \A b : /\ [r EXCEPT !.preserved = b].initialized = r.initialized
                     /\ [r EXCEPT !.preserved = b].head = r.head
           /\ \A b : /\ [r EXCEPT !.initialized = b].initialized = b
                     /\ [r EXCEPT !.initialized = b].head = r.head
           /\ \A x : /\ [r EXCEPT !.head = x].initialized = r.initialized
                     /\ [r EXCEPT !.head = x].head = x
           /\ \A x : /\ [r EXCEPT !.branch = x].initialized = r.initialized
                     /\ [r EXCEPT !.branch = x].head = r.head
BY DEF Workspace

\* When a checkout stays ready.
LEMMA CheckoutReady ==
    ASSUME NEW d \in Checkout
    PROVE  /\ \A x : [d EXCEPT !.ready = x].ready = x
           /\ \A x : [d EXCEPT !.branch = x].ready = d.ready
           /\ \A x : [d EXCEPT !.branch = x, !.ready = None].ready = None
           /\ [d EXCEPT !.cloned = TRUE].ready = d.ready
BY DEF Checkout

\* No branch is called None.
LEMMA BranchNotNone == \A b \in Branches : b # None
BY NoneAssumption

\* If no collision is on record, the step was none.
LEMMA Unmarred ==
    ASSUME NEW c, NEW kind \in {"torn", "clobber", "underfoot", "stop"}, HarmIf(c, kind), Calm'
    PROVE  ~c
BY DEF HarmIf, Harm, Calm, Spared

-----------------------------------------------------------------------------
\* Only ReadPodfile makes a row, and it makes one without marks.
LEMMA CreatePrepared ==
    ASSUME TypeOK, Remembered, Prepared, NEW p \in Creators, Create(p)
    PROVE  PreparedOf(p)'
<1>p. p \in Procs
    BY DEF Procs
<1>t. pc \in [Procs -> Calls] /\ ws \in [Procs -> Workspace \cup {None}]
    BY DEF TypeOK, Calls
<1>1. CASE ReadPodfile(p)
    <2>1. CASE Goto(p, "podfile", "wipe")
        BY <2>1, <1>p, <1>t DEF Goto, PreparedOf
    <2>2. ASSUME NEW b,
                 Goto(p, "podfile", "record"),
                 ws' = [ws EXCEPT ![p] =
                     [by |-> p, branch |-> b, initialized |-> FALSE,
                      preserved |-> FALSE, head |-> None]]
          PROVE  PreparedOf(p)'
        <3>1. ws'[p] = [by |-> p, branch |-> b, initialized |-> FALSE,
                        preserved |-> FALSE, head |-> None]
            BY <1>p, <1>t, <2>2
        <3>2. ~ws'[p].initialized /\ ws'[p].head = None
            BY <3>1
        <3>3. pc'[p] = "record"
            BY <1>p, <1>t, <2>2 DEF Goto
        <3>4. QED
            BY <3>2, <3>3 DEF PreparedOf
    <2>3. QED
        BY <1>1, <2>1, <2>2 DEF ReadPodfile
<1>2. CASE ~ReadPodfile(p)
    <2>1. pc'[p] \notin {"record", "hook", "mark", "capture", "preserve"}
        BY <1>2, <1>p, <1>t DEF Create, Adopt, Revive, NoWorkspace, Collide, StartClone,
           FinishClone, Record, Undo, Wipe, Begin, Return, Forget, Goto
    <2>2. pc'[p] \in {"collide", "clone"} => pc[p] \in {"idle", "collide"} /\ ws' = ws
        BY <1>2, <1>p, <1>t DEF Create, Adopt, Revive, NoWorkspace, Collide, StartClone,
           FinishClone, Record, Undo, Wipe, Begin, Return, Forget, Goto, memory
    <2>3. QED
        BY <1>p, <2>1, <2>2 DEF Remembered, RememberedOf, Prepared, PreparedOf
<1>3. QED
    BY <1>1, <1>2

\* Only who knows the workspace, or a run, is ever at on_create.
LEMMA UsePrepared ==
    ASSUME TypeOK, Prepared, NEW p \in Procs, UseSession(p)
    PROVE  PreparedOf(p)'
<1>t. pc \in [Procs -> Calls] /\ ws \in [Procs -> Workspace \cup {None}]
    BY DEF TypeOK, Calls
<1>1. CASE \/ RefusePreserved(p) \/ Reattach(p) \/ ProvisionFails(p) \/ MarkFails(p)
           \/ CaptureHead(p) \/ Unwind(p)
    <2>1. pc'[p] \in {"idle", "attached", "undo"}
        BY <1>1, <1>t DEF RefusePreserved, Reattach, ProvisionFails, MarkFails, CaptureHead,
           Unwind, GiveUp, Ready, Forget, Goto
    <2>2. QED
        BY <2>1 DEF PreparedOf
<1>2. CASE Provision(p)
    <2>1. CASE pc'[p] = "hook" /\ (p \in Runs \/ ws[p] # None) /\ UNCHANGED memory
        BY <2>1 DEF PreparedOf, memory
    <2>2. CASE pc'[p] \in {"idle", "attached"}
        BY <2>2 DEF PreparedOf
    <2>3. QED
        BY <1>2, <1>t, <2>1, <2>2 DEF Provision, Ready, Forget, Goto
<1>3. CASE HookSucceeds(p) \/ HookFails(p) \/ MarkInitialized(p) \/ Preserve(p)
    <2>1. CASE pc'[p] \in {"idle", "attached", "unwind"}
        BY <2>1 DEF PreparedOf
    <2>2. CASE pc'[p] \notin {"idle", "attached", "unwind"}
        <3>1. /\ pc[p] \in {"hook", "mark"} /\ pc'[p] \in {"mark", "capture", "preserve"}
              /\ p \notin Runs /\ ws' = ws
            BY <1>3, <1>t, <2>2 DEF HookSucceeds, HookFails, MarkInitialized, Preserve, Ready,
               Forget, Goto, memory, Prepared, PreparedOf
        <3>2. QED
            BY <3>1 DEF Prepared, PreparedOf
    <2>3. QED
        BY <2>1, <2>2
<1>4. QED
    BY <1>1, <1>2, <1>3 DEF UseSession

\* The other steps begin commands and end them.
LEMMA OthersPrepared ==
    ASSUME TypeOK, Remembered, NEW p \in Procs,
           Switch(p) \/ Remove(p) \/ Inspect(p) \/ CheckName(p) \/ CloneTemporary(p)
           \/ Kill(p) \/ Leave(p)
    PROVE  PreparedOf(p)'
<1>t. pc \in [Procs -> Calls]
    BY DEF TypeOK, Calls
<1>1. pc'[p] \notin {"record", "hook", "mark", "capture", "preserve"}
    BY <1>t DEF Switch, Remove, Inspect, CheckName, CloneTemporary, Kill, Leave, LookUp,
       SwitchBranch, UpdateBranch, ResetInitialized, ClearHead, Destroy, RemoveCheckout,
       RemovalFails, DeleteWorkspace, Begin, Return, Forget, Goto
<1>2. pc'[p] \in {"collide", "clone"} => pc[p] = "idle" /\ ws' = ws
    BY <1>t DEF Switch, Remove, Inspect, CheckName, CloneTemporary, Kill, Leave, LookUp,
       SwitchBranch, UpdateBranch, ResetInitialized, ClearHead, Destroy, RemoveCheckout,
       RemovalFails, DeleteWorkspace, Begin, Return, Forget, Goto
<1>3. QED
    BY <1>1, <1>2 DEF Remembered, RememberedOf, PreparedOf

-----------------------------------------------------------------------------
(* Most steps change nothing that Readiness speaks of.                     *)

SameMarks ==
    /\ row' = None <=> row = None
    /\ row # None =>
          /\ row'.branch = row.branch
          /\ row'.initialized = row.initialized
          /\ row'.head = row.head

SameReady ==
    /\ dir' = None <=> dir = None
    /\ dir # None => dir'.branch = dir.branch /\ dir'.ready = dir.ready

SameSession == Running => Running' /\ session'.mount = session.mount

\* The process that takes the step comes from no call that others rely on, and goes to
\* none at which it relies on something itself.
QuietOf(p) ==
    /\ pc[p] \notin {"mark", "branch", "reset", "rmrow", "clear"}
    /\ pc'[p] \notin Fresh \cup {"hook", "mark"}
    /\ pc'[p] \in {"revive", "ensure"} /\ ws'[p] # None =>
          pc[p] \in {"revive", "ensure"} /\ ws'[p] = ws[p]

\* Such a step keeps Readiness; a session may end in it that nobody is at work in.
LEMMA QuietSteps ==
    ASSUME Readiness, SameMarks, SameReady, NEW p \in Procs, OnlyOf(p), QuietOf(p),
           harm' = {} => harm = {},
           SameSession \/ \A q \in Procs \ {p} : ~AtWork(q),
           SameSession \/ ~(pc'[p] \in {"revive", "ensure"} /\ ws'[p] # None)
    PROVE  Readiness'
<1> USE DEF Readiness, SameMarks, SameReady, OnlyOf, QuietOf
<1>1. Unready'
    BY DEF Unready
<1>2. Hooked'
    <2>1. ASSUME NEW q \in Procs, pc'[q] \in {"hook", "mark"}
          PROVE  pc[q] = pc'[q] /\ SameSession
        BY <2>1 DEF AtWork, Busy, Starting
    <2>2. QED
        BY <2>1 DEF Hooked, SameSession
<1>3. Marked'
    BY DEF Marked
<1>4. Captured'
    BY DEF Captured
<1>5. Unaware'
    <2>1. ASSUME NEW q \in Procs, pc'[q] \in {"revive", "ensure"}, ws'[q] # None
          PROVE  pc[q] \in {"revive", "ensure"} /\ ws'[q] = ws[q] /\ SameSession
        BY <2>1 DEF AtWork, Busy
    <2>2. QED
        BY <2>1 DEF Unaware, SameSession
<1>6. QED
    BY <1>1, <1>2, <1>3, <1>4, <1>5

\* The three cases in which nothing changes.
LEMMA SameMarksIfUnchanged ==
    ASSUME UNCHANGED row
    PROVE  SameMarks
BY DEF SameMarks

LEMMA SameReadyIfUnchanged ==
    ASSUME UNCHANGED dir
    PROVE  SameReady
BY DEF SameReady

LEMMA SameSessionIfKept ==
    ASSUME session' = session \/ (session' = None /\ ~Running)
    PROVE  SameSession
BY DEF SameSession, Running

\* The preserved mark is none of them.
LEMMA SameMarksIfPreserved ==
    ASSUME TypeOK, NEW b \in BOOLEAN, Update([row EXCEPT !.preserved = b])
    PROVE  SameMarks
<1>1. CASE row = None
    BY <1>1 DEF Update, SameMarks
<1>2. CASE row # None
    <2>1. row \in Workspace /\ row' = [row EXCEPT !.preserved = b]
        BY <1>2 DEF Update, TypeOK
    <2>2. row' # None
        BY <2>1, RowTyped, RowKept
    <2>3. QED
        BY <1>2, <2>1, <2>2, RowKept, RowMarks DEF SameMarks
<1>3. QED
    BY <1>1, <1>2

\* A command that reads the row finds the checkout not ready, unless the session that
\* has made it ready runs still.
LEMMA ReadersAware ==
    ASSUME Readiness, NEW p \in Procs, OnlyOf(p), UNCHANGED <<row, dir, session>>,
           harm' = {} => harm = {},
           pc[p] = "idle", pc'[p] \in {"revive", "ensure"},
           ws'[p] # None => row # None /\ ws'[p].initialized = row.initialized
    PROVE  Readiness'
<1> USE DEF Readiness, OnlyOf
<1>1. Unready'
    BY DEF Unready, Fresh
<1>2. Hooked'
    BY DEF Hooked, Running
<1>3. Marked'
    BY DEF Marked
<1>4. Captured'
    BY DEF Captured
<1>5. Unaware'
    <2>1. ASSUME harm' = {}, ws'[p] # None, ~ws'[p].initialized, dir # None,
                 dir.ready = dir.branch
          PROVE  Running
        BY <2>1 DEF Marked, Hooked
    <2>2. QED
        BY <2>1 DEF Unaware, Running
<1>6. QED
    BY <1>1, <1>2, <1>3, <1>4, <1>5

\* create: a new checkout is not ready, and a roll-back takes nobody else's.
LEMMA CreateKeepsReadiness ==
    ASSUME TypeOK, Prepared, Knowledge, Readiness, NEW p \in Creators, Create(p), OnlyOf(p),
           Calm', harm' = {} => harm = {}
    PROVE  Readiness'
<1>p. p \in Procs
    BY DEF Procs
<1>t. /\ pc \in [Procs -> Calls] /\ ws \in [Procs -> Workspace \cup {None}]
      /\ want \in [Procs -> Branches \cup {None}]
      /\ row \in Workspace \cup {None} /\ dir \in Checkout \cup {None}
    BY DEF TypeOK, Calls
<1>1. CASE Adopt(p)
    <2>1. /\ pc[p] = "idle" /\ pc'[p] \in {"revive", "ensure"} /\ row # None
          /\ ws'[p] = [row EXCEPT !.preserved = FALSE] /\ UNCHANGED <<row, dir, session>>
        BY <1>1, <1>p, <1>t DEF Adopt, Begin, Goto, disk
    <2>2. ws'[p].initialized = row.initialized
        BY <1>t, <2>1, RowMarks
    <2>3. QED
        BY <1>p, <2>1, <2>2, ReadersAware
<1>2. CASE Revive(p)
    <2>1. /\ pc[p] = "revive" /\ pc'[p] = "ensure" /\ ws' = ws
          /\ UNCHANGED <<dir, session>>
        BY <1>2, <1>p, <1>t DEF Revive, Goto, disk, memory
    <2>2. QuietOf(p)
        BY <2>1 DEF QuietOf, Fresh
    <2>3. SameMarks
        BY <1>2, SameMarksIfPreserved DEF Revive
    <2>4. QED
        BY <1>p, <2>1, <2>2, <2>3, QuietSteps, SameReadyIfUnchanged, SameSessionIfKept
<1>3. CASE NoWorkspace(p)
    <2>1. pc[p] = "idle" /\ pc'[p] = "collide" /\ UNCHANGED <<row, dir, session>>
        BY <1>3, <1>p, <1>t DEF NoWorkspace, Begin, Goto, disk
    <2>2. QuietOf(p)
        BY <2>1 DEF QuietOf, Fresh
    <2>3. QED
        BY <1>p, <2>1, <2>2, QuietSteps, SameMarksIfUnchanged, SameReadyIfUnchanged,
           SameSessionIfKept
<1>4. CASE Collide(p)
    <2>1. /\ pc[p] = "collide" /\ pc'[p] \in {"idle", "clone", "ensure"}
          /\ ws'[p] = None
          /\ UNCHANGED <<row, dir>>
          /\ session' = session \/ (session' = None /\ ~Running)
        BY <1>4, <1>p, <1>t
        DEF Collide, Return, Forget, Goto, disk, memory, Prepared, PreparedOf
    <2>2. QuietOf(p)
        BY <2>1 DEF QuietOf, Fresh
    <2>3. QED
        BY <1>p, <2>1, <2>2, QuietSteps, SameMarksIfUnchanged, SameReadyIfUnchanged,
           SameSessionIfKept
<1>5. CASE StartClone(p) /\ dir # None
    <2>1. pc[p] = "clone" /\ pc'[p] = "wipe" /\ UNCHANGED <<row, dir, session>>
        BY <1>5, <1>p, <1>t DEF StartClone, Goto
    <2>2. QuietOf(p)
        BY <2>1 DEF QuietOf, Fresh
    <2>3. QED
        BY <1>p, <2>1, <2>2, QuietSteps, SameMarksIfUnchanged, SameReadyIfUnchanged,
           SameSessionIfKept
<1>6. CASE StartClone(p) /\ dir = None
    <2>1. PICK b \in (IF want[p] = None THEN Branches ELSE {want[p]}) :
            dir' = [by |-> p, branch |-> b, cloned |-> FALSE, ready |-> None]
        BY <1>6 DEF StartClone
    <2>2. b \in Branches
        BY <1>p, <1>t
    <2>3. dir' # None /\ dir'.branch # None /\ dir'.ready = None
        <3>1. dir' \in Checkout
            BY <2>1, <2>2 DEF Checkout
        <3>2. QED
            BY <2>1, <2>2, <3>1, CheckoutNotNone, BranchNotNone
    <2>4. row = None
        BY <1>6, Unmarred DEF StartClone
    <2>5. pc[p] = "clone" /\ pc'[p] = "cloning" /\ UNCHANGED <<row, session>>
        BY <1>6, <1>p, <1>t DEF StartClone, Goto
    <2>6. Unready'
        BY <1>6, <2>3 DEF Unready
    <2>7. Hooked'
        BY <1>6, <2>5 DEF OnlyOf, Readiness, Hooked, Running
    <2>8. Marked' /\ Captured' /\ Unaware'
        BY <2>3, <2>4, <2>5 DEF Marked, Captured, Unaware
    <2>9. QED
        BY <2>6, <2>7, <2>8 DEF Readiness
<1>7. ASSUME pc[p] \in {"cloning", "podfile"}
      PROVE  /\ row = None /\ dir # None /\ dir.by = p /\ dir.ready = None
             /\ \A q \in Procs \ {p} : pc[q] \notin {"cloning", "podfile", "record"}
             /\ \A q \in Procs : pc[q] \notin {"branch", "reset", "mark"}
    BY <1>7, <1>p, <1>t, CheckoutTyped, BranchNotNone
    DEF Knowledge, Cloning, Alone, Readiness, Unready, Hooked, Changing, Fresh
<1>8. CASE FinishClone(p) \/ ReadPodfile(p)
    <2>1. /\ pc[p] \in {"cloning", "podfile"} /\ pc'[p] \in {"podfile", "record", "wipe"}
          /\ UNCHANGED <<row, session>>
        BY <1>8, <1>p, <1>t DEF FinishClone, ReadPodfile, Goto
    <2>2. /\ dir' # None => dir'.ready = None /\ dir'.branch # None
          /\ pc'[p] # "wipe" => dir' # None
        <3>1. dir.branch # None
            BY <1>7, <1>t, <2>1, CheckoutTyped, BranchNotNone
        <3>2. CASE dir' \in {dir, None} /\ pc'[p] = "wipe"
            BY <1>7, <2>1, <3>1, <3>2
        <3>3. CASE dir' = [dir EXCEPT !.cloned = TRUE]
            <4>1. dir \in Checkout
                BY <1>7, <1>t, <2>1
            <4>2. dir' \in Checkout
                BY <3>3, <4>1, CheckoutTyped
            <4>3. QED
                BY <1>7, <2>1, <3>1, <3>3, <4>1, <4>2, CheckoutKept, CheckoutReady
        <3>4. ASSUME NEW b \in (IF want[p] = None THEN Branches ELSE {want[p]}),
                     dir' = [dir EXCEPT !.branch = b]
              PROVE  dir' # None /\ dir'.ready = None /\ dir'.branch # None
            <4>1. dir \in Checkout /\ b \in Branches
                BY <1>7, <1>p, <1>t, <2>1
            <4>2. dir' \in Checkout
                BY <3>4, <4>1, CheckoutTyped
            <4>3. QED
                BY <1>7, <2>1, <3>4, <4>1, <4>2, CheckoutKept, CheckoutReady, BranchNotNone
        <3>5. CASE FinishClone(p)
            BY <1>p, <1>t, <3>2, <3>3, <3>5 DEF FinishClone, Goto
        <3>6. CASE ReadPodfile(p)
            BY <1>p, <1>t, <3>2, <3>4, <3>6 DEF ReadPodfile, Goto
        <3>7. QED
            BY <1>8, <3>5, <3>6
    <2>3. Unready'
        BY <1>7, <2>1, <2>2 DEF Unready, OnlyOf, Fresh
    <2>4. Hooked'
        BY <1>7, <2>1 DEF OnlyOf, Readiness, Hooked, Running
    <2>5. Marked' /\ Captured' /\ Unaware'
        BY <1>7, <2>1, <2>2 DEF Marked, Captured, Unaware
    <2>6. QED
        BY <2>3, <2>4, <2>5 DEF Readiness
<1>9. CASE Record(p)
    <2>1. pc[p] = "record" /\ UNCHANGED <<dir, session, ws>>
        BY <1>9, <1>p, <1>t DEF Record, Goto, disk
    <2>2. row = None /\ dir # None /\ dir.ready = None /\ dir.branch # None
        BY <1>p, <1>t, <2>1, CheckoutTyped, BranchNotNone
        DEF Knowledge, Cloning, Readiness, Unready, Fresh
    <2>3. pc'[p] = "ensure" /\ row' = ws[p]
        BY <1>9, <1>p, <1>t, <2>2 DEF Record, Goto
    <2>4. ~ws[p].initialized /\ ws[p].head = None
        BY <1>p, <2>1 DEF Prepared, PreparedOf
    <2>5. Unready' /\ Hooked'
        BY <2>1, <2>3 DEF Readiness, Unready, Hooked, OnlyOf, Running, Fresh
    <2>6. Marked' /\ Captured' /\ Unaware'
        BY <2>1, <2>2, <2>3, <2>4 DEF Marked, Captured, Unaware
    <2>7. QED
        BY <2>5, <2>6 DEF Readiness
<1>10. CASE Undo(p)
    <2>1. pc[p] = "undo" /\ pc'[p] = "wipe" /\ row' = None /\ UNCHANGED <<dir, session, ws>>
        BY <1>10, <1>p, <1>t DEF Undo, Goto, disk, memory
    <2>2. Unready' /\ Hooked' /\ Unaware'
        BY <2>1 DEF Readiness, Unready, Hooked, Unaware, OnlyOf, Running, Fresh
    <2>3. Marked' /\ Captured'
        BY <2>1 DEF Marked, Captured
    <2>4. QED
        BY <2>2, <2>3 DEF Readiness
<1>11. CASE Wipe(p)
    <2>1. /\ pc[p] = "wipe" /\ pc'[p] = "idle" /\ dir' = None
          /\ UNCHANGED <<row, session>>
        BY <1>11, <1>p, <1>t DEF Wipe, Return, Forget, Goto
    <2>2. CASE dir = None
        <3>1. QuietOf(p)
            BY <2>1 DEF QuietOf, Fresh
        <3>2. QED
            BY <1>p, <2>1, <2>2, <3>1, QuietSteps, SameMarksIfUnchanged, SameReadyIfUnchanged,
               SameSessionIfKept
    <2>3. CASE dir # None
        <3>1. dir.by = p /\ ~InUse(p)
            BY <1>11, <2>3, Unmarred DEF Wipe
        <3>2. row = None
            BY <1>p, <2>1, <2>3, <3>1 DEF Knowledge, Foreign
        <3>3. \A q \in Procs \ {p} : pc[q] \notin {"cloning", "podfile", "branch", "reset", "mark"}
            BY <3>1 DEF InUse, AtWork, Busy, Starting, Changing
        <3>4. \A q \in Procs \ {p} : pc[q] # "record"
            BY <3>1, <2>3 DEF Knowledge, Cloning
        <3>5. Unready' /\ Hooked'
            BY <2>1, <3>3, <3>4 DEF Readiness, Unready, Hooked, OnlyOf, Running, Fresh
        <3>6. Marked' /\ Captured' /\ Unaware'
            BY <2>1, <3>2 DEF Marked, Captured, Unaware
        <3>7. QED
            BY <3>5, <3>6 DEF Readiness
    <2>4. QED
        BY <2>2, <2>3
<1>12. QED
    BY <1>1, <1>2, <1>3, <1>4, <1>5, <1>6, <1>8, <1>9, <1>10, <1>11 DEF Create

\* Provisioning and on_create: who marks the row has made the checkout ready.
LEMMA UseKeepsReadiness ==
    ASSUME TypeOK, Prepared, Knowledge, Mounted, Consistent, Readiness,
           NEW p \in Creators \cup Shells \cup Runs, UseSession(p), OnlyOf(p),
           Calm', harm' = {} => harm = {}
    PROVE  Readiness'
<1>p. p \in Procs
    BY DEF Procs
<1>t. /\ pc \in [Procs -> Calls] /\ ws \in [Procs -> Workspace \cup {None}]
      /\ row \in Workspace \cup {None} /\ dir \in Checkout \cup {None}
      /\ session \in Session \cup {None}
    BY DEF TypeOK, Calls
\* Who knows of the workspace has its row and its checkout, on that row's branch.
<1>w. ASSUME ws[p] # None, pc[p] \in Starting
      PROVE  /\ row # None /\ dir # None /\ dir.branch = row.branch
             /\ \A q \in Procs \ {p} : pc[q] \notin Fresh \cup Changing
    <2>1. row # None
        BY <1>p, <1>w DEF Knowledge, Rowed, Starting
    <2>2. \A q \in Procs \ {p} : pc[q] \notin Changing
        BY <1>p, <1>w DEF Knowledge, Alone
    <2>3. \A q \in Procs \ {p} : pc[q] \notin Fresh
        BY <2>1, <2>2 DEF Knowledge, Cloning, Fresh, Changing
    <2>4. QED
        BY <1>w, <2>1, <2>2, <2>3 DEF Consistent, Backed, Changing, Starting
<1>1. CASE RefusePreserved(p) \/ ProvisionFails(p)
    <2>1. /\ pc[p] = "ensure" /\ pc'[p] \in {"idle", "attached", "undo"}
          /\ UNCHANGED <<row, dir>>
          /\ session' = session \/ (session' = None /\ ~Running)
        BY <1>1, <1>p, <1>t DEF RefusePreserved, ProvisionFails, GiveUp, Ready, Forget, Goto, disk
    <2>2. QuietOf(p)
        BY <2>1 DEF QuietOf, Fresh
    <2>3. QED
        BY <1>p, <2>1, <2>2, QuietSteps, SameMarksIfUnchanged, SameReadyIfUnchanged,
           SameSessionIfKept
<1>2. CASE Reattach(p)
    <2>1. pc[p] = "ensure" /\ pc'[p] \in {"idle", "attached"} /\ UNCHANGED <<row, dir>>
        BY <1>2, <1>p, <1>t DEF Reattach, Ready, Forget, Goto, disk
    <2>2. QuietOf(p)
        BY <2>1 DEF QuietOf, Fresh
    <2>3. SameSession
        <3>1. session \in Session /\ session' = [session EXCEPT !.shared = TRUE]
            BY <1>2, <1>t DEF Reattach, Running
        <3>2. session' # None
            BY <3>1, SessionTyped, NoneAssumption
        <3>3. session'.up = session.up /\ session'.mount = session.mount
            BY <3>1 DEF Session
        <3>4. QED
            BY <1>2, <3>2, <3>3 DEF Reattach, SameSession, Running
    <2>4. QED
        BY <1>p, <2>1, <2>2, <2>3, QuietSteps, SameMarksIfUnchanged, SameReadyIfUnchanged
<1>3. CASE Provision(p)
    <2>1. /\ pc[p] = "ensure" /\ ~Running /\ UNCHANGED <<row, dir>>
          /\ session' = [by |-> p, up |-> TRUE, shared |-> FALSE, mount |-> Mount(p)]
          /\ \/ pc'[p] = "hook" /\ (p \in Runs \/ ws[p] # None)
             \/ pc'[p] \in {"idle", "attached"}
        BY <1>3, <1>p, <1>t DEF Provision, Ready, Forget, Goto, disk
    <2>2. Running' /\ session'.mount = Mount(p)
        <3>1. session' \in Session
            BY <2>1, NewSessionTyped
        <3>2. session' # None
            BY <3>1, NoneAssumption
        <3>3. QED
            BY <2>1, <3>2 DEF Running
    <2>3. Unready'
        BY <2>1 DEF Readiness, Unready, OnlyOf, Fresh
    <2>4. Hooked'
        <3>1. \A q \in Procs \ {p} : pc'[q] \notin {"hook", "mark"}
            BY <2>1 DEF Readiness, Hooked, OnlyOf
        <3>2. pc'[p] = "hook" => Mount(p) = IF p \in Runs THEN p ELSE "checkout"
            BY <2>1 DEF Mount
        <3>3. QED
            BY <2>1, <2>2, <3>1, <3>2 DEF Hooked
    <2>5. Marked' /\ Captured'
        BY <1>p, <2>1 DEF Readiness, Marked, Captured, OnlyOf
    <2>6. Unaware'
        BY <2>2 DEF Unaware
    <2>7. QED
        BY <2>3, <2>4, <2>5, <2>6 DEF Readiness
<1>4. CASE HookSucceeds(p) /\ p \in Runs
    <2>1. /\ pc[p] = "hook" /\ pc'[p] \in {"idle", "attached"} /\ UNCHANGED <<row, session>>
        BY <1>4, <1>p, <1>t DEF HookSucceeds, Ready, Forget, Goto
    <2>2. dir' = dir
        <3>1. session.mount = p
            BY <1>4, <1>p, <2>1 DEF Readiness, Hooked
        <3>2. p # "checkout"
            BY <1>4, WorkspacesAssumption
        <3>3. QED
            BY <1>4, <3>1, <3>2 DEF HookSucceeds
    <2>3. QuietOf(p)
        BY <2>1 DEF QuietOf, Fresh
    <2>4. QED
        BY <1>p, <2>1, <2>2, <2>3, QuietSteps, SameMarksIfUnchanged, SameReadyIfUnchanged,
           SameSessionIfKept
<1>5. CASE HookSucceeds(p) /\ p \notin Runs
    <2>1. /\ pc[p] = "hook" /\ pc'[p] = "mark" /\ Running /\ UNCHANGED <<row, session, ws>>
        BY <1>5, <1>p, <1>t DEF HookSucceeds, Goto, memory
    <2>2. ws[p] # None
        BY <1>5, <1>p, <2>1 DEF Prepared, PreparedOf
    <2>3. /\ row # None /\ dir # None /\ dir.branch = row.branch
          /\ \A q \in Procs \ {p} : pc[q] \notin Fresh \cup Changing
        BY <1>w, <2>1, <2>2 DEF Starting
    <2>4. dir' = [dir EXCEPT !.ready = dir.branch]
        BY <1>5, <1>p, <2>1, <2>3 DEF HookSucceeds, Readiness, Hooked
    <2>5. dir \in Checkout /\ dir' \in Checkout
        BY <1>t, <2>3, <2>4, CheckoutTyped
    <2>6. dir' # None /\ dir'.branch = dir.branch /\ dir'.ready = dir.branch
        BY <2>4, <2>5, CheckoutKept, CheckoutReady, CheckoutNotNone
    <2>7. Unready' /\ Hooked'
        BY <2>1, <2>3, <2>6 DEF Readiness, Unready, Hooked, OnlyOf, Running, Fresh
    <2>8. Marked' /\ Captured' /\ Unaware'
        BY <1>p, <2>1, <2>3, <2>6
        DEF Readiness, Marked, Captured, Unaware, OnlyOf, Running
    <2>9. QED
        BY <2>7, <2>8 DEF Readiness
<1>6. CASE HookFails(p)
    <2>1. /\ pc[p] = "hook" /\ pc'[p] \in {"unwind", "preserve"} /\ UNCHANGED <<row, dir, session>>
        BY <1>6, <1>p, <1>t DEF HookFails, Goto, disk
    <2>2. QuietOf(p)
        BY <2>1 DEF QuietOf, Fresh
    <2>3. QED
        BY <1>p, <2>1, <2>2, QuietSteps, SameMarksIfUnchanged, SameReadyIfUnchanged,
           SameSessionIfKept
<1>7. CASE MarkInitialized(p)
    <2>1. pc[p] = "mark" /\ pc'[p] = "capture" /\ UNCHANGED <<dir, session, ws>>
        BY <1>7, <1>p, <1>t DEF MarkInitialized, Goto, disk, memory
    <2>2. ws[p] # None
        BY <1>p, <2>1 DEF Prepared, PreparedOf
    <2>3. /\ row # None /\ dir # None /\ dir.branch = row.branch
          /\ \A q \in Procs \ {p} : pc[q] \notin Fresh \cup Changing
        BY <1>w, <2>1, <2>2 DEF Starting
    <2>4. row \in Workspace /\ row' = [row EXCEPT !.initialized = TRUE]
        BY <1>7, <1>t, <2>3 DEF MarkInitialized, Update
    <2>5. row'.branch = row.branch /\ row'.initialized /\ row'.head = row.head
        BY <2>4, RowKept, RowMarks
    <2>6. dir.ready = dir.branch
        BY <1>p, <2>1 DEF Readiness, Hooked
    <2>7. Unready' /\ Hooked'
        BY <2>1 DEF Readiness, Unready, Hooked, OnlyOf, Running, Fresh
    <2>8. Marked'
        BY <2>1, <2>3, <2>5, <2>6 DEF Marked
    <2>9. Captured' /\ Unaware'
        BY <1>p, <2>1, <2>3, <2>5 DEF Readiness, Captured, Unaware, OnlyOf, Running
    <2>10. QED
        BY <2>7, <2>8, <2>9 DEF Readiness
<1>8. CASE CaptureHead(p)
    <2>1. pc[p] = "capture" /\ pc'[p] \in {"idle", "attached"} /\ UNCHANGED <<dir, session>>
        BY <1>8, <1>p, <1>t DEF CaptureHead, Ready, Forget, Goto, disk
    <2>2. ws[p] # None
        BY <1>p, <2>1 DEF Prepared, PreparedOf
    <2>3. /\ row # None /\ dir # None /\ dir.branch = row.branch
          /\ \A q \in Procs \ {p} : pc[q] \notin Fresh \cup Changing
        BY <1>w, <2>1, <2>2 DEF Starting
    <2>4. CASE UNCHANGED row
        <3>1. QuietOf(p)
            BY <2>1 DEF QuietOf, Fresh
        <3>2. QED
            BY <1>p, <2>1, <2>4, <3>1, QuietSteps, SameMarksIfUnchanged, SameReadyIfUnchanged,
               SameSessionIfKept
    <2>5. CASE Update([row EXCEPT !.head = dir.branch])
        <3>1. row \in Workspace /\ row' = [row EXCEPT !.head = dir.branch]
            BY <1>t, <2>3, <2>5 DEF Update
        <3>2. row'.branch = row.branch /\ row'.initialized = row.initialized
              /\ row'.head = row.branch
            BY <2>3, <3>1, RowKept, RowMarks
        <3>3. Unready' /\ Hooked' /\ Unaware'
            BY <2>1 DEF Readiness, Unready, Hooked, Unaware, OnlyOf, Running, Fresh
        <3>4. Marked' /\ Captured'
            BY <1>p, <2>1, <2>3, <3>2 DEF Readiness, Marked, Captured, OnlyOf
        <3>5. QED
            BY <3>3, <3>4 DEF Readiness
    <2>6. QED
        BY <1>8, <2>4, <2>5 DEF CaptureHead
<1>9. CASE Preserve(p)
    <2>1. /\ pc[p] = "preserve" /\ pc'[p] = "unwind" /\ UNCHANGED <<dir, session>>
        BY <1>9, <1>p, <1>t DEF Preserve, Goto, disk
    <2>2. QuietOf(p)
        BY <2>1 DEF QuietOf, Fresh
    <2>3. SameMarks
        BY <1>9, SameMarksIfPreserved DEF Preserve
    <2>4. QED
        BY <1>p, <2>1, <2>2, <2>3, QuietSteps, SameReadyIfUnchanged, SameSessionIfKept
<1>10. CASE Unwind(p)
    <2>1. pc[p] = "unwind" /\ pc'[p] \in {"idle", "attached"} /\ UNCHANGED <<row, dir>>
        BY <1>10, <1>p, <1>t DEF Unwind, Ready, Forget, Goto
    <2>2. QuietOf(p)
        BY <2>1 DEF QuietOf, Fresh
    <2>3. \A q \in Procs \ {p} : ~AtWork(q)
        BY <1>10, Unmarred DEF Unwind, Interrupts
    <2>4. QED
        BY <1>p, <2>1, <2>2, <2>3, QuietSteps, SameMarksIfUnchanged, SameReadyIfUnchanged
<1>11. CASE MarkFails(p)
    <2>1. /\ pc[p] = "mark" /\ pc'[p] \in {"idle", "attached", "undo"}
          /\ UNCHANGED <<row, dir>> /\ session' = None
        BY <1>11, <1>p, <1>t DEF MarkFails, GiveUp, Ready, Forget, Goto, disk
    <2>2. harm' # {} /\ \A q \in Procs \ {p} : ~AtWork(q)
        BY <1>11 DEF MarkFails, Harm, Calm, Spared
    <2>3. \A q \in Procs \ {p} : pc[q] \notin {"hook", "mark"}
        BY <2>2 DEF AtWork, Busy, Starting
    <2>4. Unready' /\ Hooked'
        BY <2>1, <2>3 DEF Readiness, Unready, Hooked, OnlyOf, Fresh
    <2>5. Marked' /\ Captured' /\ Unaware'
        BY <1>p, <2>1, <2>2 DEF Readiness, Marked, Captured, Unaware, OnlyOf
    <2>6. QED
        BY <2>4, <2>5 DEF Readiness
<1>12. QED
    BY <1>1, <1>2, <1>3, <1>4, <1>5, <1>6, <1>7, <1>8, <1>9, <1>10, <1>11 DEF UseSession

\* A command that is killed goes nowhere, and none relies on it.
LEMMA KillKeepsReadiness ==
    ASSUME TypeOK, Readiness, NEW p \in Procs, Kill(p), OnlyOf(p), Calm'
    PROVE  Readiness'
<1>1. /\ pc[p] \notin Tearing /\ harm' # {} /\ pc'[p] = "idle"
      /\ UNCHANGED <<row, dir, session>>
    BY DEF Kill, Harm, Calm, Spared, Return, Forget, Goto, disk, TypeOK
<1>2. Unready' /\ Hooked'
    BY <1>1 DEF Readiness, Unready, Hooked, OnlyOf, Running, Fresh
<1>3. Marked' /\ Captured' /\ Unaware'
    BY <1>1 DEF Readiness, Marked, Captured, Unaware, OnlyOf, Tearing
<1>4. QED
    BY <1>2, <1>3 DEF Readiness

\* shell and run, and those that leave.
LEMMA RestKeepsReadiness ==
    ASSUME TypeOK, Prepared, Readiness, NEW p \in Procs, OnlyOf(p),
           Calm', harm' = {} => harm = {},
           Inspect(p) \/ CheckName(p) \/ CloneTemporary(p) \/ Leave(p)
    PROVE  Readiness'
<1>t. /\ pc \in [Procs -> Calls] /\ ws \in [Procs -> Workspace \cup {None}]
      /\ row \in Workspace \cup {None}
    BY DEF TypeOK, Calls
<1>1. CASE Inspect(p)
    <2>1. /\ pc[p] = "idle" /\ pc'[p] = "ensure" /\ ws'[p] = row
          /\ UNCHANGED <<row, dir, session>>
        BY <1>1, <1>t DEF Inspect, Begin, Goto, disk
    <2>2. QED
        BY <2>1, ReadersAware
<1>2. CASE CheckName(p) \/ Leave(p)
    <2>1. /\ pc'[p] \in {"idle", "clone"} /\ pc[p] \in {"idle", "attached"}
          /\ UNCHANGED <<row, dir>>
        BY <1>2, <1>t DEF CheckName, Leave, Begin, Return, Forget, Goto, disk
    <2>2. QuietOf(p)
        BY <2>1 DEF QuietOf, Fresh
    <2>3. UNCHANGED session \/ \A q \in Procs : ~AtWork(q)
        BY <1>2, Unmarred DEF CheckName, Leave, Interrupts
    <2>4. QED
        BY <2>1, <2>2, <2>3, QuietSteps, SameMarksIfUnchanged, SameReadyIfUnchanged,
           SameSessionIfKept
<1>3. CASE CloneTemporary(p)
    <2>1. /\ pc[p] = "clone" /\ pc'[p] \in {"ensure", "idle"} /\ ws'[p] = None
          /\ UNCHANGED <<row, dir, session>>
        BY <1>3, <1>t DEF CloneTemporary, Return, Forget, Goto, memory, Prepared, PreparedOf
    <2>2. QuietOf(p)
        BY <2>1 DEF QuietOf, Fresh
    <2>3. QED
        BY <2>1, <2>2, QuietSteps, SameMarksIfUnchanged, SameReadyIfUnchanged,
           SameSessionIfKept
<1>4. QED
    BY <1>1, <1>2, <1>3

\* switch-branch and rm: nobody is on the way through on_create meanwhile.
LEMMA ChangeKeepsReadiness ==
    ASSUME TypeOK, Remembered, Knowledge, Readiness, NEW p \in Procs,
           Switch(p) \/ Remove(p), OnlyOf(p), Calm', harm' = {} => harm = {}
    PROVE  Readiness'
<1>t. /\ row \in Workspace \cup {None} /\ dir \in Checkout \cup {None}
      /\ pc \in [Procs -> Calls] /\ ws \in [Procs -> Workspace \cup {None}]
      /\ want \in [Procs -> Branches \cup {None}]
    BY DEF TypeOK, Calls
<1>a. ASSUME pc[p] \in Changing
      PROVE  /\ row # None
             /\ \A q \in Procs \ {p} :
                  pc[q] \notin Changing \cup {"cloning", "podfile", "record"}
    BY <1>a DEF Knowledge, Alone, Cloning
<1>u. ASSUME ~InUse(p)
      PROVE  /\ \A q \in Procs \ {p} : pc[q] \notin {"hook", "mark"}
             /\ \A q \in Procs \ {p} : pc[q] \in {"revive", "ensure"} => ws[q] = None
    BY <1>u DEF InUse, AtWork, Busy, Starting
<1>1. ASSUME NEW next \in {"git", "rmdir", "destroy"}, LookUp(p, next)
      PROVE  Readiness'
    <2>1. /\ pc[p] = "idle" /\ pc'[p] = next /\ UNCHANGED <<row, dir>>
          /\ session' = session \/ (session' = None /\ ~Running)
        BY <1>1, <1>t DEF LookUp, Begin, Goto, disk
    <2>2. QuietOf(p)
        BY <2>1 DEF QuietOf, Fresh
    <2>3. QED
        BY <2>1, <2>2, QuietSteps, SameMarksIfUnchanged, SameReadyIfUnchanged, SameSessionIfKept
<1>2. CASE SwitchBranch(p)
    <2>0. pc[p] = "git" /\ UNCHANGED <<row, session>>
        BY <1>2 DEF SwitchBranch, Return, Forget, Goto
    <2>1. CASE dir # None /\ pc'[p] = "branch"
        <3>1. dir' = [dir EXCEPT !.branch = want[p], !.ready = None] /\ ~InUse(p)
            BY <1>2, <1>t, <2>1, Unmarred DEF SwitchBranch, Return, Forget, Goto
        <3>2. want[p] \in Branches
            BY <1>t, <2>0 DEF Remembered, RememberedOf
        <3>3. dir \in Checkout /\ dir' \in Checkout
            BY <1>t, <2>1, <3>1, <3>2, CheckoutTyped
        <3>4. dir' # None /\ dir'.ready = None /\ dir'.branch # None
            BY <3>1, <3>2, <3>3, CheckoutKept, CheckoutReady, CheckoutNotNone, BranchNotNone
        <3>5. Unready' /\ Hooked'
            BY <1>u, <2>0, <2>1, <3>1, <3>4
            DEF Readiness, Unready, Hooked, OnlyOf, Running, Fresh
        <3>6. Marked' /\ Captured' /\ Unaware'
            BY <2>0, <2>1, <3>4 DEF Readiness, Marked, Captured, Unaware, OnlyOf
        <3>7. QED
            BY <3>5, <3>6 DEF Readiness
    <2>2. CASE pc'[p] = "idle" /\ UNCHANGED dir
        <3>1. QuietOf(p)
            BY <2>0, <2>2 DEF QuietOf, Fresh
        <3>2. QED
            BY <2>0, <2>2, <3>1, QuietSteps, SameMarksIfUnchanged, SameReadyIfUnchanged,
               SameSessionIfKept
    <2>3. QED
        BY <1>2, <1>t, <2>1, <2>2 DEF SwitchBranch, Return, Forget, Goto
<1>3. CASE UpdateBranch(p) \/ ResetInitialized(p) \/ ClearHead(p)
    <2>1. /\ pc[p] \in {"branch", "reset", "clear"} /\ pc'[p] \in {"reset", "clear", "idle"}
          /\ pc[p] = "branch" <=> pc'[p] = "reset"
          /\ pc[p] = "reset" <=> pc'[p] = "clear"
          /\ UNCHANGED <<dir, session>>
        BY <1>3, <1>t DEF UpdateBranch, ResetInitialized, ClearHead, Return, Forget, Goto, disk
    <2>2. /\ row \in Workspace
          /\ \A q \in Procs \ {p} : pc[q] \notin {"branch", "reset", "rmrow", "clear"}
        BY <1>a, <1>t, <2>1 DEF Changing
    <2>3. Unready'
        BY <2>1 DEF Readiness, Unready, OnlyOf, Fresh
    <2>4. Hooked' /\ Unaware'
        BY <2>1 DEF Readiness, Hooked, Unaware, OnlyOf, Running
    <2>5. CASE UpdateBranch(p)
        <3>1. pc[p] = "branch" /\ pc'[p] = "reset"
            BY <1>t, <2>5 DEF UpdateBranch, Goto
        <3>2. dir # None /\ dir.ready = None
            BY <3>1 DEF Readiness, Unready, Fresh
        <3>3. dir.branch # None
            BY <1>t, <3>2, CheckoutTyped, BranchNotNone
        <3>4. Marked' /\ Captured'
            BY <2>1, <3>1, <3>2, <3>3 DEF Marked, Captured
        <3>5. QED
            BY <2>3, <2>4, <3>4 DEF Readiness
    <2>6. CASE ResetInitialized(p)
        <3>1. pc[p] = "reset" /\ pc'[p] = "clear"
            BY <1>t, <2>6 DEF ResetInitialized, Goto
        <3>2. dir # None /\ dir.ready = None
            BY <3>1 DEF Readiness, Unready, Fresh
        <3>3. dir.branch # None
            BY <1>t, <3>2, CheckoutTyped, BranchNotNone
        <3>4. row' = [row EXCEPT !.initialized = FALSE]
            BY <1>t, <2>2, <2>6, RowKept DEF ResetInitialized, Update
        <3>5. ~row'.initialized
            BY <2>2, <3>4, RowMarks
        <3>6. Marked' /\ Captured'
            BY <2>1, <3>1, <3>2, <3>3, <3>5 DEF Marked, Captured
        <3>7. QED
            BY <2>3, <2>4, <3>6 DEF Readiness
    <2>7. CASE ClearHead(p)
        <3>1. pc[p] = "clear" /\ pc'[p] = "idle"
            BY <1>t, <2>7 DEF ClearHead, Return, Forget, Goto
        <3>2. row' = [row EXCEPT !.head = None]
            BY <1>t, <2>2, <2>7, RowKept DEF ClearHead, Update
        <3>3. row'.branch = row.branch /\ row'.initialized = row.initialized /\ row'.head = None
            BY <2>2, <3>2, RowKept, RowMarks
        <3>4. Marked' /\ Captured'
            BY <2>1, <2>2, <3>1, <3>3, RowKept DEF Readiness, Marked, Captured, OnlyOf
        <3>5. QED
            BY <2>3, <2>4, <3>4 DEF Readiness
    <2>8. QED
        BY <1>3, <2>5, <2>6, <2>7
<1>4. CASE Destroy(p)
    <2>1. pc[p] = "destroy" /\ pc'[p] = "rmdir" /\ UNCHANGED <<row, dir>>
        BY <1>4, <1>t DEF Destroy, Goto, disk
    <2>2. QuietOf(p)
        BY <2>1 DEF QuietOf, Fresh
    <2>3. \A q \in Procs : ~AtWork(q)
        BY <1>4, Unmarred DEF Destroy, Interrupts
    <2>4. QED
        BY <2>1, <2>2, <2>3, QuietSteps, SameMarksIfUnchanged, SameReadyIfUnchanged
<1>5. CASE RemoveCheckout(p)
    <2>1. pc[p] = "rmdir" /\ pc'[p] = "rmrow" /\ dir' = None /\ UNCHANGED <<row, session, ws>>
        BY <1>5, <1>t DEF RemoveCheckout, Goto, memory
    <2>2. ~InUse(p)
        BY <1>5, Unmarred DEF RemoveCheckout
    <2>3. Unready' /\ Hooked'
        BY <1>a, <1>u, <2>1, <2>2
        DEF Readiness, Unready, Hooked, OnlyOf, Running, Fresh, Changing
    <2>4. Marked' /\ Captured' /\ Unaware'
        BY <2>1 DEF Readiness, Marked, Captured, Unaware, OnlyOf
    <2>5. QED
        BY <2>3, <2>4 DEF Readiness
<1>6. CASE DeleteWorkspace(p)
    <2>1. pc[p] = "rmrow" /\ pc'[p] = "idle" /\ row' = None /\ UNCHANGED <<dir, session>>
        BY <1>6, <1>t DEF DeleteWorkspace, Return, Forget, Goto, disk
    <2>2. Unready' /\ Hooked' /\ Unaware'
        BY <2>1 DEF Readiness, Unready, Hooked, Unaware, OnlyOf, Running, Fresh
    <2>3. Marked' /\ Captured'
        BY <2>1 DEF Marked, Captured
    <2>4. QED
        BY <2>2, <2>3 DEF Readiness
<1>7. ~RemovalFails(p)
    BY DEF RemovalFails, Harm, Calm, Spared
<1>8. QED
    BY <1>1, <1>2, <1>3, <1>4, <1>5, <1>6, <1>7 DEF Switch, Remove

-----------------------------------------------------------------------------
\* A history without kills and collisions had none before.
LEMMA NoHarmBefore ==
    ASSUME TypeOK, [Next]_vars, harm' = {}
    PROVE  harm = {}
<1>1. Spared(Kinds)'
    BY DEF Spared
<1>2. Spared(Kinds)
    BY <1>1, HarmStays
<1>3. QED
    BY <1>2 DEF Spared, TypeOK, Kinds

\* What commands remember on their way through on_create, and what the row and the
\* checkout say of it, hold together for any number of commands.
THEOREM ReadyInvariantHolds == Spec => []ReadyInvariant
<1>1. Init => ReadyInvariant
    BY DEF Init, ReadyInvariant, Prepared, PreparedOf, Readiness, Unready, Hooked, Marked,
       Captured, Unaware, Fresh
<1>2. ReadyInvariant /\ WorkspacesInvariant /\ [Next]_vars => ReadyInvariant'
    <2> SUFFICES ASSUME ReadyInvariant, WorkspacesInvariant, [Next]_vars
                 PROVE  ReadyInvariant'
        OBVIOUS
    <2>0. TypeOK /\ Remembered /\ Prepared
        BY DEF WorkspacesInvariant, ReadyInvariant
    <2>1. ASSUME Calm'
          PROVE  Knowledge /\ Mounted /\ Consistent /\ Readiness
        <3>1. Calm
            BY <2>1, HarmStays DEF Calm
        <3>2. QED
            BY <3>1 DEF WorkspacesInvariant, ReadyInvariant, Calm, Untorn, Spared
    <2>2. ASSUME NEW p \in Procs,
                 Works(p) \/ Kill(p) \/ (p \in Shells \cup Runs /\ Leave(p))
          PROVE  ReadyInvariant'
        <3>1. OnlyOf(p)
            BY <2>0, <2>2, CreateRemembered, UseRemembered, ChangeRemembered, RestRemembered
            DEF Works
        <3>2. PreparedOf(p)'
            BY <2>0, <2>2, CreatePrepared, UsePrepared, OthersPrepared DEF Works
        <3>3. Prepared'
            BY <2>0, <3>1, <3>2 DEF OnlyOf, Prepared, PreparedOf
        <3>4. Calm' => Readiness'
            BY <2>0, <2>1, <2>2, <3>1, NoHarmBefore, CreateKeepsReadiness, UseKeepsReadiness,
               KillKeepsReadiness, RestKeepsReadiness, ChangeKeepsReadiness DEF Works
        <3>5. QED
            BY <3>3, <3>4 DEF ReadyInvariant
    <2>3. CASE SessionEnds
        <3>1. UNCHANGED <<row, dir, pc, ws>>
            BY <2>3 DEF SessionEnds, disk, memory
        <3>2. Prepared'
            BY <2>0, <3>1 DEF Prepared, PreparedOf
        <3>3. ASSUME Calm' PROVE Readiness'
            <4>1. \A q \in Procs : ~AtWork(q)
                BY <2>3, <3>3, Unmarred DEF SessionEnds, Interrupts
            <4>2. \A q \in Procs : /\ pc[q] \notin {"hook", "mark"}
                                   /\ pc[q] \in {"revive", "ensure"} => ws[q] = None
                BY <4>1 DEF AtWork, Busy, Starting
            <4>3. harm' = {} => harm = {}
                BY <2>0, NoHarmBefore
            <4>4. QED
                BY <2>1, <3>1, <3>3, <4>2, <4>3
                DEF Readiness, Unready, Hooked, Marked, Captured, Unaware
        <3>4. QED
            BY <3>2, <3>3 DEF ReadyInvariant
    <2>4. CASE UNCHANGED vars
        BY <2>0, <2>1, <2>4 DEF vars, disk, memory, harmVars, ReadyInvariant, Prepared, PreparedOf,
           Readiness, Unready, Hooked, Marked, Captured, Unaware, Running, Calm, Spared
    <2>5. QED
        BY <2>2, <2>3, <2>4 DEF Next, Procs
<1>3. QED
    BY <1>1, <1>2, InvariantHolds, PTL DEF Spec

\* For any number of commands, killed or failing anywhere but between the steps of
\* switch-branch and rm, none of which acts on what another is using or ends the session
\* that another is at work in: a row says initialized only of a checkout in which
\* on_create has succeeded on this branch, and no HEAD of another branch stays in it.
THEOREM InitializedAreReady == Spec => []InitializedIsReady
<1>1. WorkspacesInvariant /\ ReadyInvariant => InitializedIsReady
    <2> SUFFICES ASSUME WorkspacesInvariant, ReadyInvariant, row # None, row.initialized,
                        Calm,
                        ~ \E p \in Busy : pc[p] \in Tearing
                 PROVE  dir.ready = row.branch /\ row.head \in {None, row.branch}
        BY DEF InitializedIsReady, Calm
    <2>1. \A p \in Procs : pc[p] \notin {"branch", "reset", "clear", "rmrow"}
        BY DEF Busy, Tearing
    <2>2. QED
        BY <2>1 DEF ReadyInvariant, Readiness, Marked, Captured
<1>2. QED
    BY <1>1, InvariantHolds, ReadyInvariantHolds, PTL

\* For any number of commands, as long as none is killed, acts on what another is using,
\* or ends the session that another is at work in: on_create runs once in a checkout on a
\* branch, however often sessions are provisioned for it.
THEOREM OnCreateRunsOnce == Spec => OnCreateOnce
<1>1. WorkspacesInvariant /\ ReadyInvariant /\ [Next]_vars =>
        [\A p \in Creators \cup Shells :
             pc[p] = "ensure" /\ pc'[p] = "hook" /\ harm = {} /\ dir # None
             => dir.ready # dir.branch]_vars
    <2> SUFFICES ASSUME WorkspacesInvariant, ReadyInvariant, [Next]_vars,
                        NEW p \in Creators \cup Shells,
                        pc[p] = "ensure", pc'[p] = "hook", harm = {}, dir # None
                 PROVE  dir.ready # dir.branch
        OBVIOUS
    <2>p. p \in Procs /\ p \notin Runs
        BY WorkspacesAssumption DEF Procs
    <2>0. TypeOK /\ Remembered
        BY DEF WorkspacesInvariant
    <2>1. PICK q \in Procs : Works(q) \/ Kill(q) \/ (q \in Shells \cup Runs /\ Leave(q))
        <3>1. pc' # pc
            OBVIOUS
        <3>2. ~SessionEnds /\ ~UNCHANGED vars
            BY <3>1 DEF SessionEnds, vars
        <3>3. QED
            BY <3>2 DEF Next, Procs
    <2>2. OnlyOf(q)
        BY <2>0, <2>1, CreateRemembered, UseRemembered, ChangeRemembered, RestRemembered
        DEF Works
    <2>3. q = p
        BY <2>p, <2>2 DEF OnlyOf
    <2>4. Provision(p)
        <3>1. pc \in [Procs -> Calls]
            BY <2>0 DEF TypeOK, Calls
        <3>2. UseSession(p)
            BY <2>p, <2>1, <2>3, <3>1, WorkspacesAssumption
            DEF Works, Create, Adopt, Revive, NoWorkspace, Collide, StartClone, FinishClone,
                ReadPodfile, Record, Undo, Wipe, Inspect, Kill, Leave, Begin, Return, Forget, Goto
        <3>3. QED
            BY <2>p, <3>1, <3>2 DEF UseSession, RefusePreserved, Reattach, ProvisionFails,
               HookSucceeds, HookFails, MarkInitialized, MarkFails, CaptureHead, Preserve, Unwind,
               GiveUp, Ready, Forget, Goto
    <2>5. ~Running /\ ws[p] # None /\ ~ws[p].initialized
        <3>1. pc \in [Procs -> Calls]
            BY <2>0 DEF TypeOK, Calls
        <3>2. QED
            BY <2>p, <2>4, <3>1 DEF Provision, Ready, Forget, Goto
    <2>6. QED
        BY <2>p, <2>5 DEF ReadyInvariant, Readiness, Unaware, Calm, Spared
<1>2. QED
    BY <1>1, InvariantHolds, ReadyInvariantHolds, PTL DEF Spec, OnCreateOnce

=============================================================================
