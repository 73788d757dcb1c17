------------------------------ MODULE Workspaces ------------------------------
(***************************************************************************)
(* A name of one user in local mode: the workspace behind it (a row and a  *)
(* checkout on the host), the session that runs in it, and the commands    *)
(* create, shell, run, switch-branch and rm, which read the row, work for  *)
(* minutes and write to it, none of them holding the user's lock.          *)
(*                                                                         *)
(* Only ensureContainerWithState takes that lock: it is one step here (see *)
(* UserLock, Provisioning).  When a session ends, and who is the last to   *)
(* leave it, is left open (see Connection).  A command that ends or is     *)
(* killed makes room for the next one of its kind.                         *)
(***************************************************************************)
EXTENDS Naturals, FiniteSets

CONSTANTS
    Creators,   \* podspawn create
    Shells,     \* podspawn shell
    Runs,       \* podspawn run --project
    Switchers,  \* podspawn switch-branch
    Removers,   \* podspawn rm
    Branches,   \* branches of the project's repository
    Overlap,    \* how many commands may be at work at the same time
    Harms,      \* how many kills, failures and collisions there may be
    None

Procs == Creators \cup Shells \cup Runs \cup Switchers \cup Removers

ASSUME WorkspacesAssumption ==
    /\ Harms \in Nat
    /\ Overlap \in Nat
    /\ Creators \cap (Shells \cup Runs \cup Switchers \cup Removers) = {}
    /\ Shells \cap (Runs \cup Switchers \cup Removers) = {}
    /\ Runs \cap (Switchers \cup Removers) = {}
    /\ Switchers \cap Removers = {}
    /\ "checkout" \notin Runs

Workspace ==
    [by : Creators, branch : Branches, initialized : BOOLEAN, preserved : BOOLEAN,
     head : Branches \cup {None}]

\* ready (history): the branch on which on_create has succeeded in this checkout
\* since the branch was last switched.
Checkout ==
    [by : Creators, branch : Branches, cloned : BOOLEAN, ready : Branches \cup {None}]

\* mount: the workspace's checkout, the temporary clone of a run, or nothing.
Session ==
    [by : Creators \cup Shells \cup Runs, up : BOOLEAN, shared : BOOLEAN,
     mount : {"checkout", None} \cup Runs]

ASSUME NoneAssumption ==
    None \notin Procs \cup Branches \cup Workspace \cup Checkout \cup Session \cup {"checkout"}

VARIABLES
    row,        \* the workspace's row, or None
    dir,        \* what is in its directory, or None
    session,    \* the session of that name, or None
    tmp,        \* the runs whose temporary clone exists
    pc,         \* next call of each process
    ws,         \* the row as the process has it in memory, or None
    want,       \* the branch asked for, or None
    created,    \* those that inserted the row they work on
    harm,       \* history: what kills, failures and collisions there were
    left        \* how many there may still be

disk == <<dir, tmp>>
memory == <<ws, want, created>>
harmVars == <<harm, left>>
vars == <<row, disk, session, pc, memory, harmVars>>

Creating == {"revive", "collide", "clone", "cloning", "podfile", "record", "undo", "wipe"}
Starting == {"ensure", "hook", "mark", "capture", "preserve", "unwind"}
Changing == {"git", "branch", "reset", "clear", "destroy", "rmdir", "rmrow"}

TypeOK ==
    /\ row \in Workspace \cup {None}
    /\ dir \in Checkout \cup {None}
    /\ session \in Session \cup {None}
    /\ tmp \subseteq Runs
    /\ pc \in [Procs -> {"idle", "attached"} \cup Creating \cup Starting \cup Changing]
    /\ ws \in [Procs -> Workspace \cup {None}]
    /\ want \in [Procs -> Branches \cup {None}]
    /\ created \subseteq Creators
    /\ harm \subseteq {"kill", "torn", "failure", "clobber", "underfoot", "stop"}
    /\ left \in 0..Harms

Init ==
    /\ row = None
    /\ dir = None
    /\ session = None
    /\ tmp = {}
    /\ pc = [p \in Procs |-> "idle"]
    /\ ws = [p \in Procs |-> None]
    /\ want = [p \in Procs |-> None]
    /\ created = {}
    /\ harm = {}
    /\ left = Harms

Goto(p, from, to) ==
    /\ pc[p] = from
    /\ pc' = [pc EXCEPT ![p] = to]

\* The command of p is over, or knows nothing any more that it uses later.
Forget(p, from, to) ==
    /\ Goto(p, from, to)
    /\ ws' = [ws EXCEPT ![p] = None]
    /\ want' = [want EXCEPT ![p] = None]
    /\ created' = created \ {p}

Return(p, from) == Forget(p, from, "idle")

\* create returns once the session is there, the others attach to it.
Ready(p, from) == Forget(p, from, IF p \in Creators THEN "idle" ELSE "attached")

Harm(kind) ==
    /\ left > 0
    /\ left' = left - 1
    /\ harm' = harm \cup {kind}

HarmIf(condition, kind) == IF condition THEN Harm(kind) ELSE UNCHANGED harmVars

Busy == {p \in Procs : pc[p] \notin {"idle", "attached"}}
Running == session # None /\ session.up

\* The first thing that a command does is to look up the row.  One that is refused
\* then, or finds nothing, has done nothing.
Begin(p, to) ==
    /\ Cardinality(Busy) < Overlap
    /\ Goto(p, "idle", to)
    /\ UNCHANGED created

\* switch-branch, rm or a roll-back is under way.
Meddling == \E q \in Procs : pc[q] \in Changing \cup {"undo", "wipe"}

\* p has read the row, clones, or is about to use the session or at work in it.
AtWork(p) == p \in Busy /\ (ws[p] # None \/ pc[p] \in Starting \cup {"cloning", "podfile"})

\* The session ends under one of the commands procs.
Interrupts(procs) == HarmIf(\E p \in procs : AtWork(p), "stop")

\* UPDATE ... WHERE user = ? AND name = ?
Update(new) == row' = IF row = None THEN None ELSE new

-----------------------------------------------------------------------------
(* Commands begin and end.                                                 *)

\* Killed here, switch-branch and rm leave a row that does not fit its checkout.
Tearing == {"branch", "reset", "clear", "rmrow"}

Kill(p) ==
    /\ p \in Busy
    /\ Harm(IF pc[p] \in Tearing THEN "torn" ELSE "kill")
    /\ Return(p, pc[p])
    /\ UNCHANGED <<row, disk, session>>

\* stop, down, cleanup, or an expired grace period; and a container that dies.
SessionEnds ==
    /\ session # None
    /\ session' \in {None, [session EXCEPT !.up = FALSE]} \ {session}
    /\ Interrupts(Procs)
    /\ UNCHANGED <<row, disk, pc, memory>>

-----------------------------------------------------------------------------
(* create: setupNamedFlow and rollbackCreate.                              *)

\* An existing workspace is adopted, unless --branch names another branch than the
\* row; a preserved one is made active again.
Adopt(p) ==
    /\ row # None
    /\ Begin(p, IF row.preserved THEN "revive" ELSE "ensure")
    /\ ws' = [ws EXCEPT ![p] = [row EXCEPT !.preserved = FALSE]]
    /\ HarmIf(Meddling, "underfoot")
    /\ UNCHANGED <<row, disk, session, want>>

Revive(p) ==
    /\ Goto(p, "revive", "ensure")
    /\ Update([row EXCEPT !.preserved = FALSE])
    /\ UNCHANGED <<disk, session, memory, harmVars>>

NoWorkspace(p) ==
    /\ row = None
    /\ Begin(p, "collide")
    /\ \E b \in Branches \cup {None} : want' = [want EXCEPT ![p] = b]
    /\ UNCHANGED <<row, disk, session, ws, harmVars>>

\* A session of that name without a workspace is in the way, unless its container
\* is gone.  Without --project there is nothing to clone.
Collide(p) ==
    /\ IF Running
       THEN Return(p, "collide") /\ UNCHANGED session
       ELSE /\ session' = None
            /\ \/ Goto(p, "collide", "clone")
               \/ want[p] = None /\ Goto(p, "collide", "ensure")
            /\ UNCHANGED memory
    /\ UNCHANGED <<row, disk, harmVars>>

\* Mutant: the branch that was not asked for is not resolved.
StartCloneUnresolved(p) ==
    /\ dir = None
    /\ Goto(p, "clone", "cloning")
    /\ dir' = [by |-> p, branch |-> want[p], cloned |-> FALSE, ready |-> None]
    /\ UNCHANGED <<row, tmp, session, memory, harmVars>>

\* git refuses a directory that is not empty.
StartClone(p) ==
    /\ IF dir # None
       THEN Goto(p, "clone", "wipe") /\ UNCHANGED <<dir, harmVars>>
       ELSE /\ Goto(p, "clone", "cloning")
            /\ \E b \in IF want[p] = None THEN Branches ELSE {want[p]} :
                 dir' = [by |-> p, branch |-> b, cloned |-> FALSE, ready |-> None]
            /\ HarmIf(row # None \/ Meddling, "clobber")
    /\ UNCHANGED <<row, tmp, session, memory>>

Mine(p) == dir # None /\ dir.by = p

FinishClone(p) ==
    /\ \/ /\ Mine(p)
          /\ Goto(p, "cloning", "podfile")
          /\ dir' = [dir EXCEPT !.cloned = TRUE]
       \/ /\ Goto(p, "cloning", "wipe")
          /\ dir' = IF Mine(p) THEN None ELSE dir
    /\ UNCHANGED <<row, tmp, session, memory, harmVars>>

\* Mutant: the row names the branch that was cloned, not the one checked out.
ReadPodfileStale(p) ==
    /\ dir # None /\ dir.cloned
    /\ \E b \in IF want[p] = None THEN Branches ELSE {want[p]} :
         dir' = [dir EXCEPT !.branch = b]
    /\ ws' = [ws EXCEPT ![p] =
         [by |-> p, branch |-> dir.branch, initialized |-> FALSE,
          preserved |-> FALSE, head |-> None]]
    /\ Goto(p, "podfile", "record")
    /\ UNCHANGED <<row, tmp, session, want, created, harmVars>>

\* applyWorkspacePodfileBranch: the Podfile may name a branch of its own.
ReadPodfile(p) ==
    /\ \/ /\ dir # None /\ dir.cloned
          /\ \E b \in IF want[p] = None THEN Branches ELSE {want[p]} :
               /\ dir' = [dir EXCEPT !.branch = b]
               /\ ws' = [ws EXCEPT ![p] =
                    [by |-> p, branch |-> b, initialized |-> FALSE,
                     preserved |-> FALSE, head |-> None]]
          /\ Goto(p, "podfile", "record")
       \/ /\ Goto(p, "podfile", "wipe")
          /\ UNCHANGED <<dir, ws>>
    /\ UNCHANGED <<row, tmp, session, want, created, harmVars>>

\* CreateWorkspace: the name is unique.
Record(p) ==
    /\ IF row = None
       THEN /\ Goto(p, "record", "ensure")
            /\ row' = ws[p]
            /\ created' = created \cup {p}
       ELSE /\ Goto(p, "record", "wipe")
            /\ UNCHANGED <<row, created>>
    /\ UNCHANGED <<disk, session, ws, want, harmVars>>

\* Another command that knows the row is at work in the checkout.
InUse(p) == \E q \in Procs \ {p} : AtWork(q) \/ pc[q] \in Changing

\* Mutant: the roll-back takes the row only.
UndoRow(p) ==
    /\ Return(p, "undo")
    /\ row' = None
    /\ HarmIf(row # None /\ row.by # p, "clobber")
    /\ UNCHANGED <<disk, session>>

Undo(p) ==
    /\ Goto(p, "undo", "wipe")
    /\ row' = None
    /\ HarmIf(row # None /\ (row.by # p \/ InUse(p) \/ Running), "clobber")
    /\ UNCHANGED <<disk, session, memory>>

\* os.RemoveAll(workspacePath), whoever cloned into it.
Wipe(p) ==
    /\ Return(p, "wipe")
    /\ dir' = None
    /\ HarmIf(dir # None /\ (dir.by # p \/ InUse(p)), "clobber")
    /\ UNCHANGED <<row, tmp, session>>

Create(p) ==
    \/ Adopt(p) \/ Revive(p) \/ NoWorkspace(p) \/ Collide(p)
    \/ StartClone(p) \/ FinishClone(p) \/ ReadPodfile(p) \/ Record(p)
    \/ Undo(p) \/ Wipe(p)

-----------------------------------------------------------------------------
(* shell and run, up to the session.                                       *)

Inspect(p) ==
    /\ ~(row = None /\ session = None)
    /\ Begin(p, "ensure")
    /\ ws' = [ws EXCEPT ![p] = row]
    /\ HarmIf(Meddling, "underfoot")
    /\ UNCHANGED <<row, disk, session, want>>

\* setupEphemeralFlow: the name must be free; the clone goes to a path of its own.
CheckName(p) ==
    /\ row = None /\ session = None
    /\ Begin(p, "clone")
    /\ UNCHANGED <<row, disk, session, ws, want, harmVars>>

CloneTemporary(p) ==
    /\ \/ Goto(p, "clone", "ensure") /\ tmp' = tmp \cup {p} /\ UNCHANGED memory
       \/ Return(p, "clone") /\ tmp' = tmp \ {p}
    /\ UNCHANGED <<row, dir, session, harmVars>>

-----------------------------------------------------------------------------
(* The session: Ensure and Run of spawn.                                   *)

\* Where a session that p provisions finds its Podfile and its files.
Mount(p) ==
    CASE p \in Runs -> p
      [] p \notin Runs /\ ws[p] # None -> "checkout"
      [] OTHER -> None

Available(mount) ==
    CASE mount = "checkout" -> dir # None /\ dir.cloned
      [] mount \in Runs -> mount \in tmp
      [] OTHER -> TRUE

\* The command goes on without a session: create rolls back what it inserted, the
\* others go through Disconnect.
GiveUp(p, from) ==
    IF p \in created
    THEN Goto(p, from, "undo") /\ UNCHANGED memory
    ELSE Ready(p, from)

\* refuseIfPreserved looks at the row as it was read.
RefusePreserved(p) ==
    /\ ws[p] # None
    /\ ws[p].preserved
    /\ GiveUp(p, "ensure")
    /\ UNCHANGED <<row, disk, session, harmVars>>

Admitted(p) == ws[p] # None => ~ws[p].preserved

Reattach(p) ==
    /\ Admitted(p)
    /\ Running
    /\ Ready(p, "ensure")
    /\ session' = [session EXCEPT !.shared = TRUE]
    /\ UNCHANGED <<row, disk, harmVars>>

\* Mutant: on_create runs in every new container.
ProvisionAnew(p) ==
    /\ Admitted(p)
    /\ ~Running
    /\ Available(Mount(p))
    /\ session' = [by |-> p, up |-> TRUE, shared |-> FALSE, mount |-> Mount(p)]
    /\ Goto(p, "ensure", "hook")
    /\ UNCHANGED <<row, disk, memory, harmVars>>

\* on_create runs in a new container of a run, or of a workspace that is not
\* initialized as far as p knows.
Provision(p) ==
    /\ Admitted(p)
    /\ ~Running
    /\ Available(Mount(p))
    /\ session' = [by |-> p, up |-> TRUE, shared |-> FALSE, mount |-> Mount(p)]
    /\ IF p \in Runs \/ (ws[p] # None /\ ~ws[p].initialized)
       THEN Goto(p, "ensure", "hook") /\ UNCHANGED memory
       ELSE Ready(p, "ensure")
    /\ UNCHANGED <<row, disk, harmVars>>

\* An image, a service or the container fails; a stale row has been deleted.
ProvisionFails(p) ==
    /\ Admitted(p)
    /\ GiveUp(p, "ensure")
    /\ session' = IF Running THEN session ELSE None
    /\ UNCHANGED <<row, disk, harmVars>>

\* on_create does its work, in whatever container has the name now.
HookSucceeds(p) ==
    /\ Running
    /\ IF p \in Runs
       THEN Ready(p, "hook")
       ELSE Goto(p, "hook", "mark") /\ UNCHANGED memory
    /\ dir' = IF session.mount = "checkout" /\ dir # None
              THEN [dir EXCEPT !.ready = dir.branch] ELSE dir
    /\ UNCHANGED <<row, tmp, session, harmVars>>

HookFails(p) ==
    /\ Goto(p, "hook", IF p \in Runs THEN "unwind" ELSE "preserve")
    /\ UNCHANGED <<row, disk, session, memory, harmVars>>

MarkInitialized(p) ==
    /\ Goto(p, "mark", "capture")
    /\ Update([row EXCEPT !.initialized = TRUE])
    /\ UNCHANGED <<disk, session, memory, harmVars>>

\* The UPDATE fails: cleanupFailedSession, and create takes back what it inserted.
MarkFails(p) ==
    /\ GiveUp(p, "mark")
    /\ session' = None
    /\ Harm(IF \E q \in Procs \ {p} : AtWork(q) THEN "stop" ELSE "failure")
    /\ UNCHANGED <<row, disk>>

\* captureWorkspaceHead: its failures are logged only.
CaptureHead(p) ==
    /\ Ready(p, "capture")
    /\ \/ dir # None /\ Update([row EXCEPT !.head = dir.branch])
       \/ UNCHANGED row
    /\ UNCHANGED <<disk, session, harmVars>>

Preserve(p) ==
    /\ Goto(p, "preserve", "unwind")
    /\ Update([row EXCEPT !.preserved = TRUE])
    /\ UNCHANGED <<disk, session, memory, harmVars>>

\* cleanupFailedSession: whoever created the session.  The workspace stays.
Unwind(p) ==
    /\ Ready(p, "unwind")
    /\ session' = None
    /\ Interrupts(Procs \ {p})
    /\ tmp' = tmp \ {p}
    /\ UNCHANGED <<row, dir>>

\* Disconnect: a session that others have attached to may stay; without a row, it
\* returns before the temporary clone is removed.
Leave(p) ==
    /\ Return(p, "attached")
    /\ \/ /\ session # None /\ p \in Runs => session.shared
          /\ UNCHANGED <<session, tmp, harmVars>>
       \/ /\ session # None
          /\ session' = None
          /\ Interrupts(Procs)
          /\ tmp' = tmp \ {p}
    /\ UNCHANGED <<row, dir>>

UseSession(p) ==
    \/ RefusePreserved(p) \/ Reattach(p) \/ Provision(p) \/ ProvisionFails(p)
    \/ HookSucceeds(p) \/ HookFails(p) \/ MarkInitialized(p) \/ MarkFails(p)
    \/ CaptureHead(p) \/ Preserve(p) \/ Unwind(p)

-----------------------------------------------------------------------------
(* switch-branch and rm.                                                   *)

\* Mutant: the container is not looked for.
LookUpRow(p, next) ==
    /\ row # None
    /\ Begin(p, next)
    /\ UNCHANGED <<row, disk, session, ws, harmVars>>

\* Both refuse while the session's container is up; rm --force does not.
LookUp(p, next) ==
    /\ row # None
    /\ Running => next = "destroy"
    /\ Begin(p, next)
    /\ session' = IF Running THEN session ELSE None
    /\ HarmIf(InUse(p), "underfoot")
    /\ UNCHANGED <<row, disk, ws>>

\* A dirty checkout, or one that git cannot switch, stays as it is.
SwitchBranch(p) ==
    /\ \/ /\ dir # None
          /\ Goto(p, "git", "branch")
          /\ dir' = [dir EXCEPT !.branch = want[p], !.ready = None]
          /\ HarmIf(InUse(p), "underfoot")
          /\ UNCHANGED memory
       \/ /\ Return(p, "git")
          /\ UNCHANGED <<dir, harmVars>>
    /\ UNCHANGED <<row, tmp, session>>

UpdateBranch(p) ==
    /\ Goto(p, "branch", "reset")
    /\ Update([row EXCEPT !.branch = want[p]])
    /\ UNCHANGED <<disk, session, memory, harmVars>>

\* Mutant: the new branch counts as initialized.
ResetNothing(p) ==
    /\ Goto(p, "reset", "clear")
    /\ UNCHANGED <<row, disk, session, memory, harmVars>>

ResetInitialized(p) ==
    /\ Goto(p, "reset", "clear")
    /\ Update([row EXCEPT !.initialized = FALSE])
    /\ UNCHANGED <<disk, session, memory, harmVars>>

ClearHead(p) ==
    /\ Return(p, "clear")
    /\ Update([row EXCEPT !.head = None])
    /\ UNCHANGED <<disk, session, harmVars>>

Switch(p) ==
    \/ LookUp(p, "git") /\ \E b \in Branches : want' = [want EXCEPT ![p] = b]
    \/ SwitchBranch(p) \/ UpdateBranch(p) \/ ResetInitialized(p)
    \/ ClearHead(p)

Destroy(p) ==
    /\ Goto(p, "destroy", "rmdir")
    /\ session' = None
    /\ Interrupts(Procs)
    /\ UNCHANGED <<row, disk, memory>>

RemoveCheckout(p) ==
    /\ Goto(p, "rmdir", "rmrow")
    /\ dir' = None
    /\ HarmIf(InUse(p), "underfoot")
    /\ UNCHANGED <<row, tmp, session, memory>>

\* os.RemoveAll fails, or is killed, before or after it has removed some files.
RemovalFails(p) ==
    /\ dir # None
    /\ Return(p, "rmdir")
    /\ \E whole \in {FALSE, dir.cloned} : dir' = [dir EXCEPT !.cloned = whole]
    /\ Harm(IF InUse(p) THEN "underfoot" ELSE "torn")
    /\ UNCHANGED <<row, tmp, session>>

DeleteWorkspace(p) ==
    /\ Return(p, "rmrow")
    /\ row' = None
    /\ UNCHANGED <<disk, session, harmVars>>

Remove(p) ==
    \/ (LookUp(p, "rmdir") \/ LookUp(p, "destroy")) /\ UNCHANGED want
    \/ Destroy(p) \/ RemoveCheckout(p) \/ RemovalFails(p) \/ DeleteWorkspace(p)

-----------------------------------------------------------------------------
Works(p) ==
    \/ p \in Creators /\ (Create(p) \/ UseSession(p))
    \/ p \in Shells /\ (Inspect(p) \/ UseSession(p))
    \/ p \in Runs /\ (CheckName(p) \/ CloneTemporary(p) \/ UseSession(p))
    \/ p \in Switchers /\ Switch(p)
    \/ p \in Removers /\ Remove(p)

Next ==
    \/ \E p \in Procs : Works(p) \/ Kill(p)
    \/ \E p \in Shells \cup Runs : Leave(p)
    \/ SessionEnds

Spec == Init /\ [][Next]_vars

-----------------------------------------------------------------------------
(* Properties.                                                             *)

Spared(kinds) == harm \cap kinds = {}

\* A workspace has its checkout, complete and on the branch that its row names, and no
\* checkout is left without a row: a create that fails at any step, and rm, take it with
\* them, and a command that is killed leaves the row its checkout.  Except while
\* switch-branch or rm is between its steps on the two, or once it was killed there or
\* failed to remove the files ("torn"); after a kill, a checkout may be left; and unless
\* a roll-back, rm or switch-branch has acted on what another command was using
\* ("clobber", "underfoot": OldMachineKept and RunningUntouched are what goes wrong then).
CheckoutOfRow ==
    Spared({"torn", "clobber", "underfoot"}) =>
        /\ row # None =>
              \/ \E p \in Busy : pc[p] \in {"branch", "rmrow"}
              \/ dir # None /\ dir.cloned /\ dir.branch = row.branch
        /\ dir # None /\ row = None /\ Spared({"kill"}) =>
              \E p \in Busy : pc[p] \in {"cloning", "podfile", "record", "wipe"}

\* The row says initialized only if on_create succeeded in this checkout on this
\* branch, and knows HEAD of no other branch, whatever is killed or fails before
\* on_create, in it and after it.  Except within switch-branch and rm, after one of
\* them was killed there ("torn": SwitchedReruns is what goes wrong then), and after a
\* command was acted upon by another, or its session was ended, while it was at work.
InitializedIsReady ==
    /\ row # None
    /\ row.initialized
    /\ Spared({"torn", "clobber", "underfoot", "stop"})
    /\ ~ \E p \in Busy : pc[p] \in Tearing
    => dir.ready = row.branch /\ row.head \in {None, row.branch}

\* A session's files are not taken away while its container is up: a temporary clone by
\* nobody, whichever commands overlap and are killed; a checkout neither by the rm nor by
\* the roll-back that began when nothing used it.  One that began before the session, or
\* overlaps the command that uses it, takes the files ("clobber", "underfoot").
FilesOfSession ==
    Running /\ (session.mount \in Runs \/ Spared({"clobber", "underfoot"}))
    => Available(session.mount)

\* on_create does not run again in a checkout that it has made ready, as long as nothing
\* is killed or fails at the UPDATE that says so, no session is ended while a command is
\* at work in it, and no command acts on what another is using.
OnCreateOnce ==
    [][\A p \in Creators \cup Shells :
         pc[p] = "ensure" /\ pc'[p] = "hook" /\ harm = {}
            /\ dir # None
         => dir.ready # dir.branch]_vars

-----------------------------------------------------------------------------
(* What the specification of branch workspaces says, and overlapping or    *)
(* interrupted commands do not keep.                                       *)

\* A create of a name that another create has recorded meanwhile fails and does not
\* change that machine: its checkout and its row stay.
OldMachineKept ==
    [][\A p \in Creators :
         /\ pc[p] \in {"clone", "cloning", "podfile", "record", "wipe"}
         /\ pc'[p] # pc[p]
         /\ row # None /\ row.by # p
         => UNCHANGED <<row, dir>>]_vars

\* switch-branch does not touch the checkout of a machine that is running.
RunningUntouched ==
    [][\A p \in Switchers :
         pc[p] = "git" /\ pc'[p] # "git" /\ Running => UNCHANGED dir]_vars

\* After switch-branch, the next create or shell runs on_create: none provisions the
\* workspace without, unless on_create has succeeded on the branch that is checked out.
SwitchedReruns ==
    [][\A p \in Creators \cup Shells :
         /\ pc[p] = "ensure" /\ ~Running
         /\ Running' /\ session'.by = p /\ session'.mount = "checkout"
         /\ pc'[p] # "hook"
         => dir.ready = dir.branch]_vars

=============================================================================
