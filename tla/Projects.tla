------------------------------- MODULE Projects -------------------------------
(***************************************************************************)
(* The project registry: projects.yaml, the clones of the repositories and *)
(* the images built from their Podfiles, and the commands add-project,     *)
(* update-project and remove-project, which load the whole file, work for  *)
(* minutes, and write the whole file back, without a lock.                 *)
(*                                                                         *)
(* A Podfile stands for its bytes: it is also the hash of an entry and the *)
(* tag of an image (ComputeTag), the bytes being all that either depends   *)
(* on.  A name stands for its clone, localProjectsRoot()/name.  The file   *)
(* is replaced by a rename, so nobody reads half of it.                    *)
(***************************************************************************)
EXTENDS Naturals, FiniteSets

CONSTANTS
    Adders,     \* podspawn add-project
    Updaters,   \* podspawn update-project
    Removers,   \* podspawn remove-project
    Names,
    Podfiles,   \* what the repositories may contain
    Overlap,    \* how many commands may be at work at the same time
    Harms,      \* how many kills, failures and collisions there may be
    None

Procs == Adders \cup Updaters \cup Removers

ASSUME ProjectsAssumption ==
    /\ Overlap \in Nat
    /\ Harms \in Nat
    /\ Adders \cap Updaters = {} /\ Adders \cap Removers = {} /\ Updaters \cap Removers = {}

Clone == [by : Adders, podfile : Podfiles, whole : BOOLEAN]

ASSUME NoneAssumption == None \notin Names \cup Podfiles \cup Clone

Entries == [Names -> Podfiles \cup {None}]

VARIABLES
    file,       \* projects.yaml: the hash of each registered project
    clones,     \* what is in the directory of each project, or None
    images,     \* the images of projects in Docker
    pc,         \* next call of each process
    name,       \* its argument, or None
    loaded,     \* the file as it has read it, or None
    read,       \* the Podfile as it has read it, or None
    harm,       \* history: what kills, failures and collisions there were
    left        \* how many there may still be

memory == <<name, loaded, read>>
harmVars == <<harm, left>>
vars == <<file, clones, images, pc, memory, harmVars>>

TypeOK ==
    /\ file \in Entries
    /\ clones \in [Names -> Clone \cup {None}]
    /\ images \subseteq Names \X Podfiles
    /\ pc \in [Procs -> {"idle", "clone", "cloning", "pull", "read", "build", "save",
                         "wipe", "rmclone"}]
    /\ name \in [Procs -> Names \cup {None}]
    /\ loaded \in [Procs -> Entries \cup {None}]
    /\ read \in [Procs -> Podfiles \cup {None}]
    /\ harm \subseteq {"kill", "failure", "lost", "moved", "clobber"}
    /\ left \in 0..Harms

Init ==
    /\ file = [n \in Names |-> None]
    /\ clones = [n \in Names |-> None]
    /\ images = {}
    /\ pc = [p \in Procs |-> "idle"]
    /\ name = [p \in Procs |-> None]
    /\ loaded = [p \in Procs |-> None]
    /\ read = [p \in Procs |-> None]
    /\ harm = {}
    /\ left = Harms

Busy == {p \in Procs : pc[p] # "idle"}
On(n) == {p \in Busy : name[p] = n}

Goto(p, from, to) ==
    /\ pc[p] = from
    /\ pc' = [pc EXCEPT ![p] = to]

Return(p, from) ==
    /\ Goto(p, from, "idle")
    /\ name' = [name EXCEPT ![p] = None]
    /\ loaded' = [loaded EXCEPT ![p] = None]
    /\ read' = [read EXCEPT ![p] = None]

Harm(kind) ==
    /\ left > 0
    /\ left' = left - 1
    /\ harm' = harm \cup {kind}

HarmIf(condition, kind) == IF condition THEN Harm(kind) ELSE UNCHANGED harmVars

Whole(n) == clones[n] # None /\ clones[n].whole

-----------------------------------------------------------------------------
Kill(p) ==
    /\ p \in Busy
    /\ Harm("kill")
    /\ Return(p, pc[p])
    /\ UNCHANGED <<file, clones, images>>

\* LoadProjects: add-project goes on if the name is free, the others if it is not.
Load(p, n) ==
    /\ Cardinality(Busy) < Overlap
    /\ (p \in Adders) <=> (file[n] = None)
    /\ Goto(p, "idle", CASE p \in Adders -> "clone"
                         [] p \in Updaters -> "pull"
                         [] p \in Removers -> "save")
    /\ name' = [name EXCEPT ![p] = n]
    /\ loaded' = [loaded EXCEPT ![p] = file]
    /\ UNCHANGED <<file, clones, images, read, harmVars>>

\* SaveProjects: what the command makes of the file that it loaded.  When it fails,
\* the command has failed: the clone of an add-project stays.
Save(p) ==
    LET after == [loaded[p] EXCEPT ![name[p]] = read[p]] IN
    \/ /\ file' = after
       /\ HarmIf(file # loaded[p], "lost")
       /\ IF p \in Removers
          THEN Goto(p, "save", "rmclone") /\ UNCHANGED memory
          ELSE Return(p, "save")
       /\ UNCHANGED <<clones, images>>
    \/ /\ Harm("failure")
       /\ Return(p, "save")
       /\ UNCHANGED <<file, clones, images>>

\* Mutant: the image is built later.
BuildLater(p) ==
    /\ Goto(p, "build", "save")
    /\ UNCHANGED <<file, clones, images, memory, harmVars>>

\* Mutant: a failed update-project tidies up as add-project does.
BuildOrWipe(p) ==
    \/ /\ Goto(p, "build", "save")
       /\ images' = images \cup {<<name[p], read[p]>>}
       /\ UNCHANGED <<file, clones, memory, harmVars>>
    \/ /\ <<name[p], read[p]>> \notin images
       /\ Harm("failure")
       /\ Return(p, "build")
       /\ clones' = [clones EXCEPT ![name[p]] = None]
       /\ UNCHANGED <<file, images>>

\* BuildImageFromPodfile: an image of that tag is used as it is.
Build(p) ==
    \/ /\ Goto(p, "build", "save")
       /\ images' = images \cup {<<name[p], read[p]>>}
       /\ UNCHANGED <<file, clones, memory, harmVars>>
    \/ /\ <<name[p], read[p]>> \notin images
       /\ Harm("failure")
       /\ IF p \in Adders
          THEN Goto(p, "build", "wipe") /\ UNCHANGED memory
          ELSE Return(p, "build")
       /\ UNCHANGED <<file, clones, images>>

-----------------------------------------------------------------------------
(* add-project.                                                            *)

\* git refuses a directory that is not empty.
StartClone(p) ==
    LET n == name[p] IN
    /\ IF clones[n] # None
       THEN Goto(p, "clone", "wipe") /\ UNCHANGED clones
       ELSE /\ Goto(p, "clone", "cloning")
            /\ \E f \in Podfiles :
                 clones' = [clones EXCEPT ![n] = [by |-> p, podfile |-> f, whole |-> FALSE]]
    /\ UNCHANGED <<file, images, memory, harmVars>>

Mine(p) == clones[name[p]] # None /\ clones[name[p]].by = p

FinishClone(p) ==
    /\ \/ /\ Mine(p)
          /\ Goto(p, "cloning", "read")
          /\ clones' = [clones EXCEPT ![name[p]].whole = TRUE]
       \/ /\ Goto(p, "cloning", "wipe")
          /\ clones' = IF Mine(p) THEN [clones EXCEPT ![name[p]] = None] ELSE clones
    /\ UNCHANGED <<file, images, memory, harmVars>>

\* Mutant: the hash is taken of the clone and not of its Podfile.
ReadClone(p) ==
    /\ Whole(name[p])
    /\ Goto(p, "read", "build")
    /\ read' = [read EXCEPT ![p] = clones[name[p]]]
    /\ UNCHANGED <<file, clones, images, name, loaded, harmVars>>

\* FindAndRead, Parse, and connecting to Docker.
ReadNew(p) ==
    /\ \/ /\ Whole(name[p])
          /\ Goto(p, "read", "build")
          /\ read' = [read EXCEPT ![p] = clones[name[p]].podfile]
       \/ /\ Goto(p, "read", "wipe")
          /\ UNCHANGED read
    /\ UNCHANGED <<file, clones, images, name, loaded, harmVars>>

\* os.RemoveAll(localPath), whoever cloned into it.
Wipe(p) ==
    LET n == name[p] IN
    /\ Return(p, "wipe")
    /\ clones' = [clones EXCEPT ![n] = None]
    /\ HarmIf(clones[n] # None /\ (file[n] # loaded[p][n] \/ On(n) # {p}), "clobber")
    /\ UNCHANGED <<file, images>>

Add(p) ==
    \/ \E n \in Names : Load(p, n)
    \/ /\ p \in Busy
       /\ \/ StartClone(p) \/ FinishClone(p) \/ ReadNew(p) \/ Build(p)
          \/ Save(p) \/ Wipe(p)

-----------------------------------------------------------------------------
(* update-project.                                                         *)

Pull(p) ==
    LET n == name[p] IN
    \/ /\ Whole(n)
       /\ Goto(p, "pull", "read")
       /\ \E f \in Podfiles : clones' = [clones EXCEPT ![n].podfile = f]
       /\ HarmIf(\E q \in On(n) : read[q] # None, "moved")
       /\ UNCHANGED <<file, images, memory>>
    \/ /\ Return(p, "pull")
       /\ UNCHANGED <<file, clones, images, harmVars>>

\* Mutant: nothing is done for a Podfile that has an image.
ReadUnlessBuilt(p) ==
    LET n == name[p] IN
    \/ /\ Whole(n)
       /\ <<n, clones[n].podfile>> \notin images
       /\ Goto(p, "read", "build")
       /\ read' = [read EXCEPT ![p] = clones[n].podfile]
       /\ UNCHANGED <<file, clones, images, name, loaded, harmVars>>
    \/ /\ Whole(n)
       /\ <<n, clones[n].podfile>> \in images
       /\ Return(p, "read")
       /\ HarmIf(file # loaded[p], "lost")
       /\ UNCHANGED <<file, clones, images>>

\* Nothing is rebuilt for the Podfile whose hash the entry has.
ReadAgain(p) ==
    LET n == name[p] IN
    \/ /\ Whole(n)
       /\ clones[n].podfile # loaded[p][n]
       /\ Goto(p, "read", "build")
       /\ read' = [read EXCEPT ![p] = clones[n].podfile]
       /\ UNCHANGED <<file, clones, images, name, loaded, harmVars>>
    \/ /\ Whole(n)
       /\ clones[n].podfile = loaded[p][n]
       /\ Return(p, "read")
       /\ HarmIf(file # loaded[p], "lost")
       /\ UNCHANGED <<file, clones, images>>
    \/ /\ Harm("failure")
       /\ Return(p, "read")
       /\ UNCHANGED <<file, clones, images>>

Update(p) ==
    \/ \E n \in Names : Load(p, n)
    \/ p \in Busy /\ (Pull(p) \/ ReadAgain(p) \/ Build(p) \/ Save(p))

-----------------------------------------------------------------------------
(* remove-project: the entry first, then the clone.                        *)

\* A directory that cannot be removed is a warning.
RemoveClone(p) ==
    LET n == name[p] IN
    /\ Return(p, "rmclone")
    /\ \/ /\ clones' = [clones EXCEPT ![n] = None]
          /\ HarmIf(clones[n] # None /\ (file[n] # None \/ On(n) # {p}), "clobber")
       \/ UNCHANGED <<clones, harmVars>>
    /\ UNCHANGED <<file, images>>

Remove(p) ==
    \/ \E n \in Names : Load(p, n)
    \/ p \in Busy /\ (Save(p) \/ RemoveClone(p))

-----------------------------------------------------------------------------
Works(p) ==
    \/ p \in Adders /\ Add(p)
    \/ p \in Updaters /\ Update(p)
    \/ p \in Removers /\ Remove(p)

Next == \E p \in Procs : Works(p) \/ Kill(p)

Spec == Init /\ [][Next]_vars

-----------------------------------------------------------------------------
(* Properties.                                                             *)

Spared(kinds) == harm \cap kinds = {}

\* The image that an entry names has been built, whatever is killed, fails or
\* overlaps: it is built before the entry is written, and never after.
ImageOfEntry == \A n \in Names : file[n] # None => <<n, file[n]>> \in images

\* A registered project has its clone, complete: a command that fails or is killed takes
\* none away, and remove-project only the one whose entry is gone.  This is so as long as
\* no command overlaps another in one of two ways: saving over what another has saved, and
\* removing a clone that another works on or has registered.
CloneOfEntry ==
    Spared({"lost", "clobber"}) => \A n \in Names : file[n] # None => Whole(n)

\* p returns without an error.
Done(p) ==
    /\ pc[p] \in {"read", "save"}
    /\ pc'[p] = "idle"
    /\ left' = left \/ file' # file

\* An add-project or update-project that returns without an error leaves the entry of its
\* project describing the Podfile in its clone, whatever earlier commands failed or were
\* killed between their pull and their entry, and whatever was built for other Podfiles
\* meanwhile.  Excepted are an overlapping pull that replaces what it has read, and an
\* overlapping command that removes the clone.
EntryIsCurrent ==
    [][\A p \in Adders \cup Updaters :
         Done(p) /\ Spared({"moved", "clobber"})' =>
             file'[name[p]] = clones'[name[p]].podfile]_vars

\* A project is registered with its Podfile (README.md): an entry has its clone, however
\* many add-projects of one name there are.
RegisteredWithPodfile == \A n \in Names : file[n] # None => Whole(n)

\* update-project registers nothing: "not registered; use add-project first".
OnlyAddRegisters ==
    [][\A n \in Names : file[n] = None /\ file'[n] # None =>
         \E p \in Adders : pc[p] = "save" /\ name[p] = n]_vars

=============================================================================
