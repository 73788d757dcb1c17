---------------------------- MODULE ProjectsProofs ----------------------------
(***************************************************************************)
(* Proofs about Projects, for every number of commands, projects, Podfiles *)
(* and overlapping commands.                                               *)
(*                                                                         *)
(* A command writes back the whole file that it loaded minutes before, so  *)
(* what an entry says depends on what commands have read and built since:  *)
(* of images always (Knowledge, LoadedIsBuilt), of clones as long as none  *)
(* has removed a clone that another uses (ClonesInvariant).                *)
(***************************************************************************)
EXTENDS Projects, TLAPS

Calls == {"idle", "clone", "cloning", "pull", "read", "build", "save", "wipe", "rmclone"}

Kinds == {"kill", "failure", "lost", "moved", "clobber"}

\* A clone stays one when it is finished or pulled into.
LEMMA ClonesStayTyped ==
    /\ \A p \in Adders, f \in Podfiles : [by |-> p, podfile |-> f, whole |-> FALSE] \in Clone
    /\ \A c \in Clone : [c EXCEPT !.whole = TRUE] \in Clone
    /\ \A c \in Clone, f \in Podfiles : [c EXCEPT !.podfile = f] \in Clone
    /\ \A c \in Clone : c.podfile \in Podfiles
<1>1. \A p \in Adders, f \in Podfiles : [by |-> p, podfile |-> f, whole |-> FALSE] \in Clone
    BY DEF Clone
<1>2. \A c \in Clone : [c EXCEPT !.whole = TRUE] \in Clone
    BY DEF Clone
<1>3. \A c \in Clone, f \in Podfiles : [c EXCEPT !.podfile = f] \in Clone
    BY DEF Clone
<1>4. \A c \in Clone : c.podfile \in Podfiles
    BY DEF Clone
<1>5. QED
    BY <1>1, <1>2, <1>3, <1>4

\* A harm that happens is one of those there are, and leaves fewer.
LEMMA HarmTyped ==
    ASSUME TypeOK, NEW kind \in Kinds, Harm(kind)
    PROVE  harm' \subseteq Kinds /\ left' \in 0..Harms
<1>1. left \in 0..Harms /\ left > 0 /\ left' = left - 1 /\ Harms \in Nat
    BY ProjectsAssumption DEF TypeOK, Harm
<1>2. left' \in 0..Harms
    BY ONLY <1>1
<1>3. harm \subseteq Kinds /\ harm' = harm \cup {kind}
    BY DEF TypeOK, Harm, Kinds
<1>4. QED
    BY <1>2, <1>3

-----------------------------------------------------------------------------
(* The inductive invariant: what a command at work knows.                  *)

\* It has a project and the file as it was; it builds what it has read; what it saves is
\* the removal of an entry, or an entry whose image it has built.
Knowledge ==
    \A p \in Procs :
        /\ pc[p] # "idle" => name[p] \in Names /\ loaded[p] \in Entries
        /\ pc[p] = "build" => read[p] \in Podfiles
        /\ pc[p] = "save" /\ p \notin Removers =>
              read[p] \in Podfiles /\ <<name[p], read[p]>> \in images
        /\ p \in Removers => read[p] = None

\* The images of the file that it has loaded are still there.
LoadedIsBuilt ==
    \A p \in Procs : pc[p] # "idle" =>
        \A n \in Names : loaded[p][n] # None => <<n, loaded[p][n]>> \in images

\* A step keeps what the commands know, however they overlap.
LEMMA KnowledgeKept ==
    ASSUME TypeOK, Knowledge, [Next]_vars
    PROVE  Knowledge'
<1> USE ProjectsAssumption, NoneAssumption, ClonesStayTyped DEF TypeOK, Knowledge, Procs,
       Whole, Goto, Return, HarmIf, memory, harmVars
<1> SUFFICES ASSUME Next PROVE Knowledge'
    BY DEF vars
<1>1. PICK p \in Procs : Works(p) \/ Kill(p)
    BY DEF Next
<1>2. CASE Kill(p)
    BY <1>2 DEF Kill, Busy
<1>3. CASE \E n \in Names : Load(p, n)
    BY <1>3 DEF Load, Busy
<1>4. CASE StartClone(p) /\ p \in Busy /\ p \in Adders
    BY <1>4 DEF StartClone, Busy
<1>5. CASE FinishClone(p) /\ p \in Busy /\ p \in Adders
    BY <1>5 DEF FinishClone, Busy
<1>6. CASE ReadNew(p) /\ p \in Busy /\ p \in Adders
    <2>1. name[p] \in Names /\ p \notin Removers
        BY <1>6 DEF Busy
    <2>2. CASE /\ Whole(name[p]) /\ Goto(p, "read", "build")
               /\ read' = [read EXCEPT ![p] = clones[name[p]].podfile]
        <3>1. clones[name[p]].podfile \in Podfiles
            BY <2>1, <2>2
        <3>2. UNCHANGED <<name, loaded, images>>
            BY <1>6 DEF ReadNew
        <3>3. QED
            BY <1>6, <2>1, <2>2, <3>1, <3>2 DEF Busy
    <2>3. CASE Goto(p, "read", "wipe") /\ UNCHANGED read
        BY <1>6, <2>3 DEF ReadNew, Busy
    <2>4. QED
        BY <1>6, <2>2, <2>3 DEF ReadNew
<1>7. CASE Build(p) /\ p \in Busy /\ p \notin Removers
    BY <1>7 DEF Build, Busy
<1>8. CASE Save(p) /\ p \in Busy
    BY <1>8 DEF Save, Busy
<1>9. CASE Wipe(p) /\ p \in Busy /\ p \in Adders
    BY <1>9 DEF Wipe, Busy
<1>10. CASE Pull(p) /\ p \in Busy /\ p \in Updaters
    BY <1>10 DEF Pull, Busy
<1>11. CASE ReadAgain(p) /\ p \in Busy /\ p \in Updaters
    <2>1. name[p] \in Names /\ p \notin Removers /\ UNCHANGED images
        BY <1>11 DEF ReadAgain, Busy
    <2>2. CASE /\ Whole(name[p]) /\ Goto(p, "read", "build")
               /\ read' = [read EXCEPT ![p] = clones[name[p]].podfile]
               /\ UNCHANGED <<name, loaded>>
        <3>1. clones[name[p]].podfile \in Podfiles
            BY <2>1, <2>2
        <3>2. QED
            BY <1>11, <2>1, <2>2, <3>1 DEF Busy
    <2>3. CASE Return(p, "read")
        BY <2>1, <2>3
    <2>4. QED
        BY <1>11, <2>2, <2>3 DEF ReadAgain
<1>12. CASE RemoveClone(p) /\ p \in Busy /\ p \in Removers
    BY <1>12 DEF RemoveClone, Busy
<1>13. QED
    <2>1. (p \in Adders => p \notin Removers) /\ (p \in Updaters => p \notin Removers)
        BY ONLY ProjectsAssumption
    <2>2. QED
        BY ONLY <2>1, <1>1, <1>2, <1>3, <1>4, <1>5, <1>6, <1>7, <1>8, <1>9, <1>10, <1>11,
           <1>12 DEF Works, Add, Update, Remove, Procs

\* A step keeps the types.
LEMMA TypeKept ==
    ASSUME TypeOK, Knowledge, [Next]_vars
    PROVE  TypeOK'
<1> USE ProjectsAssumption, NoneAssumption, ClonesStayTyped, HarmTyped DEF TypeOK,
       Knowledge, Kinds, Procs, Whole, Goto, Return, HarmIf, memory, harmVars
<1> SUFFICES ASSUME Next PROVE TypeOK'
    BY DEF vars
<1>1. PICK p \in Procs : Works(p) \/ Kill(p)
    BY DEF Next
<1>2. CASE Kill(p)
    BY <1>2 DEF Kill, Busy
<1>3. CASE \E n \in Names : Load(p, n)
    BY <1>3 DEF Load, Busy
<1>4. CASE StartClone(p) /\ p \in Busy /\ p \in Adders
    BY <1>4 DEF StartClone, Busy
<1>5. CASE FinishClone(p) /\ p \in Busy /\ p \in Adders
    <2> USE <1>5 DEF Busy, Entries
    <2>1. name[p] \in Names /\ loaded[p] \in Entries
        OBVIOUS
    <2>2. harm' \subseteq Kinds /\ left' \in 0..Harms
        BY DEF FinishClone
    <2>3. pc' \in [Procs -> Calls]
        BY DEF FinishClone, Calls
    <2>4. name' \in [Procs -> Names \cup {None}] /\ loaded' \in [Procs -> Entries \cup {None}]
        BY ONLY TypeOK, <1>5 DEF TypeOK, FinishClone, Return, memory
    <2>5. read' \in [Procs -> Podfiles \cup {None}]
        BY <2>1 DEF FinishClone
    <2>6. /\ file' \in Entries /\ images' \subseteq Names \X Podfiles
          /\ clones' \in [Names -> Clone \cup {None}]
        <3>1. UNCHANGED <<file, images>>
            BY DEF FinishClone
        <3>2. \/ clones' = clones
              \/ clones' = [clones EXCEPT ![name[p]] = None]
              \/ /\ clones[name[p]] # None
                 /\ clones' = [clones EXCEPT ![name[p]] = [@ EXCEPT !.whole = TRUE]]
            BY DEF FinishClone, Mine
        <3>3. clones[name[p]] # None => [clones[name[p]] EXCEPT !.whole = TRUE] \in Clone
            BY <2>1
        <3>4. clones' \in [Names -> Clone \cup {None}]
            BY ONLY <2>1, <3>2, <3>3, TypeOK DEF TypeOK
        <3>5. QED
            BY <3>1, <3>4
    <2>9. QED
        BY ONLY <2>2, <2>3, <2>4, <2>5, <2>6 DEF TypeOK, Kinds, Calls
<1>6. CASE ReadNew(p) /\ p \in Busy /\ p \in Adders
    <2> USE <1>6 DEF Busy, Entries
    <2>1. name[p] \in Names /\ loaded[p] \in Entries
        OBVIOUS
    <2>2. harm' \subseteq Kinds /\ left' \in 0..Harms
        BY DEF ReadNew
    <2>3. pc' \in [Procs -> Calls]
        BY DEF ReadNew, Calls
    <2>4. name' \in [Procs -> Names \cup {None}] /\ loaded' \in [Procs -> Entries \cup {None}]
        BY ONLY TypeOK, <1>6 DEF TypeOK, ReadNew, Return, memory
    <2>5. read' \in [Procs -> Podfiles \cup {None}]
        BY <2>1 DEF ReadNew
    <2>6. /\ file' \in Entries /\ images' \subseteq Names \X Podfiles
          /\ clones' \in [Names -> Clone \cup {None}]
        BY <2>1 DEF ReadNew
    <2>9. QED
        BY ONLY <2>2, <2>3, <2>4, <2>5, <2>6 DEF TypeOK, Kinds, Calls
<1>7. CASE Build(p) /\ p \in Busy /\ p \notin Removers
    BY <1>7 DEF Build, Busy
<1>8. CASE Save(p) /\ p \in Busy
    <2> USE <1>8 DEF Busy, Entries
    <2>1. name[p] \in Names /\ loaded[p] \in Entries
        OBVIOUS
    <2>2. harm' \subseteq Kinds /\ left' \in 0..Harms
        BY DEF Save
    <2>3. pc' \in [Procs -> Calls]
        BY DEF Save, Calls
    <2>4. name' \in [Procs -> Names \cup {None}] /\ loaded' \in [Procs -> Entries \cup {None}]
        BY ONLY TypeOK, <1>8 DEF TypeOK, Save, Return, memory
    <2>5. read' \in [Procs -> Podfiles \cup {None}]
        BY <2>1 DEF Save
    <2>6. /\ file' \in Entries /\ images' \subseteq Names \X Podfiles
          /\ clones' \in [Names -> Clone \cup {None}]
        BY <2>1 DEF Save
    <2>9. QED
        BY ONLY <2>2, <2>3, <2>4, <2>5, <2>6 DEF TypeOK, Kinds, Calls
<1>9. CASE Wipe(p) /\ p \in Busy /\ p \in Adders
    BY <1>9 DEF Wipe, Busy
<1>10. CASE Pull(p) /\ p \in Busy /\ p \in Updaters
    BY <1>10 DEF Pull, Busy
<1>11. CASE ReadAgain(p) /\ p \in Busy /\ p \in Updaters
    <2> USE <1>11 DEF Busy, Entries
    <2>1. name[p] \in Names /\ loaded[p] \in Entries
        OBVIOUS
    <2>2. harm' \subseteq Kinds /\ left' \in 0..Harms
        BY DEF ReadAgain
    <2>3. pc' \in [Procs -> Calls]
        BY DEF ReadAgain, Calls
    <2>4. name' \in [Procs -> Names \cup {None}] /\ loaded' \in [Procs -> Entries \cup {None}]
        BY ONLY TypeOK, <1>11 DEF TypeOK, ReadAgain, Return, memory
    <2>5. read' \in [Procs -> Podfiles \cup {None}]
        BY <2>1 DEF ReadAgain
    <2>6. /\ file' \in Entries /\ images' \subseteq Names \X Podfiles
          /\ clones' \in [Names -> Clone \cup {None}]
        BY <2>1 DEF ReadAgain
    <2>9. QED
        BY ONLY <2>2, <2>3, <2>4, <2>5, <2>6 DEF TypeOK, Kinds, Calls
<1>12. CASE RemoveClone(p) /\ p \in Busy /\ p \in Removers
    BY <1>12 DEF RemoveClone, Busy
<1>13. QED
    <2>1. (p \in Adders => p \notin Removers) /\ (p \in Updaters => p \notin Removers)
        BY ONLY ProjectsAssumption
    <2>2. QED
        BY ONLY <2>1, <1>1, <1>2, <1>3, <1>4, <1>5, <1>6, <1>7, <1>8, <1>9, <1>10, <1>11,
           <1>12 DEF Works, Add, Update, Remove, Procs

\* A step keeps the images that the file, or a copy of it that a command works on, names.
LEMMA BuiltKept ==
    ASSUME TypeOK, Knowledge, LoadedIsBuilt, ImageOfEntry, [Next]_vars
    PROVE  (LoadedIsBuilt /\ ImageOfEntry)'
<1> USE NoneAssumption DEF TypeOK, Entries, Knowledge, LoadedIsBuilt, ImageOfEntry, Procs,
       Goto, Return, HarmIf, memory, harmVars
<1> SUFFICES ASSUME Next PROVE (LoadedIsBuilt /\ ImageOfEntry)'
    BY DEF vars
<1>1. PICK p \in Procs : Works(p) \/ Kill(p)
    BY DEF Next
<1>2. CASE Kill(p)
    BY <1>2 DEF Kill, Busy
<1>3. CASE \E n \in Names : Load(p, n)
    BY <1>3 DEF Load, Busy
<1>4. CASE StartClone(p) /\ p \in Busy /\ p \in Adders
    BY <1>4 DEF StartClone, Busy
<1>5. CASE FinishClone(p) /\ p \in Busy /\ p \in Adders
    BY <1>5 DEF FinishClone, Busy
<1>6. CASE ReadNew(p) /\ p \in Busy /\ p \in Adders
    BY <1>6 DEF ReadNew, Busy
<1>7. CASE Build(p) /\ p \in Busy /\ p \notin Removers
    BY <1>7 DEF Build, Busy
<1>8. CASE Save(p) /\ p \in Busy
    <2>1. /\ name[p] \in Names /\ loaded[p] \in Entries /\ UNCHANGED images
          /\ pc[p] = "save"
          /\ \A n \in Names : loaded[p][n] # None => <<n, loaded[p][n]>> \in images
          /\ read[p] = None \/ <<name[p], read[p]>> \in images
        BY <1>8 DEF Save, Busy
    <2>2. ImageOfEntry'
        <3>1. CASE UNCHANGED file
            BY <2>1, <3>1
        <3>2. CASE file' = [loaded[p] EXCEPT ![name[p]] = read[p]]
            BY ONLY <2>1, <3>2 DEF ImageOfEntry, Entries
        <3>3. QED
            BY <1>8, <3>1, <3>2 DEF Save
    <2>3. LoadedIsBuilt'
        <3>1. UNCHANGED loaded \/ loaded' = [loaded EXCEPT ![p] = None]
            BY <1>8 DEF Save
        <3>2. \A q \in Procs : pc'[q] # "idle" => pc[q] # "idle" /\ loaded'[q] = loaded[q]
            BY <1>8 DEF Save
        <3>3. QED
            BY ONLY <2>1, <3>2, LoadedIsBuilt DEF LoadedIsBuilt
    <2>4. QED
        BY <2>2, <2>3
<1>9. CASE Wipe(p) /\ p \in Busy /\ p \in Adders
    BY <1>9 DEF Wipe, Busy
<1>10. CASE Pull(p) /\ p \in Busy /\ p \in Updaters
    BY <1>10 DEF Pull, Busy
<1>11. CASE ReadAgain(p) /\ p \in Busy /\ p \in Updaters
    BY <1>11 DEF ReadAgain, Busy
<1>12. CASE RemoveClone(p) /\ p \in Busy /\ p \in Removers
    BY <1>12 DEF RemoveClone, Busy
<1>13. QED
    <2>1. (p \in Adders => p \notin Removers) /\ (p \in Updaters => p \notin Removers)
        BY ONLY ProjectsAssumption
    <2>2. QED
        BY ONLY <2>1, <1>1, <1>2, <1>3, <1>4, <1>5, <1>6, <1>7, <1>8, <1>9, <1>10, <1>11,
           <1>12 DEF Works, Add, Update, Remove, Procs

-----------------------------------------------------------------------------
(* The theorems.                                                           *)

\* No command is at work in the beginning.
LEMMA InitialState == Init => TypeOK /\ Knowledge /\ LoadedIsBuilt /\ ImageOfEntry
<1> SUFFICES ASSUME Init PROVE TypeOK /\ Knowledge /\ LoadedIsBuilt /\ ImageOfEntry
    OBVIOUS
<1>1. TypeOK
    <2>1. left \in 0..Harms
        BY ProjectsAssumption DEF Init
    <2>2. file \in Entries /\ clones \in [Names -> Clone \cup {None}]
        BY DEF Init, Entries
    <2>3. pc \in [Procs -> Calls] /\ name \in [Procs -> Names \cup {None}]
        BY DEF Init, Calls
    <2>4. loaded \in [Procs -> Entries \cup {None}] /\ read \in [Procs -> Podfiles \cup {None}]
        BY DEF Init
    <2>5. images = {} /\ harm = {}
        BY DEF Init
    <2>6. QED
        BY ONLY <2>1, <2>2, <2>3, <2>4, <2>5 DEF TypeOK, Calls
<1>2. Knowledge /\ LoadedIsBuilt /\ ImageOfEntry
    BY DEF Init, Knowledge, LoadedIsBuilt, ImageOfEntry, Procs
<1>3. QED
    BY <1>1, <1>2

\* The invariant holds in every state that the commands can lead to.
THEOREM InvariantHolds == Spec => [](TypeOK /\ Knowledge /\ LoadedIsBuilt /\ ImageOfEntry)
<1>1. TypeOK /\ Knowledge /\ LoadedIsBuilt /\ ImageOfEntry /\ [Next]_vars
        => (TypeOK /\ Knowledge /\ LoadedIsBuilt /\ ImageOfEntry)'
    BY TypeKept, KnowledgeKept, BuiltKept
<1>2. QED
    BY <1>1, InitialState, PTL DEF Spec

\* Every variable of the registry keeps its type: a command writes only what it has read.
THEOREM TypeCorrect == Spec => []TypeOK
    BY InvariantHolds, PTL

\* projects.yaml never names an image that has not been built, whatever commands overlap,
\* lose entries of each other, fail or are killed.
THEOREM ImagesOfEntries == Spec => []ImageOfEntry
    BY InvariantHolds, PTL

-----------------------------------------------------------------------------
(* The clones of the entries.  That an entry has its clone, and describes  *)
(* its Podfile, depends on what the commands at work on it are about to do *)
(* with either.                                                            *)

\* An add-project works on a name that was free.
Adding == \A p \in Adders : pc[p] # "idle" => loaded[p][name[p]] = None

\* A clone is not complete while the one that clones it is at it.
Incomplete == \A p \in Adders : pc[p] = "cloning" /\ Mine(p) => ~clones[name[p]].whole

\* Whoever reads a Podfile, and builds and saves what it read, has a complete clone.
Past == {"read", "build", "save"}

Working == \A p \in Adders \cup Updaters : pc[p] \in Past => Whole(name[p])

Registered == \A n \in Names : file[n] # None => Whole(n)

\* What a command builds and saves is still what its clone contains.
Reading ==
    \A p \in Adders \cup Updaters :
        pc[p] \in {"build", "save"} => read[p] = clones[name[p]].podfile

\* No clone has been removed that another command used, nor one of a project that was
\* registered; nor, for the others, has an entry been overwritten, or a clone pulled into
\* that another has read.
Unbroken == Spared({"clobber"})
Kept == Spared({"lost", "clobber"})
Steady == Spared({"moved", "clobber"})

ClonesInvariant ==
    /\ Adding
    /\ Incomplete
    /\ Unbroken => Working
    /\ Kept => Registered
    /\ Steady => Reading

-----------------------------------------------------------------------------
\* The step of p leaves what the others are at.
OnlyOf(p) ==
    \A q \in Procs \ {p} :
        pc'[q] = pc[q] /\ name'[q] = name[q] /\ loaded'[q] = loaded[q] /\ read'[q] = read[q]

\* A command changes what it knows itself, and nothing that another does.
LEMMA StepsAlone ==
    ASSUME TypeOK, NEW p \in Procs, Works(p) \/ Kill(p)
    PROVE  OnlyOf(p)
BY DEF OnlyOf, TypeOK, Works, Kill, Add, Update, Remove, Load, Save, Build, StartClone,
   FinishClone, ReadNew, Wipe, Pull, ReadAgain, RemoveClone, Return, Goto, memory

\* What has not happened yet had not happened before.
LEMMA NoHarmBefore ==
    ASSUME NEW p \in Procs, Works(p) \/ Kill(p)
    PROVE  /\ Unbroken' => Unbroken
           /\ Kept' => Kept /\ Unbroken'
           /\ Steady' => Steady /\ Unbroken'
BY DEF Unbroken, Kept, Steady, Spared, Works, Kill, Add, Update, Remove, Load, Save, Build,
   StartClone, FinishClone, ReadNew, Wipe, Pull, ReadAgain, RemoveClone, HarmIf, Harm,
   harmVars

\* A command goes on with its project, or is over.
LEMMA GoesOn ==
    ASSUME TypeOK, NEW p \in Procs, NEW from, NEW to, Goto(p, from, to)
    PROVE  pc[p] = from /\ pc'[p] = to
BY DEF TypeOK, Goto

\* A step that changes neither the file nor a clone.
LEMMA QuietSteps ==
    ASSUME TypeOK, ClonesInvariant, NEW p \in Procs, OnlyOf(p), UNCHANGED <<file, clones>>,
           Unbroken' => Unbroken, Kept' => Kept, Steady' => Steady /\ Unbroken',
           p \in Adders /\ pc'[p] # "idle" => loaded'[p][name'[p]] = None,
           pc'[p] # "cloning",
           Unbroken' /\ pc'[p] \in Past /\ p \notin Removers => Whole(name'[p]),
           Steady' /\ pc'[p] \in {"build", "save"} /\ p \notin Removers =>
               read'[p] = clones[name'[p]].podfile
    PROVE  ClonesInvariant'
<1>0. /\ \A q \in Adders \cup Updaters : q \in Procs /\ q \notin Removers
      /\ \A q \in Updaters : q \notin Adders
    BY ProjectsAssumption DEF Procs
<1>1. Adding'
    BY <1>0 DEF ClonesInvariant, Adding, OnlyOf
<1>2. Incomplete'
    BY <1>0 DEF ClonesInvariant, Incomplete, Mine, OnlyOf
<1>3. ASSUME Unbroken' PROVE Working'
    BY <1>0, <1>3 DEF ClonesInvariant, Working, Whole, OnlyOf
<1>4. ASSUME Kept' PROVE Registered'
    BY <1>4 DEF ClonesInvariant, Registered, Whole
<1>5. ASSUME Steady' PROVE Reading'
    BY <1>0, <1>5 DEF ClonesInvariant, Reading, OnlyOf
<1>6. QED
    BY <1>1, <1>2, <1>3, <1>4, <1>5 DEF ClonesInvariant

\* A clone is removed that nobody needs, or its removal is on record.
LEMMA RemovedClone ==
    ASSUME TypeOK, Knowledge, ClonesInvariant, NEW p \in Procs, OnlyOf(p), UNCHANGED file,
           pc[p] # "idle", pc'[p] \in {"idle", "wipe"},
           p \in Adders /\ pc'[p] # "idle" => loaded'[p][name'[p]] = None,
           pc[p] \notin Past,
           clones'[name[p]] = None,
           \A n \in Names \ {name[p]} : clones'[n] = clones[n],
           Unbroken' => Unbroken, Kept' => Kept /\ Unbroken', Steady' => Steady /\ Unbroken',
           Kept' => file[name[p]] = None,
           Unbroken' => \/ ~Whole(name[p])
                        \/ \A q \in Adders \cup Updaters :
                             q # p /\ name[q] = name[p] => pc[q] \notin Past
    PROVE  ClonesInvariant'
<1>d. /\ \A q \in Adders \cup Updaters : q \in Procs
      /\ \A q \in Procs : pc[q] # "idle" => name[q] \in Names
    BY DEF Procs, Knowledge
<1>1. Adding'
    BY <1>d DEF ClonesInvariant, Adding, OnlyOf
<1>2. Incomplete'
    BY <1>d DEF ClonesInvariant, Incomplete, Mine, OnlyOf
<1>3. ASSUME Unbroken', NEW q \in Adders \cup Updaters, pc'[q] \in Past
      PROVE  /\ pc[q] = pc'[q] /\ name'[q] = name[q] /\ read'[q] = read[q]
             /\ Whole(name[q]) /\ clones'[name[q]] = clones[name[q]]
    <2>1. q # p
        BY <1>3 DEF Past
    <2>2. pc[q] = pc'[q] /\ name'[q] = name[q] /\ read'[q] = read[q] /\ name[q] \in Names
        BY <1>d, <1>3, <2>1 DEF OnlyOf, Past
    <2>3. Whole(name[q])
        BY <1>3, <2>2 DEF ClonesInvariant, Working
    <2>4. name[q] # name[p]
        BY <1>3, <2>1, <2>2, <2>3
    <2>5. QED
        BY <2>2, <2>3, <2>4
<1>4. ASSUME Unbroken' PROVE Working'
    BY <1>3, <1>4 DEF Working, Whole
<1>5. ASSUME Kept' PROVE Registered'
    BY <1>5 DEF ClonesInvariant, Registered, Whole
<1>6. ASSUME Steady' PROVE Reading'
    BY <1>3, <1>6 DEF ClonesInvariant, Reading, Past
<1>7. QED
    BY <1>1, <1>2, <1>4, <1>5, <1>6 DEF ClonesInvariant

\* Every step keeps the invariant.
LEMMA ClonesKept ==
    ASSUME TypeOK, Knowledge, ClonesInvariant, NEW p \in Procs, Works(p) \/ Kill(p)
    PROVE  ClonesInvariant'
<1>o. OnlyOf(p)
    BY StepsAlone
<1>h. /\ Unbroken' => Unbroken
      /\ Kept' => Kept /\ Unbroken'
      /\ Steady' => Steady /\ Unbroken'
    BY NoHarmBefore
<1>d. /\ \A q \in Adders : q \in Procs /\ q \notin Removers /\ q \notin Updaters
      /\ \A q \in Updaters : q \in Procs /\ q \notin Removers /\ q \notin Adders
    BY ProjectsAssumption DEF Procs
<1>t. /\ pc \in [Procs -> Calls] /\ name \in [Procs -> Names \cup {None}]
      /\ loaded \in [Procs -> Entries \cup {None}] /\ read \in [Procs -> Podfiles \cup {None}]
      /\ file \in Entries /\ clones \in [Names -> Clone \cup {None}]
    BY DEF TypeOK, Calls
<1>n. pc[p] # "idle" => name[p] \in Names /\ loaded[p] \in Entries
    BY DEF Knowledge
<1>a. p \in Adders /\ pc[p] # "idle" => loaded[p][name[p]] = None
    BY DEF ClonesInvariant, Adding
<1>w. Unbroken /\ p \notin Removers /\ pc[p] \in Past => Whole(name[p])
    BY DEF ClonesInvariant, Working, Procs
<1>r. Steady /\ p \notin Removers /\ pc[p] \in {"build", "save"} =>
        read[p] = clones[name[p]].podfile
    BY DEF ClonesInvariant, Reading, Procs
<1>1. CASE Kill(p)
    <2>1. pc'[p] = "idle" /\ UNCHANGED <<file, clones>>
        BY <1>1, <1>t DEF Kill, Return, Goto
    <2>2. QED
        BY <1>h, <1>o, <2>1, QuietSteps DEF Past
<1>2. ASSUME NEW n \in Names, Load(p, n)
      PROVE  ClonesInvariant'
    <2>1. /\ pc[p] = "idle" /\ name'[p] = n /\ loaded'[p] = file /\ UNCHANGED <<file, clones>>
          /\ p \in Adders <=> file[n] = None
        BY <1>2, <1>t DEF Load, Goto
    <2>2. pc'[p] = CASE p \in Adders -> "clone"
                     [] p \in Updaters -> "pull"
                     [] p \in Removers -> "save"
        BY <1>2, <1>t DEF Load, Goto
    <2>3. pc'[p] \in {"clone", "pull"} \/ (p \in Removers /\ pc'[p] = "save")
        BY <1>d, <2>2 DEF Procs
    <2>4. QED
        BY <1>h, <1>o, <2>1, <2>3, QuietSteps DEF Past
<1>3. CASE Build(p) /\ p \in Adders \cup Updaters
    <2>1. /\ pc[p] = "build" /\ UNCHANGED <<file, clones>>
          /\ pc'[p] = "idle" \/ (pc'[p] \in {"save", "wipe"} /\ UNCHANGED memory)
        BY <1>3, <1>t DEF Build, Return, Goto
    <2>2. pc'[p] # "idle" =>
            name'[p] = name[p] /\ loaded'[p] = loaded[p] /\ read'[p] = read[p]
        BY <2>1 DEF memory
    <2>3. QED
        BY <1>a, <1>h, <1>o, <1>r, <1>w, <2>1, <2>2, QuietSteps DEF Past
<1>4. CASE ReadNew(p) /\ p \in Adders
    <2>1. /\ pc[p] = "read" /\ UNCHANGED <<file, clones>>
          /\ name'[p] = name[p] /\ loaded'[p] = loaded[p]
          /\ \/ pc'[p] = "build" /\ read'[p] = clones[name[p]].podfile /\ Whole(name[p])
             \/ pc'[p] = "wipe"
        BY <1>4, <1>t DEF ReadNew, Goto
    <2>2. QED
        BY <1>4, <1>a, <1>d, <1>h, <1>o, <2>1, QuietSteps DEF Past
<1>5. CASE ReadAgain(p) /\ p \in Updaters
    <2>1. /\ pc[p] = "read" /\ UNCHANGED <<file, clones>>
          /\ \/ /\ pc'[p] = "build" /\ read'[p] = clones[name[p]].podfile /\ Whole(name[p])
                /\ name'[p] = name[p]
             \/ pc'[p] = "idle"
        BY <1>5, <1>t DEF ReadAgain, Return, Goto
    <2>2. QED
        BY <1>5, <1>d, <1>h, <1>o, <2>1, QuietSteps DEF Past
<1>6. CASE UNCHANGED <<file, clones>> /\ pc[p] \in {"pull", "clone", "cloning", "rmclone"}
           /\ pc'[p] \in {"idle", "wipe"} /\ (pc'[p] = "wipe" => UNCHANGED memory)
    <2>1. pc'[p] = "wipe" => name'[p] = name[p] /\ loaded'[p] = loaded[p]
        BY <1>6 DEF memory
    <2>2. QED
        BY <1>6, <1>a, <1>h, <1>o, <2>1, QuietSteps DEF Past
<1>7. CASE StartClone(p) /\ p \in Adders
    <2>1. CASE clones[name[p]] # None
        BY <1>6, <1>7, <1>t, <2>1 DEF StartClone, Goto
    <2>2. CASE clones[name[p]] = None
        <3>1. PICK f \in Podfiles :
                clones' = [clones EXCEPT ![name[p]] =
                             [by |-> p, podfile |-> f, whole |-> FALSE]]
            BY <1>7, <2>2 DEF StartClone
        <3>2. pc[p] = "clone" /\ pc'[p] = "cloning" /\ UNCHANGED <<file, memory>>
            BY <1>7, <1>t, <2>2 DEF StartClone, Goto
        <3>3. UNCHANGED <<name, loaded, read>>
            BY <3>2 DEF memory
        <3>4. /\ clones'[name[p]] = [by |-> p, podfile |-> f, whole |-> FALSE]
              /\ \A n \in Names \ {name[p]} : clones'[n] = clones[n]
            BY <1>n, <1>t, <3>1, <3>2
        <3>5. Adding'
            BY <1>d, <1>o, <3>2, <3>3 DEF ClonesInvariant, Adding, OnlyOf
        <3>6. Incomplete'
            <4> SUFFICES ASSUME NEW q \in Adders, pc'[q] = "cloning", Mine(q)'
                         PROVE  ~clones'[name'[q]].whole
                BY DEF Incomplete
            <4>1. CASE name'[q] = name[p]
                BY <3>4, <4>1
            <4>2. CASE name'[q] # name[p]
                <5>1. q # p /\ pc[q] = "cloning" /\ name'[q] = name[q]
                    BY <1>d, <1>o, <3>3, <4>2 DEF OnlyOf
                <5>2. name[q] \in Names
                    BY <1>d, <5>1 DEF Knowledge
                <5>3. clones'[name'[q]] = clones[name[q]]
                    BY <3>4, <4>2, <5>1, <5>2
                <5>4. QED
                    BY <5>1, <5>3 DEF ClonesInvariant, Incomplete, Mine
            <4>3. QED
                BY <4>1, <4>2
        <3>7. ASSUME Kept PROVE file[name[p]] = None
            BY <1>n, <2>2, <3>2, <3>7 DEF ClonesInvariant, Registered, Whole
        <3>8. ASSUME Unbroken, NEW q \in Adders \cup Updaters, pc'[q] \in Past
              PROVE  /\ pc[q] = pc'[q] /\ q # p /\ Whole(name[q])
                     /\ clones'[name[q]] = clones[name[q]]
            <4>1. q # p /\ pc[q] = pc'[q]
                BY <1>d, <1>o, <3>2, <3>8 DEF Past, OnlyOf
            <4>2. Whole(name[q])
                BY <3>8, <4>1 DEF ClonesInvariant, Working
            <4>3. name[q] \in Names
                BY <1>d, <3>8, <4>1 DEF Knowledge, Past
            <4>4. QED
                BY <2>2, <3>4, <4>1, <4>2, <4>3 DEF Whole
        <3>9. ASSUME Unbroken' PROVE Working'
            BY <1>h, <3>3, <3>8, <3>9 DEF Working, Whole
        <3>10. ASSUME Kept' PROVE Registered'
            BY <1>h, <3>2, <3>4, <3>7, <3>10 DEF ClonesInvariant, Registered, Whole
        <3>11. ASSUME Steady' PROVE Reading'
            BY <1>h, <3>3, <3>8, <3>11 DEF ClonesInvariant, Reading, Past
        <3>12. QED
            BY <3>5, <3>6, <3>9, <3>10, <3>11 DEF ClonesInvariant
    <2>3. QED
        BY <2>1, <2>2
<1>8. CASE FinishClone(p) /\ p \in Adders
    <2>1. pc[p] = "cloning" /\ UNCHANGED <<file, memory>>
        BY <1>8, <1>t DEF FinishClone, Goto
    <2>2. UNCHANGED <<name, loaded, read>>
        BY <2>1 DEF memory
    <2>3. Mine(p) => ~clones[name[p]].whole
        BY <1>8, <2>1 DEF ClonesInvariant, Incomplete
    <2>4. ASSUME NEW q \in Adders, q # p, pc[q] = "cloning", name[q] = name[p], Mine(p)
          PROVE  ~Mine(q)
        BY <2>4 DEF Mine
    <2>5. Adding'
        BY <1>d, <1>o, <2>1, <2>2 DEF ClonesInvariant, Adding, OnlyOf
    <2>6. CASE UNCHANGED clones /\ pc'[p] = "wipe"
        BY <1>6, <2>1, <2>6
    <2>7. ASSUME Mine(p), clones' = [clones EXCEPT ![name[p]] = None], pc'[p] = "wipe"
          PROVE  ClonesInvariant'
        <3>1. clones'[name[p]] = None /\ \A n \in Names \ {name[p]} : clones'[n] = clones[n]
            BY <1>n, <1>t, <2>1, <2>7
        <3>2. ~Whole(name[p])
            BY <2>3, <2>7 DEF Whole
        <3>3. ASSUME Kept' PROVE file[name[p]] = None
            BY <1>h, <1>n, <2>1, <3>2, <3>3 DEF ClonesInvariant, Registered
        <3>4. loaded'[p][name'[p]] = None
            BY <1>8, <1>a, <2>1, <2>2
        <3>5. QED
            BY <1>h, <1>o, <2>1, <2>7, <3>1, <3>2, <3>3, <3>4, RemovedClone DEF Past
    <2>8. ASSUME Mine(p), clones' = [clones EXCEPT ![name[p]].whole = TRUE], pc'[p] = "read"
          PROVE  ClonesInvariant'
        <3>1. name[p] \in Names /\ clones[name[p]] \in Clone
            BY <1>n, <1>t, <2>1, <2>8 DEF Mine
        <3>2. /\ clones'[name[p]] = [clones[name[p]] EXCEPT !.whole = TRUE]
              /\ \A n \in Names \ {name[p]} : clones'[n] = clones[n]
            BY <1>t, <2>8, <3>1
        <3>3. /\ clones'[name[p]] # None /\ clones'[name[p]].whole
              /\ clones'[name[p]].podfile = clones[name[p]].podfile
              /\ clones'[name[p]].by = p
            <4>1. clones'[name[p]] \in Clone
                BY <3>1, <3>2, ClonesStayTyped
            <4>2. clones'[name[p]] # None
                BY <4>1, NoneAssumption
            <4>3. QED
                BY <2>8, <3>1, <3>2, <4>2 DEF Clone, Mine
        <3>4. Incomplete'
            <4> SUFFICES ASSUME NEW q \in Adders, pc'[q] = "cloning", Mine(q)'
                         PROVE  ~clones'[name'[q]].whole
                BY DEF Incomplete
            <4>1. q # p /\ pc[q] = "cloning" /\ name'[q] = name[q] /\ name[q] \in Names
                BY <1>d, <1>o, <2>8 DEF OnlyOf, Knowledge
            <4>2. name[q] # name[p]
                BY <2>2, <3>3, <4>1 DEF Mine
            <4>3. clones'[name'[q]] = clones[name[q]]
                BY <3>2, <4>1, <4>2
            <4>4. QED
                BY <4>1, <4>3 DEF ClonesInvariant, Incomplete, Mine
        <3>5. \A n \in Names : /\ Whole(n) => clones'[n] # None /\ clones'[n].whole
                               /\ clones'[n].podfile = clones[n].podfile
            BY <3>2, <3>3 DEF Whole
        <3>6. ASSUME Kept' PROVE Registered'
            BY <1>h, <2>1, <3>5, <3>6 DEF ClonesInvariant, Registered, Whole
        <3>7. ASSUME Unbroken', NEW q \in Adders \cup Updaters, pc'[q] \in Past
              PROVE  Whole(name[q])'
            <4>1. CASE q = p
                BY <2>2, <3>3, <4>1 DEF Whole
            <4>2. CASE q # p
                <5>1. pc[q] \in Past /\ name'[q] = name[q]
                    BY <1>d, <1>o, <3>7, <4>2 DEF OnlyOf
                <5>2. name[q] \in Names
                    BY <1>d, <5>1 DEF Knowledge, Past
                <5>3. QED
                    BY <1>h, <3>5, <3>7, <5>1, <5>2 DEF ClonesInvariant, Working, Whole
            <4>3. QED
                BY <4>1, <4>2
        <3>8. ASSUME Steady', NEW q \in Adders \cup Updaters, pc'[q] \in {"build", "save"}
              PROVE  read'[q] = clones'[name'[q]].podfile
            <4>1. q # p /\ pc[q] \in {"build", "save"} /\ name'[q] = name[q]
                BY <1>d, <1>o, <2>8, <3>8 DEF OnlyOf
            <4>2. name[q] \in Names /\ Whole(name[q])
                BY <1>d, <1>h, <3>8, <4>1 DEF Knowledge, ClonesInvariant, Working, Past
            <4>3. QED
                BY <1>h, <2>2, <3>5, <3>8, <4>1, <4>2 DEF ClonesInvariant, Reading
        <3>9. QED
            BY <2>5, <3>4, <3>6, <3>7, <3>8 DEF ClonesInvariant, Working, Reading
    <2>9. QED
        BY <1>8, <1>t, <2>6, <2>7, <2>8 DEF FinishClone, Goto
<1>9. CASE Wipe(p) /\ p \in Adders
    <2>1. /\ pc[p] = "wipe" /\ pc'[p] = "idle" /\ UNCHANGED file
          /\ clones' = [clones EXCEPT ![name[p]] = None]
          /\ HarmIf(clones[name[p]] # None
                      /\ (file[name[p]] # loaded[p][name[p]] \/ On(name[p]) # {p}), "clobber")
        BY <1>9, <1>t DEF Wipe, Return, Goto
    <2>2. clones'[name[p]] = None /\ \A n \in Names \ {name[p]} : clones'[n] = clones[n]
        BY <1>n, <1>t, <2>1
    <2>3. ASSUME Unbroken'
          PROVE  clones[name[p]] = None \/ (file[name[p]] = None /\ On(name[p]) = {p})
        BY <1>9, <1>a, <2>1, <2>3 DEF HarmIf, Harm, Unbroken, Spared
    <2>4. On(name[p]) = {p} =>
            \A q \in Adders \cup Updaters : q # p /\ name[q] = name[p] => pc[q] \notin Past
        BY <1>d DEF On, Busy, Past
    <2>5. Kept' => file[name[p]] = None
        BY <1>h, <1>n, <2>1, <2>3 DEF ClonesInvariant, Registered, Whole
    <2>6. QED
        BY <1>h, <1>o, <2>1, <2>2, <2>3, <2>4, <2>5, RemovedClone DEF Past, Whole
<1>10. CASE RemoveClone(p) /\ p \in Removers
    <2>1. /\ pc[p] = "rmclone" /\ pc'[p] = "idle" /\ UNCHANGED file
        BY <1>10, <1>t DEF RemoveClone, Return, Goto
    <2>2. CASE UNCHANGED clones
        BY <1>6, <2>1, <2>2
    <2>3. CASE /\ clones' = [clones EXCEPT ![name[p]] = None]
               /\ HarmIf(clones[name[p]] # None
                           /\ (file[name[p]] # None \/ On(name[p]) # {p}), "clobber")
        <3>1. clones'[name[p]] = None /\ \A n \in Names \ {name[p]} : clones'[n] = clones[n]
            BY <1>n, <1>t, <2>1, <2>3
        <3>2. ASSUME Unbroken'
              PROVE  clones[name[p]] = None \/ (file[name[p]] = None /\ On(name[p]) = {p})
            BY <2>3, <3>2 DEF HarmIf, Harm, Unbroken, Spared
        <3>3. On(name[p]) = {p} =>
                \A q \in Adders \cup Updaters : q # p /\ name[q] = name[p] => pc[q] \notin Past
            BY <1>d DEF On, Busy, Past
        <3>4. Kept' => file[name[p]] = None
            BY <1>h, <1>n, <2>1, <3>2 DEF ClonesInvariant, Registered, Whole
        <3>5. QED
            BY <1>h, <1>o, <2>1, <3>1, <3>2, <3>3, <3>4, RemovedClone DEF Past, Whole
    <2>4. QED
        BY <1>10, <2>2, <2>3 DEF RemoveClone
<1>11. CASE Pull(p) /\ p \in Updaters
    <2>1. CASE Return(p, "pull") /\ UNCHANGED <<file, clones>>
        BY <1>6, <1>t, <2>1 DEF Return, Goto
    <2>2. ASSUME Whole(name[p]), Goto(p, "pull", "read"), UNCHANGED <<file, memory>>,
                 NEW f \in Podfiles, clones' = [clones EXCEPT ![name[p]].podfile = f],
                 HarmIf(\E q \in On(name[p]) : read[q] # None, "moved")
          PROVE  ClonesInvariant'
        <3>1. pc[p] = "pull" /\ pc'[p] = "read" /\ UNCHANGED <<name, loaded, read>>
            BY <1>t, <2>2 DEF Goto, memory
        <3>2. name[p] \in Names /\ clones[name[p]] \in Clone
            BY <1>n, <1>t, <2>2, <3>1 DEF Whole
        <3>3. /\ clones'[name[p]] = [clones[name[p]] EXCEPT !.podfile = f]
              /\ \A n \in Names \ {name[p]} : clones'[n] = clones[n]
            BY <1>t, <2>2, <3>2
        <3>4. /\ clones'[name[p]] # None /\ clones'[name[p]].whole
              /\ clones'[name[p]].by = clones[name[p]].by
            <4>1. clones'[name[p]] \in Clone
                BY <3>2, <3>3, ClonesStayTyped
            <4>2. clones'[name[p]] # None
                BY <4>1, NoneAssumption
            <4>3. QED
                BY <2>2, <3>2, <3>3, <4>2 DEF Clone, Whole
        <3>5. Adding'
            BY <1>d, <1>o, <1>11, <3>1 DEF ClonesInvariant, Adding, OnlyOf
        <3>6. Incomplete'
            <4> SUFFICES ASSUME NEW q \in Adders, pc'[q] = "cloning", Mine(q)'
                         PROVE  ~clones'[name'[q]].whole
                BY DEF Incomplete
            <4>1. q # p /\ pc[q] = "cloning" /\ name'[q] = name[q] /\ name[q] \in Names
                BY <1>d, <1>o, <1>11 DEF OnlyOf, Knowledge
            <4>2. CASE name[q] = name[p]
                BY <2>2, <3>4, <4>1, <4>2 DEF ClonesInvariant, Incomplete, Mine, Whole
            <4>3. CASE name[q] # name[p]
                BY <3>3, <4>1, <4>3 DEF ClonesInvariant, Incomplete, Mine
            <4>4. QED
                BY <4>2, <4>3
        <3>7. \A n \in Names : Whole(n) => clones'[n] # None /\ clones'[n].whole
            BY <3>3, <3>4 DEF Whole
        <3>8. ASSUME Kept' PROVE Registered'
            BY <1>h, <2>2, <3>7, <3>8 DEF ClonesInvariant, Registered, Whole
        <3>9. ASSUME Unbroken', NEW q \in Adders \cup Updaters, pc'[q] \in Past
              PROVE  Whole(name[q])'
            <4>1. CASE q = p
                BY <3>1, <3>4, <4>1 DEF Whole
            <4>2. CASE q # p
                <5>1. pc[q] \in Past /\ name'[q] = name[q]
                    BY <1>d, <1>o, <3>9, <4>2 DEF OnlyOf
                <5>2. name[q] \in Names
                    BY <1>d, <5>1 DEF Knowledge, Past
                <5>3. QED
                    BY <1>h, <3>7, <3>9, <5>1, <5>2 DEF ClonesInvariant, Working, Whole
            <4>3. QED
                BY <4>1, <4>2
        <3>10. ASSUME Steady', NEW q \in Adders \cup Updaters, pc'[q] \in {"build", "save"}
               PROVE  read'[q] = clones'[name'[q]].podfile
            <4>1. \A r \in On(name[p]) : read[r] = None
                BY <2>2, <3>10 DEF HarmIf, Harm, Steady, Spared
            <4>2. q # p /\ pc[q] \in {"build", "save"} /\ name'[q] = name[q]
                BY <1>d, <1>o, <3>1, <3>10 DEF OnlyOf
            <4>3. name[q] \in Names /\ read[q] # None
                BY <1>d, <4>2, NoneAssumption DEF Knowledge
            <4>4. name[q] # name[p]
                BY <1>d, <4>1, <4>2, <4>3 DEF On, Busy
            <4>5. QED
                BY <1>h, <3>1, <3>3, <3>10, <4>2, <4>3, <4>4 DEF ClonesInvariant, Reading
        <3>11. QED
            BY <3>5, <3>6, <3>8, <3>9, <3>10 DEF ClonesInvariant, Working, Reading
    <2>3. QED
        BY <1>11, <2>1, <2>2 DEF Pull
<1>12. CASE Save(p) /\ pc[p] # "idle"
    <2>1. CASE Harm("failure") /\ Return(p, "save") /\ UNCHANGED <<file, clones>>
        <3>1. pc'[p] = "idle"
            BY <1>t, <2>1 DEF Return, Goto
        <3>2. QED
            BY <1>h, <1>o, <2>1, <3>1, QuietSteps DEF Past
    <2>2. CASE /\ file' = [loaded[p] EXCEPT ![name[p]] = read[p]]
               /\ HarmIf(file # loaded[p], "lost")
               /\ UNCHANGED clones
               /\ IF p \in Removers
                  THEN Goto(p, "save", "rmclone") /\ UNCHANGED memory
                  ELSE Return(p, "save")
        <3>1. /\ pc[p] = "save" /\ pc'[p] \in {"rmclone", "idle"}
              /\ p \notin Removers => pc'[p] = "idle"
            BY <1>t, <2>2 DEF Return, Goto
        <3>2. Adding'
            BY <1>d, <1>o, <3>1 DEF ClonesInvariant, Adding, OnlyOf
        <3>3. Incomplete'
            BY <1>d, <1>o, <2>2, <3>1 DEF ClonesInvariant, Incomplete, Mine, OnlyOf
        <3>4. ASSUME Kept'
              PROVE  \A n \in Names : file'[n] = IF n = name[p] THEN read[p] ELSE file[n]
            <4>1. file = loaded[p]
                BY <2>2, <3>4 DEF HarmIf, Harm, Kept, Spared
            <4>2. QED
                BY <1>t, <2>2, <4>1 DEF Entries
        <3>5. p \in Removers => read[p] = None
            BY DEF Knowledge
        <3>6. ASSUME Unbroken' PROVE Working'
            BY <1>d, <1>h, <1>o, <2>2, <3>1, <3>6
            DEF ClonesInvariant, Working, Whole, OnlyOf, Past
        <3>7. ASSUME Kept' PROVE Registered'
            <4>1. read[p] # None => Whole(name[p])
                BY <1>h, <1>w, <3>1, <3>5, <3>7 DEF Past
            <4>2. QED
                BY <1>h, <2>2, <3>4, <3>7, <4>1 DEF ClonesInvariant, Registered, Whole
        <3>8. ASSUME Steady' PROVE Reading'
            BY <1>d, <1>h, <1>o, <2>2, <3>1, <3>8 DEF ClonesInvariant, Reading, OnlyOf
        <3>9. QED
            BY <3>2, <3>3, <3>6, <3>7, <3>8 DEF ClonesInvariant
    <2>3. QED
        BY <1>12, <2>1, <2>2 DEF Save
<1>13. QED
    BY <1>1, <1>2, <1>3, <1>4, <1>5, <1>7, <1>8, <1>9, <1>10, <1>11, <1>12
    DEF Works, Add, Update, Remove, Busy

\* What commands know of the clones, and the entries of them, hold together.
THEOREM ClonesInvariantHolds == Spec => []ClonesInvariant
<1>1. Init => ClonesInvariant
    BY ProjectsAssumption DEF Init, ClonesInvariant, Adding, Incomplete, Working, Registered,
       Reading, Past, Procs
<1>2. TypeOK /\ Knowledge /\ ClonesInvariant /\ [Next]_vars => ClonesInvariant'
    <2> SUFFICES ASSUME TypeOK, Knowledge, ClonesInvariant, [Next]_vars PROVE ClonesInvariant'
        OBVIOUS
    <2>1. CASE Next
        BY <2>1, ClonesKept DEF Next
    <2>2. CASE UNCHANGED vars
        BY <2>2 DEF vars, memory, harmVars, ClonesInvariant, Adding, Incomplete, Mine, Working,
           Registered, Reading, Whole, Unbroken, Kept, Steady, Spared
    <2>3. QED
        BY <2>1, <2>2
<1>3. QED
    BY <1>1, <1>2, InvariantHolds, PTL DEF Spec

\* For any number of commands, whatever fails or is killed: a registered project has its
\* clone, complete, as long as no command saves over another's entry or removes a clone
\* that another uses.
THEOREM ClonesOfEntries == Spec => []CloneOfEntry
<1>1. ClonesInvariant => CloneOfEntry
    BY DEF ClonesInvariant, Kept, Registered, CloneOfEntry
<1>2. QED
    BY <1>1, ClonesInvariantHolds, PTL

\* A command that returns without an error has just compared its clone with the entry, or
\* saves what it has read of it.
LEMMA DoneIsCurrent ==
    ASSUME TypeOK, Knowledge, ClonesInvariant, [Next]_vars,
           NEW p \in Adders \cup Updaters, Done(p), Steady'
    PROVE  file'[name[p]] = clones'[name[p]].podfile
<1> USE DEF TypeOK, Done
<1>0. p \in Procs /\ p \notin Removers
    BY ProjectsAssumption DEF Procs
<1>1. PICK q \in Procs : Works(q) \/ Kill(q)
    BY DEF Next, vars
<1>2. q = p
    BY <1>0, <1>1, StepsAlone DEF OnlyOf
<1>3. name[p] \in Names /\ loaded[p] \in Entries
    BY <1>0 DEF Knowledge
<1>4. Steady
    BY <1>1, NoHarmBefore
<1>5. ~Kill(p)
    BY ProjectsAssumption DEF Kill, Harm
<1>6. pc'[p] = "idle" /\ (Save(p) \/ ReadAgain(p))
    BY <1>0, <1>1, <1>2, <1>5
    DEF Works, Add, Update, Remove, Load, Build, StartClone, FinishClone, ReadNew, Wipe,
        Pull, RemoveClone, Goto, Return
<1>7. CASE Save(p)
    <2>1. /\ pc[p] = "save" /\ UNCHANGED clones
          /\ file' = [loaded[p] EXCEPT ![name[p]] = read[p]]
        BY <1>7, ProjectsAssumption DEF Save, Harm, Goto, Return
    <2>2. read[p] = clones[name[p]].podfile
        BY <1>4, <2>1 DEF ClonesInvariant, Reading
    <2>3. QED
        BY <1>3, <2>1, <2>2 DEF Entries
<1>8. CASE ReadAgain(p)
    <2>1. /\ clones[name[p]].podfile = loaded[p][name[p]] /\ UNCHANGED <<file, clones>>
          /\ left' = left
          /\ HarmIf(file # loaded[p], "lost")
        BY <1>6, <1>8, ProjectsAssumption DEF ReadAgain, Harm, HarmIf, Goto, Return
    <2>2. file = loaded[p]
        BY <2>1, ProjectsAssumption DEF HarmIf, Harm
    <2>3. QED
        BY <2>1, <2>2
<1>9. QED
    BY <1>6, <1>7, <1>8

\* And a command that returns without an error leaves the entry describing the Podfile of
\* its clone, whatever failed or was killed before, unless an overlapping command pulls
\* into the clone that it has read or removes it.
THEOREM EntriesAreCurrent == Spec => EntryIsCurrent
<1>1. TypeOK /\ Knowledge /\ ClonesInvariant /\ [Next]_vars =>
        [\A p \in Adders \cup Updaters :
           Done(p) /\ Spared({"moved", "clobber"})' =>
               file'[name[p]] = clones'[name[p]].podfile]_vars
    BY DoneIsCurrent DEF Steady
<1>2. QED
    BY <1>1, InvariantHolds, ClonesInvariantHolds, PTL DEF Spec, EntryIsCurrent

=============================================================================
