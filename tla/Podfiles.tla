------------------------------- MODULE Podfiles -------------------------------
(***************************************************************************)
(* podspawn dev up to the session: the Podfile of the directory, the chain *)
(* of files that it extends, the merged Podfile and the ports it forwards; *)
(* and podspawn init --update, which rewrites the cached registry, file by *)
(* file, under it.                                                         *)
(***************************************************************************)
EXTENDS PodfileMerge, Ports, FiniteSetsExt

CONSTANTS
    Refs,       \* what extends may name, normalized
    Shorthands, \* those that are looked up in the registry
    MaxDepth,   \* maxExtendsDepth: 10
    Problems,   \* the instances to check
    Missing, Looping, Endless   \* what may be wrong with a chain, besides Malformed

ASSUME PodfilesAssumption ==
    /\ MaxDepth \in Nat
    /\ Shorthands \subseteq Refs
    /\ None \notin Refs
    /\ IsInjective(<<None, "resolved", Malformed, Missing, Looping, Endless>>)

\* A problem has the file of the directory (first), those that come with the binary or
\* lie beside it (files), those in the user's cache (cached) and those that a refresh
\* would bring (upstream), the ports in use and the ports of the command line.
FilesOf(q) == {q.first} \cup UNION {{q.files[r], q.cached[r], q.upstream[r]} : r \in Refs}

ASSUME ProblemsAssumption ==
    \A q \in Problems :
        /\ DOMAIN q.cached = Refs
        /\ q.flags \in Seq(Int)
        /\ q.first # Missing
        /\ \A file \in FilesOf(q) \ {Missing, Malformed} :
             /\ DOMAIN file = DOMAIN Empty
             /\ file.extends \in Refs \cup {None}
             /\ file.expose \in Seq(Int)
             /\ DOMAIN file.scalars = Scalars
             /\ \A key \in {"packages", "services", "repos"} :
                  file[key] \in Seq(ToSet(file[key]))
             /\ \A item \in ToSet(file.packages) :
                  item \in [name : {item.name}, drop : BOOLEAN]
             /\ \A repo \in ToSet(file.repos) :
                  {"name", "drop", "path", "branch"} \subseteq DOMAIN repo

VARIABLES
    problem,    \* the files, the ports in use, and those of the command line
    cached,     \* the registry in the user's cache: a file, or Missing
    writing,    \* the file that init --update has truncated, or None
    visited,    \* resolveChain: the references so far
    chain,      \* the files so far, as they were written
    answer,     \* None, "resolved", or why there is no Podfile
    podfile,    \* the resolved Podfile, or None
    bindings    \* None, or the answer of ResolvePortBindings

vars == <<problem, cached, writing, visited, chain, answer, podfile, bindings>>

Failures == {Malformed, Missing, Looping, Endless}

\* What is merged: every file with its defaults.
Parsed == [i \in DOMAIN chain |-> ParseRaw(chain[i])]

TypeOK ==
    /\ \A r \in Refs : cached[r] \in {Malformed, problem.cached[r], problem.upstream[r]}
    /\ writing \in Shorthands \cup {None}
    /\ visited \subseteq Refs
    /\ Cardinality(visited) <= MaxDepth
    /\ Len(chain) = Cardinality(visited) + 1
    /\ answer \in Failures \cup {None, "resolved"}
    /\ answer = "resolved" => \A i \in DOMAIN chain : Parsed[i] # Malformed
    /\ bindings # None => answer = "resolved"

Init ==
    /\ problem \in Problems
    /\ cached = problem.cached
    /\ writing = None
    /\ visited = {}
    /\ chain = <<problem.first>>
    /\ answer = None
    /\ podfile = None
    /\ bindings = None

\* Mutant: the files that come with the binary before the cache.
SourceShipped(r) == IF problem.files[r] # Missing THEN problem.files[r] ELSE cached[r]

\* ResolveSource: the cache before the files that come with the binary.  A file that
\* is being written can be read already.
Source(r) == IF cached[r] # Missing THEN cached[r] ELSE problem.files[r]

Fail(why) ==
    /\ answer' = why
    /\ UNCHANGED <<problem, cached, writing, visited, chain, podfile, bindings>>

-----------------------------------------------------------------------------
(* ResolveExtends and resolveChain, a file at a time.                      *)

Current == Last(chain)

Resolving == answer = None /\ ParseRaw(Current) # Malformed

FirstMalformed ==
    /\ answer = None
    /\ ParseRaw(Current) = Malformed
    /\ Fail(Malformed)

\* Nothing (more) to extend: the files are merged, from the last to the first.
Root ==
    /\ Resolving
    /\ Current.extends = None
    /\ answer' = "resolved"
    /\ podfile' = MergeChain(Parsed)
    /\ UNCHANGED <<problem, cached, writing, visited, chain, bindings>>

TooDeep ==
    /\ Resolving
    /\ Current.extends # None
    /\ Cardinality(visited) >= MaxDepth
    /\ Fail(Endless)

\* Mutant: a file that has been merged is left out.
CircularSkipped ==
    /\ Resolving
    /\ Current.extends \in visited
    /\ UNCHANGED vars

Circular ==
    /\ Resolving
    /\ Current.extends \in visited
    /\ Cardinality(visited) < MaxDepth
    /\ Fail(Looping)

\* Mutant: the reference is not remembered.
DescendUnmarked ==
    /\ Resolving
    /\ Current.extends \in Refs \ visited
    /\ Source(Current.extends) # Missing
    /\ chain' = Append(chain, Source(Current.extends))
    /\ UNCHANGED <<problem, cached, writing, visited, answer, podfile, bindings>>

Descend ==
    /\ Resolving
    /\ Current.extends \in Refs \ visited
    /\ Cardinality(visited) < MaxDepth
    /\ IF Source(Current.extends) = Missing
       THEN Fail(Missing)
       ELSE /\ visited' = visited \cup {Current.extends}
            /\ chain' = Append(chain, Source(Current.extends))
            /\ UNCHANGED <<problem, cached, writing, answer, podfile, bindings>>

\* dev: the strategy of the Podfile, auto by default.
BindPorts ==
    /\ answer = "resolved"
    /\ bindings = None
    /\ bindings' = ResolvePortBindings(podfile.expose, Or(podfile.scalars["strategy"], "auto"),
                                       problem.flags, problem.taken)
    /\ UNCHANGED <<problem, cached, writing, visited, chain, answer, podfile>>

Resolve == FirstMalformed \/ Root \/ TooDeep \/ Circular \/ Descend \/ BindPorts

-----------------------------------------------------------------------------
(* fetchAndCache: os.WriteFile truncates the file, then writes it.         *)

Truncate(r) ==
    /\ writing = None
    /\ cached[r] # problem.upstream[r]
    /\ problem.upstream[r] # Missing
    /\ writing' = r
    /\ cached' = [cached EXCEPT ![r] = Malformed]
    /\ UNCHANGED <<problem, visited, chain, answer, podfile, bindings>>

Write(r) ==
    /\ writing = r
    /\ writing' = None
    /\ cached' = [cached EXCEPT ![r] = problem.upstream[r]]
    /\ UNCHANGED <<problem, visited, chain, answer, podfile, bindings>>

Refresh == \E r \in Shorthands : Truncate(r) \/ Write(r)

Next == Resolve \/ Refresh

Spec == Init /\ [][Next]_vars /\ WF_vars(Resolve)

-----------------------------------------------------------------------------
(* Properties.                                                             *)

\* Whatever the files extend, and whatever becomes of the cache, dev comes to an
\* answer, and to its ports if it has resolved the Podfile.
Answers == <>(answer \in Failures \/ bindings # None)

Unsound(file) == file = Missing \/ ParseRaw(file) = Malformed

\* Where the extends of a file leads, with the registry as it was; a file that leads
\* nowhere stays where it is.
Onward(file) ==
    IF Unsound(file) \/ file.extends = None THEN file
    ELSE IF problem.cached[file.extends] # Missing THEN problem.cached[file.extends]
    ELSE problem.files[file.extends]

Walk[n \in 0..MaxDepth] == IF n = 0 THEN problem.first ELSE Onward(Walk[n - 1])

Loops == \E m, n \in 0..(MaxDepth - 1) : m < n /\ Walk[m].extends = Walk[n].extends

\* A Podfile is resolved if the way ends within MaxDepth files at one that extends
\* nothing; else the answer says which of the four things is wrong.
AnswerIsRight ==
    answer # None /\ cached = problem.cached =>
        LET end == Walk[MaxDepth] IN
        CASE end = Missing -> answer = Missing
          [] end # Missing /\ Unsound(end) -> answer = Malformed
          [] ~Unsound(end) /\ end.extends = None -> answer = "resolved"
          [] OTHER -> answer = IF Loops THEN Looping ELSE Endless

-----------------------------------------------------------------------------
(* What is inherited, said of one value at a time; level 1 is the file of  *)
(* the directory, level Depth the one that extends nothing.                *)

Depth == Len(chain)
Nearest(levels) == Min(levels \cup {Depth})
Replacing(key) == {i \in 1..(Depth - 1) : key \in chain[i].bang}

\* The nearest file that sets a scalar decides; but the shell is never inherited, for
\* ParseRaw has set it in every file (InheritedShell).
ScalarsRight ==
    /\ \A s \in Scalars \ {"shell"} :
         LET set == {i \in 1..Depth : chain[i].scalars[s] # None} IN
         podfile.scalars[s] = chain[Nearest(set)].scalars[s]
    /\ podfile.scalars["shell"] = Or(problem.first.scalars["shell"], "bash")

\* The nearest file that names a variable decides, and so does one with env!; the
\* empty value unsets what would be inherited.
EnvRight ==
    \A k \in Keys :
        LET i == Nearest({j \in 1..Depth : chain[j].env[k] # None} \cup Replacing("env"))
            kept == i = Depth \/ i \in Replacing("env")
        IN  podfile.env[k] = IF chain[i].env[k] = "" /\ ~kept THEN None ELSE chain[i].env[k]

\* The lines from the nearest file with the ! on, the inherited ones first.
AppendedRight ==
    \A key \in {"on_create", "on_start", "commands"} :
        podfile[key] = FlattenSeq(Reverse([i \in 1..Nearest(Replacing(key)) |-> chain[i][key]]))

Whole(i) == i = Depth \/ i \in Replacing("packages")
Brings(i, item) == item \in ToSet(chain[i].packages) /\ (Whole(i) \/ ~item.drop)
Bars(i, item) ==
    \/ Whole(i)
    \/ ~item.drop /\ [item EXCEPT !.drop = TRUE] \in ToSet(chain[i].packages)
Sources(item) ==
    {i \in 1..Depth : Brings(i, item) /\ \A j \in 1..(i - 1) : ~Bars(j, item)}

\* A package is installed if a file brings it and no nearer one drops it; what is
\* inherited comes first.
PackagesRight ==
    /\ \A item \in UNION {ToSet(chain[i].packages) : i \in 1..Depth} :
         item \in ToSet(podfile.packages) <=> Sources(item) # {}
    /\ \A p, q \in DOMAIN podfile.packages :
         p < q => Max(Sources(podfile.packages[p])) >= Max(Sources(podfile.packages[q]))

Names(key) == UNION {{e.name : e \in ToSet(chain[i][key])} : i \in 1..Depth}
Entries(list, n) == {e \in ToSet(list) : e.name = n /\ ~e.drop}

\* The nearest file that drops the name, or all that is inherited; the files up to it
\* that have an entry of the name; and that it does not both drop and give it.
Cut(key, n) ==
    Nearest({i \in 1..Depth : \E e \in ToSet(chain[i][key]) : e.name = n /\ e.drop}
            \cup Replacing(key))
Given(key, n) == {i \in 1..Cut(key, n) : Entries(chain[i][key], n) # {}}
Settled(key, n) == Cut(key, n) \in Given(key, n) => Cut(key, n) \in Replacing(key) \cup {Depth}

\* A service or a repository is there if a file gives it that is not beyond one that
\* drops it, or drops all of them.
EntriesRight ==
    \A key \in {"services", "repos"} : \A n \in Names(key) :
        Settled(key, n) => (Entries(podfile[key], n) # {} <=> Given(key, n) # {})

\* Its path is that of the nearest of these files that gives one, its branch that of the
\* nearest of them, for ParseRaw fills it in; several entries of a name in one file aside.
ReposRight ==
    \A n \in Names("repos") :
        LET given == Given("repos", n)
            own(i) == Entries(chain[i].repos, n)
            pathed == {i \in given : \E c \in own(i) : c.path # None}
        IN  Settled("repos", n) /\ (\A i \in given : \A a, b \in own(i) : a = b) =>
            \A e \in Entries(podfile.repos, n) :
                /\ \A c \in own(Min(given)) : e.branch = Or(c.branch, "main")
                /\ IF pathed = {} THEN e.path = None
                   ELSE \A c \in own(Min(pathed)) : e.path = c.path

\* A service is taken from the nearest file that has one of that name.
ServicesRight ==
    \A n \in Names("services") :
        LET own == {i \in 1..Depth : \E e \in ToSet(chain[i].services) : e.name = n /\ ~e.drop}
        IN  \A e \in ToSet(podfile.services) :
                e.name = n /\ ~e.drop => e \in ToSet(chain[Nearest(own)].services)

ExposeRight ==
    /\ ToSet(podfile.expose) = UNION {ToSet(chain[i].expose) : i \in 1..Depth}
    /\ Depth > 1 => Cardinality(ToSet(podfile.expose)) = Len(podfile.expose)

\* merge.go:5-7: the resolved Podfile is what the files say, one after the other, except
\* of the shell, which the file of the directory decides alone.
MergedRight ==
    answer = "resolved" =>
        /\ podfile.name = problem.first.name
        /\ ScalarsRight
        /\ EnvRight
        /\ AppendedRight
        /\ PackagesRight
        /\ EntriesRight
        /\ ReposRight
        /\ ServicesRight
        /\ ExposeRight

\* ports.go:14-18: a forwarded port has the next free port of the host, its own if that
\* is free, and under expose no other; auto forwards every exposed port, manual none
\* that was not asked for; and no port fails that could be forwarded.  It may be the port
\* that another one has got in the same call (PortsDistinct).
PortsAsPromised ==
    LET strategy == Or(podfile.scalars["strategy"], "auto")
        asked == ToSet(problem.flags)
                 \cup IF strategy = "manual" THEN {} ELSE ToSet(podfile.expose)
        near(p) == {q \in p..(p + Reach) : q <= LastPort /\ q \notin problem.taken}
    IN  bindings # None =>
        IF bindings.failed
        THEN \E p \in asked :
                \/ p \notin 1..LastPort
                \/ near(p) = {}
                \/ strategy = "expose" /\ p \in problem.taken
        ELSE /\ {b.container : b \in ToSet(bindings.ports)} = asked
             /\ \A b \in ToSet(bindings.ports) :
                  /\ b.host \in near(b.container)
                  /\ \A q \in near(b.container) : b.host <= q
                  /\ strategy = "expose" => b.host = b.container

-----------------------------------------------------------------------------
(* What comments and tests say of the two, and the code does not keep.     *)

\* A file that sets no shell inherits it, as a scalar that only one that is not empty
\* overrides; bash is the default of the Podfile that results.
InheritedShell ==
    answer = "resolved" =>
        LET set == {i \in 1..Depth : chain[i].scalars["shell"] # None} IN
        podfile.scalars["shell"] = Or(chain[Nearest(set)].scalars["shell"], "bash")

\* The next available port is not one that another forwarded port has got.
PortsDistinct ==
    bindings # None =>
        \A a, b \in ToSet(bindings.ports) : a.container # b.container => a.host # b.host

=============================================================================
