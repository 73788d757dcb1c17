----------------------------- MODULE PodfileMerge -----------------------------
(***************************************************************************)
(* What one Podfile inherits from another: ParseRaw and Merge.             *)
(*                                                                         *)
(* A Podfile is a record.  Its scalar fields (base, shell, mode, ...) are  *)
(* one function, None standing for the empty value.  A list item or a name *)
(* that is written with a leading "!" has drop = TRUE.  on_create and      *)
(* on_start are sequences of the lines that each file contributes.  bang   *)
(* is the set of the keys that are written with a trailing "!".            *)
(***************************************************************************)
EXTENDS Naturals, Sequences, SequencesExt

CONSTANTS
    Scalars,    \* the scalar fields, "shell" and "strategy" among them
    Keys,       \* of env
    Malformed,  \* what is no Podfile
    None

ASSUME DefaultsAssumption ==
    /\ {"shell", "strategy"} \subseteq Scalars
    /\ None \notin {"", "bash", "main"}

Empty ==
    [extends |-> None, name |-> None, scalars |-> [s \in Scalars |-> None],
     packages |-> <<>>, env |-> [k \in Keys |-> None], commands |-> <<>>,
     on_create |-> <<>>, on_start |-> <<>>, services |-> <<>>, repos |-> <<>>,
     expose |-> <<>>, bang |-> {}]

BangFields == {"packages", "env", "services", "repos", "commands", "on_create", "on_start"}

Or(value, default) == IF value = None THEN default ELSE value

DefaultBranch(repo) == [repo EXCEPT !.branch = Or(@, "main")]
DefaultBranches(file) == [file EXCEPT !.repos = [i \in DOMAIN @ |-> DefaultBranch(@[i])]]
DefaultShell(file) == [file EXCEPT !.scalars["shell"] = Or(@, "bash")]

\* A key twice, with and without "!", or a "!" on another key is an error.  The
\* defaults are filled in for every file, whether others extend it or it others.
ParseRaw(file) ==
    IF file = Malformed \/ ~(file.bang \subseteq BangFields) THEN Malformed
    ELSE DefaultBranches(DefaultShell(file))

\* Each value once, where it occurs first: the map seen of mergeStringList and of
\* dedupeInts.
Unique(list) ==
    LET Seen[n \in 0..Len(list)] ==
            IF n = 0 THEN <<>>
            ELSE LET before == Seen[n - 1]
                 IN  IF Contains(before, list[n]) THEN before ELSE Append(before, list[n])
    IN  Seen[Len(list)]

\* The entries of a list that are in a set, in their order.
Keep(list, set) ==
    LET Kept[n \in 0..Len(list)] ==
            IF n = 0 THEN <<>>
            ELSE IF list[n] \in set THEN Append(Kept[n - 1], list[n]) ELSE Kept[n - 1]
    IN  Kept[Len(list)]

Additions(child) == Keep(child, {c \in ToSet(child) : ~c.drop})
Removals(child) == {[item EXCEPT !.drop = FALSE] : item \in {c \in ToSet(child) : c.drop}}

\* Mutant: what the child drops, it does not add either.
MergeListDropping(base, child) ==
    LET all == base \o Additions(child) IN Unique(Keep(all, ToSet(all) \ Removals(child)))

\* mergeStringList: what the child drops of the base, it may still add.
MergeList(base, child) ==
    Unique(Keep(base, ToSet(base) \ Removals(child)) \o Additions(child))

MergeEnv(base, child) ==
    [k \in Keys |-> CASE child[k] = None -> base[k]
                      [] child[k] = "" -> None
                      [] OTHER -> child[k]]

\* mergeServices and mergeRepos.  What the child drops is gone, even if it also
\* overrides it; of several entries that override, the last one does.
Same(b, c) == ~b.drop /\ ~c.drop /\ b.name = c.name
Dropped(b, child) == \E c \in ToSet(child) : c.drop /\ ~b.drop /\ c.name = b.name
Overriding(b, child) == Keep(child, {c \in ToSet(child) : Same(b, c)})
Remaining(base, child) == Keep(base, {b \in ToSet(base) : ~Dropped(b, child)})
Added(base, child) ==
    Keep(child, {c \in ToSet(child) : ~c.drop /\ ~ \E b \in ToSet(base) : Same(b, c)})

MergeServices(base, child) ==
    LET merged == [b \in ToSet(base) |->
                      IF Overriding(b, child) = <<>> THEN b ELSE Last(Overriding(b, child))]
        kept == Remaining(base, child)
    IN  [i \in DOMAIN kept |-> merged[kept[i]]] \o Added(base, child)

WithPath(repo, c) == [repo EXCEPT !.path = Or(c.path, @)]
WithBranch(repo, c) == [repo EXCEPT !.branch = Or(c.branch, @)]

\* The fields that the child gives override those of the first entry of that name.
MergeRepos(base, child) ==
    LET First(b) == Keep(base, {a \in ToSet(base) : Same(a, b)})[1]
        merged == [b \in ToSet(base) |->
                      IF Overriding(b, child) = <<>> THEN b
                      ELSE LET c == Last(Overriding(b, child))
                           IN  WithBranch(WithPath(First(b), c), c)]
        kept == Remaining(base, child)
    IN  [i \in DOMAIN kept |-> merged[kept[i]]] \o Added(base, child)

Merge(base, child) ==
    LET Unless(key, own, merged) == IF key \in child.bang THEN own ELSE merged IN
    [extends |-> None,
     name |-> child.name,
     scalars |-> [s \in Scalars |-> Or(child.scalars[s], base.scalars[s])],
     packages |-> Unless("packages", child.packages,
                    IF child.packages = <<>> THEN base.packages
                    ELSE MergeList(base.packages, child.packages)),
     env |-> Unless("env", child.env, MergeEnv(base.env, child.env)),
     commands |-> Unless("commands", child.commands, base.commands \o child.commands),
     on_create |-> Unless("on_create", child.on_create, base.on_create \o child.on_create),
     on_start |-> Unless("on_start", child.on_start, base.on_start \o child.on_start),
     services |-> Unless("services", child.services,
                    MergeServices(base.services, child.services)),
     repos |-> Unless("repos", child.repos, MergeRepos(base.repos, child.repos)),
     expose |-> Unique(base.expose \o child.expose),
     bang |-> {}]

\* resolveChain on its way back: the chain has the file that extends first, and
\* last the one that extends nothing.
MergeChain(chain) ==
    LET Merged[n \in 1..Len(chain)] ==
            IF n = 1 THEN Last(chain) ELSE Merge(Merged[n - 1], chain[Len(chain) + 1 - n])
    IN  Merged[Len(chain)]
=============================================================================
