------------------------------ MODULE MCPodfiles ------------------------------
(* Instances of Podfiles for TLC: chains in which one field varies, for no *)
(* field depends on another; ways that extends may lead; and ports.        *)
EXTENDS Podfiles

File(field, values) == {[Empty EXCEPT ![field] = v] : v \in values}

Bang(field, files) == files \cup {[f EXCEPT !.bang = {field}] : f \in files}

Lists(items, n) == {l \in BoundedSeq(items, n) : IsInjective(l)}

Nothing == [r \in Refs |-> Missing]

Straight(a, b, c) ==
    [first |-> [a EXCEPT !.extends = "r1"],
     files |-> [r \in Refs |-> CASE r = "r1" -> [b EXCEPT !.extends = "r2"]
                                 [] r = "r2" -> c
                                 [] OTHER -> Missing],
     cached |-> Nothing, upstream |-> Nothing, taken |-> {}, flags |-> <<>>]

Chains(field, near, mid, far) ==
    {Straight(a, b, c) : a \in Bang(field, File(field, near)),
                         b \in Bang(field, File(field, mid)), c \in File(field, far)}

Packages == [name : {"x", "y"}, drop : BOOLEAN]
Plain(n) == [name |-> n, drop |-> FALSE]
Service(n, d, i) == [name |-> n, drop |-> d, image |-> i]
Services ==
    {Service("x", FALSE, "i"), Service("x", FALSE, "j"), Service("x", TRUE, "i"),
     Service("y", FALSE, "i")}
Repo(n, d, p, b) == [name |-> n, drop |-> d, path |-> p, branch |-> b]
Repos ==
    {Repo("x", FALSE, "p", None), Repo("x", FALSE, None, "b"), Repo("x", TRUE, None, None),
     Repo("y", FALSE, None, None)}

Fields ==
    Chains("packages", Lists(Packages, 2), Lists(Packages, 1),
           {<<>>, <<Plain("x")>>, <<Plain("x"), Plain("y")>>, <<Plain("x"), Plain("x")>>})
    \cup Chains("services", Lists(Services, 2), Lists(Services, 1),
           {<<>>, <<Service("x", FALSE, "j")>>,
            <<Service("y", FALSE, "j"), Service("x", FALSE, "i")>>})
    \cup Chains("repos", Lists(Repos, 2), Lists(Repos, 1),
           {<<>>, <<Repo("x", FALSE, None, "c")>>,
            <<Repo("y", FALSE, "q", None), Repo("x", FALSE, "q", "c")>>})
    \cup LET env == [Keys -> {None, "", "v", "w"}] IN Chains("env", env, env, env)
    \cup LET lines == Lists({"l", "m"}, 1) IN
         UNION {Chains(f, lines, lines, lines) : f \in {"on_create", "on_start", "commands"}}
    \cup {Straight(a, b, c) : a, b, c \in
            File("scalars", {[Empty.scalars EXCEPT !["base"] = v, !["shell"] = w] :
                                v, w \in {None, "a", "b"}})}
    \cup {Straight(a, b, c) : a, b, c \in File("expose", Lists({1, 2}, 2))}
    \cup {Straight(a, b, Empty) : a, b \in File("name", {None, "v"})}

\* Files that extend one another in every way, some of them in a cache that is
\* refreshed.
Extending == File("extends", Refs \cup {None})

Ways ==
    {[first |-> a, files |-> f, cached |-> [Nothing EXCEPT !["r1"] = c],
      upstream |-> [Nothing EXCEPT !["r1"] = u], taken |-> {}, flags |-> <<>>] :
        a \in Extending, f \in [Refs -> Extending \cup {Missing, Malformed}],
        c \in {Missing, [Empty EXCEPT !.extends = "r2"], [Empty EXCEPT !.bang = {"name"}]},
        u \in {Missing, Empty}}

Forwarding ==
    {[first |-> [Empty EXCEPT !.expose = e, !.scalars["strategy"] = s],
      files |-> Nothing, cached |-> Nothing, upstream |-> Nothing,
      taken |-> t, flags |-> f] :
        e \in Lists({1, 2, 4}, 2), s \in {None, "auto", "manual", "expose"},
        t \in SUBSET (1..4), f \in {<<>>, <<0>>, <<2>>, <<4>>, <<2, 2>>}}

MCProblems == Fields \cup Ways \cup Forwarding

=============================================================================
