------------------------------ MODULE MCProjects ------------------------------
(* Instances of Projects for TLC.                                          *)
EXTENDS Projects, TLC

CONSTANTS a1, a2, u1, u2, m1, n1, n2, f1, f2

Alike ==
    Permutations({a1, a2}) \cup Permutations({u1, u2}) \cup Permutations({n1, n2})
    \cup Permutations({f1, f2})

=============================================================================
