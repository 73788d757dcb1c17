---------------------------- MODULE MCWorkspaces ----------------------------
(* Instances of Workspaces for TLC.                                        *)
EXTENDS Workspaces, TLC

CONSTANTS c1, c2, s1, r1, w1, x1, b1, b2

Alike == Permutations({c1, c2}) \cup Permutations({b1, b2})

=============================================================================
