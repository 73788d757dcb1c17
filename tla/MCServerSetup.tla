---------------------------- MODULE MCServerSetup ----------------------------
(* Instances of ServerSetup for TLC.                                       *)
EXTENDS ServerSetup, TLC

CONSTANTS s1, s2

Alike == Permutations({s1, s2})
=============================================================================
