------------------------------ MODULE MCUserLock ------------------------------
(* Instances of UserLock for TLC.                                          *)
EXTENDS UserLock, TLC

CONSTANTS l1, l2, l3, r1, r2, p1, p2

LoginNames == Permutations(Logins)
=============================================================================
