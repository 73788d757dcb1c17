--------------------------- MODULE MCProvisioning ---------------------------
(* Instances of Provisioning for TLC.                                      *)
EXTENDS Provisioning

CONSTANTS l1, l2, g1, s1, d1
=============================================================================
