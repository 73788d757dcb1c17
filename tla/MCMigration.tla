----------------------------- MODULE MCMigration -----------------------------
(* Instances of Migration for TLC.                                         *)
EXTENDS Migration

CONSTANTS a, b, n
=============================================================================
