---------------------------- MODULE MCMigration ----------------------------
(* Two providers a and b; the corpus starts out embedded under a.          *)
EXTENDS Migration

CONSTANTS a, b
=============================================================================
