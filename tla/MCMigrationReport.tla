-------------------------- MODULE MCMigrationReport --------------------------
(* The reports of the runs of one guest, or of two in turn.                 *)
EXTENDS MigrationReport

CONSTANTS a, b     \* guests
=============================================================================
