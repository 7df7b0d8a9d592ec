----------------------------- MODULE MCMigrateVm -----------------------------
(* The migrate-vm workflow for one or two guests.                           *)
EXTENDS MigrateVm

CONSTANTS a, b     \* guests
=============================================================================
