---------------------------- MODULE MCTruenasRpc ----------------------------
(* One session of up to three calls after its login.                        *)
EXTENDS TruenasRpc
=============================================================================
