----------------------------- MODULE MCRecovery -----------------------------
(* Recovery on a small world, for TLC.                                     *)
EXTENDS Recovery
=============================================================================
