-------------------------- MODULE MCConfigJournal --------------------------
(* ConfigJournal with a few values and commits, for TLC.                   *)
EXTENDS ConfigJournal
=============================================================================
