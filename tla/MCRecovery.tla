----------------------------- MODULE MCRecovery -----------------------------
(* One candidate and three scheduled backups.                               *)
EXTENDS Recovery, TLC
=============================================================================
