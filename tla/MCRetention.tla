---------------------------- MODULE MCRetention ----------------------------
(* One candidate, two applications, one ordinary pool beside the system's.  *)
EXTENDS Retention, TLC

MCValues == {[terminal |-> 1, talent |-> 2], [terminal |-> 2, talent |-> 1]}
=============================================================================
