------------------------- MODULE DeletionContract --------------------------
(***************************************************************************)
(* What the deletion of a candidate promises, with no job, object, lease   *)
(* or manifest in it: data is erased only during an execution that was     *)
(* approved, once and for all; a completed deletion is erased and proven   *)
(* and final; every decision carries a new version.                        *)
(***************************************************************************)
EXTENDS Integers

VARIABLES
  status,   \* status of the candidate's deletion request
  version,  \* its version, the handle of every decision about it
  erased,   \* the candidate is a tombstone
  proven    \* evidence of the deletion is in the ledger

state == <<status, version, erased, proven>>

ContractInit == status = "none" /\ version = 1 /\ ~erased /\ ~proven

Move(from, to) == status = from /\ status' = to /\ UNCHANGED <<erased, proven>>
Decide(from, to) == Move(from, to) /\ version' = version + 1

Ask      == Move("none", "requested") /\ UNCHANGED version
Refresh  == Decide("requested", "requested")
Approve  == Decide("requested", "approved") \/ Decide("failed", "approved")
Suspend  == Decide("approved", "failed")
Begin    == Move("approved", "executing") /\ UNCHANGED version
Fail     == Decide("executing", "failed")
Erase    == status = "executing" /\ ~erased /\ erased' /\ UNCHANGED <<status, version, proven>>
Prove    == erased /\ ~proven /\ proven' /\ UNCHANGED <<status, version, erased>>
Finish   == erased /\ proven /\ Move("executing", "completed") /\ UNCHANGED version

ContractNext ==
  Ask \/ Refresh \/ Approve \/ Suspend \/ Begin \/ Fail \/ Erase \/ Prove \/ Finish

ContractSpec == ContractInit /\ [][ContractNext]_state
=============================================================================
