------------------------------ MODULE Erasure ------------------------------
(***************************************************************************)
(* The order of a deletion across the three stores, with no request, job   *)
(* or worker in it: a candidate's files go first, then the personal data,  *)
(* which leaves a tombstone of the next version, and then evidence of the  *)
(* version that was erased is written, once; nothing comes back.  The      *)
(* deletion in full keeps to it, the backups assume it, and the recovery   *)
(* repeats it.                                                             *)
(***************************************************************************)
EXTENDS Integers

CONSTANTS People, Nothing

VARIABLES
  held,     \* candidates of whom a file is stored
  version,  \* of each candidate
  erased,   \* candidates who are tombstones
  proof     \* the version of which there is evidence that it was erased

stores == <<held, version, erased, proof>>

ErasureInit ==
  /\ held \in SUBSET People /\ erased = {}
  /\ version = [c \in People |-> 1] /\ proof = [c \in People |-> Nothing]

NewVersion(c) == version' = [version EXCEPT ![c] = @ + 1]

Correct(c) == c \notin erased /\ NewVersion(c) /\ UNCHANGED <<held, erased, proof>>
Keep(c)    == c \notin erased /\ held' = held \cup {c} /\ UNCHANGED <<version, erased, proof>>
Discard(c) == held' = held \ {c} /\ UNCHANGED <<version, erased, proof>>
Erase(c)   == /\ c \notin held \cup erased
              /\ erased' = erased \cup {c} /\ NewVersion(c) /\ UNCHANGED <<held, proof>>
Prove(c)   == /\ c \in erased /\ proof[c] = Nothing
              /\ proof' = [proof EXCEPT ![c] = version[c] - 1]
              /\ UNCHANGED <<held, version, erased>>

ErasureNext ==
  \E c \in People : Correct(c) \/ Keep(c) \/ Discard(c) \/ Erase(c) \/ Prove(c)

ErasureSpec == ErasureInit /\ [][ErasureNext]_stores
=============================================================================
