------------------------ MODULE MCCandidateDeletion -------------------------
(* Small instances of CandidateDeletion for TLC.                            *)
EXTENDS CandidateDeletion, TLC

CONSTANTS p1, p2, f1, x, r1, r2, a, u1, u2

MCUsers == {u1, u2}
TwoProcs == {p1, p2}
OneRow == {r1}
NoRow == {}
Symmetry == Permutations(MCUsers) \cup Permutations(TwoProcs)
=============================================================================
