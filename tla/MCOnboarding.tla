--------------------------- MODULE MCOnboarding ---------------------------
(* Two workers on the outbox events of one onboarding record.              *)
EXTENDS Onboarding, TLC

CONSTANTS w1, w2

TwoWorkers == {w1, w2}
Symmetry == Permutations(TwoWorkers)
=============================================================================
