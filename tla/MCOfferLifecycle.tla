-------------------------- MODULE MCOfferLifecycle --------------------------
(* Small instances of OfferLifecycle for TLC.                               *)
EXTENDS OfferLifecycle, TLC

CONSTANTS w1, w2

OneWorker == {w1}
TwoWorkers == {w1, w2}
Symmetry == Permutations(TwoWorkers)
LongChain == {2}
=============================================================================
