----------------------------- MODULE MCJobQueue -----------------------------
(* Small instances of JobQueue for TLC.                                     *)
EXTENDS JobQueue, TLC

CONSTANTS j1, j2, p1, p2, q1, q2, k1

(* Two rows: an e-mail or screening job whose owner is told of its death,   *)
(* and an LLM finalizer whose attempts are renewed in batches of one.       *)
MCJobs      == {j1, j2}
MCProcs     == {p1, p2}
MCProducers == {q1, q2}
MCIdOf      == [p \in MCProcs |-> p]   \* every process has a WORKER_ID of its own
MCCallback  == [j \in MCJobs |-> IF j = j1 THEN "notify" ELSE "recover"]
MCPriority  == [j \in MCJobs |-> IF j = j1 THEN 1 ELSE 0]
MCMax       == [j \in MCJobs |-> IF j = j1 THEN 2 ELSE 1]
MCDelay     == [n \in 1..2 |-> 1]
MCDelays    == {0}

(* The rows share a dedupe key: one is active at a time.                    *)
SharedKey   == [j \in MCJobs |-> k1]

Symmetry == Permutations(MCProcs) \cup Permutations(MCProducers)
=============================================================================
