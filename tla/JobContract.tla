---------------------------- MODULE JobContract -----------------------------
(***************************************************************************)
(* What the job queue promises to the code that enqueues jobs and to the   *)
(* handlers it runs, with no clock, lease, worker or transaction in it:    *)
(* a job is handed out at most `budget' times, moves only along the arrows *)
(* below, ends in one status for good, and its owner is told of its death  *)
(* in the step that buries it.  Several jobs may move in one step: a claim *)
(* also reaps.                                                             *)
(***************************************************************************)
EXTENDS Integers

CONSTANTS Jobs, NoKey, KeyOf, CallbackOf, Budget, AttemptBatch, AttemptCap

VARIABLE job   \* status, tries, budget and told of every job

Live == {"queued", "running"}

ContractInit ==
  job = [j \in Jobs |-> [status |-> "absent", tries |-> 0, budget |-> Budget[j], told |-> 0]]

Submit(a, b)  == a.status = "absent" /\ b = [a EXCEPT !.status = "queued"]
HandOut(a, b) == /\ a.status = "queued" /\ a.tries < a.budget
                 /\ b = [a EXCEPT !.status = "running", !.tries = @ + 1]
Retry(a, b)   == /\ a.status = "running" /\ a.tries < a.budget
                 /\ b = [a EXCEPT !.status = "queued"]
(* Its lease expired and the reaping claim handed it out again at once.    *)
HandOver(a, b) == a.status = "running" /\ a.tries < a.budget /\ b = [a EXCEPT !.tries = @ + 1]
(* The finalizer of the LLM pipeline gets a new batch instead of dying.    *)
Renew(j, a, b) == /\ CallbackOf[j] = "recover" /\ a.status = "running"
                  /\ a.tries = a.budget /\ a.budget + AttemptBatch <= AttemptCap
                  /\ b = [a EXCEPT !.status = "queued", !.budget = @ + AttemptBatch]
Complete(a, b) == a.status = "running" /\ b = [a EXCEPT !.status = "succeeded"]
Bury(j, a, b)  == /\ a.status = "running"
                  /\ b = [a EXCEPT !.status = "dead_letter",
                                   !.told = IF CallbackOf[j] = "notify" THEN 1 ELSE 0]
Drop(a, b)     == a.status \in Live /\ b = [a EXCEPT !.status = "cancelled"]

Move(j, a, b) ==
  \/ Submit(a, b) \/ HandOut(a, b) \/ Retry(a, b) \/ HandOver(a, b) \/ Renew(j, a, b)
  \/ Complete(a, b) \/ Bury(j, a, b) \/ Drop(a, b)

(* No two live jobs share a dedupe key.                                    *)
KeysDistinct(s) ==
  \A j, k \in Jobs : (j # k /\ KeyOf[j] = KeyOf[k] /\ KeyOf[j] # NoKey)
                       => ~(s[j].status \in Live /\ s[k].status \in Live)

ContractNext ==
  /\ DOMAIN job' = Jobs
  /\ \A j \in Jobs : job'[j] = job[j] \/ Move(j, job[j], job'[j])
  /\ KeysDistinct(job')

ContractSpec == ContractInit /\ [][ContractNext]_job
=============================================================================
