------------------------------ MODULE JobQueue ------------------------------
(***************************************************************************)
(* The background_jobs table and its leases, as QueueRepository moves them *)
(* (server/app/queue/repository.py), driven by worker processes            *)
(* (server/app/worker/main.py), by request handlers that enqueue and by    *)
(* services that cancel.                                                   *)
(*                                                                         *)
(* Every call of the repository runs in a database transaction whose       *)
(* CURRENT_TIMESTAMP is the time the transaction STARTED, while its row    *)
(* locks, and so its reads and writes, take effect later.  A transaction   *)
(* is therefore two steps here: Begin... notes the clock, Commit... reads  *)
(* and writes the rows with that note as `now'.                            *)
(*                                                                         *)
(* One organisation is modelled: the choice among organisations is the     *)
(* claim cursor's (queue/runtime.py).  Payloads, trace ids and             *)
(* timestamps that no condition reads are left out.                        *)
(***************************************************************************)
EXTENDS Integers, FiniteSets

CONSTANTS
  Jobs,          \* rows of background_jobs that may come to exist
  Procs,         \* worker processes
  Producers,     \* transactions that enqueue concurrently
  WorkerIds,     \* values of lease_owner
  WorkerIdOf,    \* WORKER_ID of each process
  Keys, NoKey,   \* dedupe keys of one (organization, type); NULL
  KeyOf,         \* dedupe_key of each row
  CallbackOf,    \* what the type's terminal callback does with the row
  Priority,      \* priority of each row
  MaxAttempts,   \* max_attempts each row is inserted with
  AttemptBatch,  \* _LLM_FINALIZER_ATTEMPT_BATCH
  AttemptCap,    \* _MAX_JOB_ATTEMPTS, the largest max_attempts
  LeaseSeconds, RetryDelay, ReapBatch,
  EnqueueDelays, \* how far in the future callers put run_after
  MaxTime,       \* bound on the clock
  None           \* NULL

ASSUME ConstantsAssumption ==
  /\ WorkerIdOf \in [Procs -> WorkerIds] /\ None \notin WorkerIds
  /\ IsFiniteSet(Jobs) /\ None \notin Jobs
  /\ KeyOf \in [Jobs -> Keys \cup {NoKey}] /\ NoKey \notin Keys
  /\ CallbackOf \in [Jobs -> {"none", "notify", "recover"}]
  /\ Priority \in [Jobs -> Int]
  /\ AttemptCap \in Nat \ {0} /\ AttemptBatch \in Nat \ {0}
  /\ MaxAttempts \in [Jobs -> 1..AttemptCap]
  /\ LeaseSeconds \in Nat \ {0}
  /\ RetryDelay \in [1..AttemptCap -> Nat \ {0}]
  /\ ReapBatch \in Nat \ {0}
  /\ EnqueueDelays \subseteq Nat
  /\ MaxTime \in Nat

VARIABLES
  clock,     \* wall-clock time of the database
  jobs,      \* the rows of background_jobs
  attempt,   \* job_attempts: result of attempt number n of job j
  work,      \* the item a process is handling, with its attempt number
  tx,        \* the claim or completion transaction a process has open
  beat,      \* the heartbeat transaction a process has open
  prod,      \* the row an enqueuing transaction is about to insert
  notified   \* how often the terminal callback told the owner of a job

vars == <<clock, jobs, attempt, work, tx, beat, prod, notified>>

-----------------------------------------------------------------------------
Active   == {"queued", "running"}
Terminal == {"succeeded", "cancelled", "dead_letter"}
Results  == {"none", "open", "succeeded", "failed", "abandoned", "cancelled"}
(* How a handler ends: it returns, raises a retryable error (two safe codes *)
(* that the finalizer's recovery tells apart), or a permanent one.          *)
Outcomes == {"succeed", "retry", "unavailable", "permanent"}

Row == [status : {"absent"} \cup Active \cup Terminal, attempts : 0..AttemptCap,
        max : 1..AttemptCap, runAfter : Nat, owner : WorkerIds \cup {None},
        lease : Nat]

NoWork == [job |-> None, no |-> 0]
NoTx   == [op |-> "none", start |-> 0, outcome |-> "succeed"]
NoBeat == [job |-> None, no |-> 0, start |-> 0]
NoRow  == [job |-> None, start |-> 0]

TypeOK ==
  /\ clock \in 0..MaxTime
  /\ jobs \in [Jobs -> Row]
  /\ attempt \in [Jobs -> [1..AttemptCap -> Results]]
  /\ work \in [Procs -> [job : Jobs \cup {None}, no : 0..AttemptCap]]
  /\ tx \in [Procs -> [op : {"none", "claim", "finish"}, start : 0..MaxTime,
                       outcome : Outcomes]]
  /\ beat \in [Procs -> [job : Jobs \cup {None}, no : 0..AttemptCap,
                         start : 0..MaxTime]]
  /\ prod \in [Producers -> [job : Jobs \cup {None}, start : 0..MaxTime]]
  /\ notified \in [Jobs -> 0..1]

Init ==
  /\ clock = 0
  /\ jobs = [j \in Jobs |-> [status |-> "absent", attempts |-> 0,
                             max |-> MaxAttempts[j], runAfter |-> 0,
                             owner |-> None, lease |-> 0]]
  /\ attempt = [j \in Jobs |-> [n \in 1..AttemptCap |-> "none"]]
  /\ work = [p \in Procs |-> NoWork]
  /\ tx = [p \in Procs |-> NoTx]
  /\ beat = [p \in Procs |-> NoBeat]
  /\ prod = [q \in Producers |-> NoRow]
  /\ notified = [j \in Jobs |-> 0]

-----------------------------------------------------------------------------
(* Helpers on one row.                                                      *)

(* _clear_lease: the row gives up its lease.                                *)
Unleased(row) == [row EXCEPT !.owner = None, !.lease = 0]

(* The row after _terminal ran on a row just dead-lettered: the callback of *)
(* the finalizer's type grants a fresh batch of attempts when the last      *)
(* failure was the queue's and none is left; the others leave the row.      *)
AfterTerminal(j, row, recoverable, now) ==
  IF /\ CallbackOf[j] = "recover" /\ recoverable
     /\ row.attempts >= row.max /\ row.max <= AttemptCap - AttemptBatch
  THEN [row EXCEPT !.max = @ + AttemptBatch, !.status = "queued",
                   !.runAfter = now + RetryDelay[row.attempts]]
  ELSE row

(* A deviation from the code, as those below: each is swapped in for the    *)
(* definition that follows it to see which property notices.  Deviation:    *)
(* the reaper gives the attempt back.                                       *)
AbandonedRefunded(j, now) ==
  [Unleased(jobs[j]) EXCEPT !.status = "queued", !.runAfter = now, !.attempts = @ - 1]

(* The row _abandon_expired leaves for a running row whose lease expired.   *)
Abandoned(j, now) ==
  LET freed == [Unleased(jobs[j]) EXCEPT !.runAfter = now]
  IN IF freed.attempts < freed.max THEN [freed EXCEPT !.status = "queued"]
     ELSE AfterTerminal(j, [freed EXCEPT !.status = "dead_letter"], TRUE, now)

(* The row fail() leaves.                                                   *)
Failed(j, outcome, now) ==
  LET freed == Unleased(jobs[j])
  IN IF outcome # "permanent" /\ freed.attempts < freed.max
     THEN [freed EXCEPT !.status = "queued", !.runAfter = now + RetryDelay[freed.attempts]]
     ELSE AfterTerminal(j, [freed EXCEPT !.status = "dead_letter"],
                        outcome = "unavailable", now)

(* The row succeed() leaves.                                                *)
Succeeded(j) == [Unleased(jobs[j]) EXCEPT !.status = "succeeded"]

(* Callbacks that tell the job's owner (email, screening, report,           *)
(* governance, password recovery) that the job is dead.                     *)
Told(j, row) == IF CallbackOf[j] = "notify" /\ row.status = "dead_letter" THEN 1 ELSE 0

(* Deviation: any worker may complete a leased job.                         *)
OwnedByAnyone(j, id, now) ==
  jobs[j].status = "running" /\ jobs[j].lease > now /\ attempt[j][jobs[j].attempts] = "open"

(* _owned: the caller's worker id holds an unexpired lease and the attempt  *)
(* numbered `attempts' is still open.  The attempt number the caller        *)
(* claimed is not compared.                                                 *)
Owned(j, id, now) ==
  /\ jobs[j].status = "running"
  /\ jobs[j].owner = id
  /\ jobs[j].lease > now
  /\ attempt[j][jobs[j].attempts] = "open"

Expired(j, now) == jobs[j].status = "running" /\ jobs[j].lease < now

(* Rows another open transaction holds FOR UPDATE: SKIP LOCKED passes over  *)
(* any of them.                                                             *)
Lockable(p) ==
  {j \in Jobs : \/ \E q \in Procs \ {p} : tx[q].op = "finish" /\ work[q].job = j
                \/ \E q \in Procs : beat[q].job = j}

(* claim's ORDER BY priority DESC, run_after (creation time breaks ties).   *)
Before(j, runAfter, k, runAfterK) ==
  \/ Priority[j] > Priority[k]
  \/ Priority[j] = Priority[k] /\ runAfter <= runAfterK
-----------------------------------------------------------------------------
(* enqueue, in two statements of one transaction.                           *)

(* Is there an active row with the dedupe key of j?                         *)
KeyTaken(j) ==
  KeyOf[j] # NoKey /\ \E k \in Jobs : KeyOf[k] = KeyOf[j] /\ jobs[k].status \in Active

(* The SELECT found no active row with the key (or there is no key).        *)
BeginEnqueue(q, j) ==
  /\ prod[q] = NoRow
  /\ jobs[j].status = "absent"
  /\ \A r \in Producers : prod[r].job # j
  /\ ~KeyTaken(j)
  /\ prod' = [prod EXCEPT ![q] = [job |-> j, start |-> clock]]
  /\ UNCHANGED <<clock, jobs, attempt, work, tx, beat, notified>>

(* Deviation: no unique index behind the SELECT.                            *)
CommitEnqueueUnindexed(q) ==
  /\ prod[q].job # None
  /\ jobs' = [jobs EXCEPT ![prod[q].job] = [@ EXCEPT !.status = "queued"]]
  /\ prod' = [prod EXCEPT ![q] = NoRow]
  /\ UNCHANGED <<clock, attempt, work, tx, beat, notified>>

(* The INSERT passes the partial unique index and commits.                  *)
CommitEnqueue(q) ==
  LET j == prod[q].job
  IN /\ j # None
     /\ ~KeyTaken(j)
     /\ \E delay \in EnqueueDelays :
          jobs' = [jobs EXCEPT ![j] = [@ EXCEPT !.status = "queued", !.runAfter = prod[q].start + delay]]
     /\ prod' = [prod EXCEPT ![q] = NoRow]
     /\ UNCHANGED <<clock, attempt, work, tx, beat, notified>>

(* The INSERT violates the index: the savepoint is rolled back and the      *)
(* caller gets the active row, or the error when it is gone by then.        *)
RejectEnqueue(q) ==
  /\ prod[q].job # None
  /\ KeyTaken(prod[q].job)
  /\ prod' = [prod EXCEPT ![q] = NoRow]
  /\ UNCHANGED <<clock, jobs, attempt, work, tx, beat, notified>>

-----------------------------------------------------------------------------
(* The claim of an idle process: reap, then take the first due row.         *)

BeginClaim(p) ==
  /\ work[p] = NoWork /\ tx[p] = NoTx
  /\ tx' = [tx EXCEPT ![p] = [op |-> "claim", start |-> clock, outcome |-> "succeed"]]
  /\ UNCHANGED <<clock, jobs, attempt, work, beat, prod, notified>>

(* The sets _abandon_expired may pick: the ReapBatch rows whose leases      *)
(* expired first.                                                           *)
ReapChoices(unlocked, now) ==
  LET expired == {j \in unlocked : Expired(j, now)}
  IN {r \in SUBSET expired :
        /\ Cardinality(r) <= ReapBatch
        /\ r # expired => Cardinality(r) = ReapBatch
        /\ \A a \in r, b \in expired \ r : jobs[a].lease <= jobs[b].lease}

(* What the reaped rows and their attempts become; the others stay.         *)
RowAfterReap(j, reaped, now) == IF j \in reaped THEN Abandoned(j, now) ELSE jobs[j]
AttemptsAfterReap(j, reaped) ==
  IF j \in reaped THEN [attempt[j] EXCEPT ![jobs[j].attempts] = "abandoned"] ELSE attempt[j]

(* The row of a claimed job.                                                *)
Claimed(row, id, now) ==
  [row EXCEPT !.status = "running", !.attempts = @ + 1, !.owner = id, !.lease = now + LeaseSeconds]

(* The rows claim may take: due, not locked, first in its order.            *)
Choices(unlocked, reaped, now) ==
  LET due == {j \in unlocked : /\ RowAfterReap(j, reaped, now).status = "queued"
                               /\ RowAfterReap(j, reaped, now).runAfter <= now}
  IN {j \in due : \A k \in due : Before(j, RowAfterReap(j, reaped, now).runAfter,
                                        k, RowAfterReap(k, reaped, now).runAfter)}

(* The reaper's and claim's writes; nothing is taken when `taken' is None.  *)
WriteClaim(p, taken, reaped, now) ==
  /\ jobs' = [j \in Jobs |-> IF j = taken
                THEN Claimed(RowAfterReap(j, reaped, now), WorkerIdOf[p], now)
                ELSE RowAfterReap(j, reaped, now)]
  /\ attempt' = [j \in Jobs |-> IF j = taken
                   THEN [AttemptsAfterReap(j, reaped) EXCEPT ![jobs[j].attempts + 1] = "open"]
                   ELSE AttemptsAfterReap(j, reaped)]
  /\ notified' = [j \in Jobs |-> IF j \in reaped
                    THEN notified[j] + Told(j, Abandoned(j, now)) ELSE notified[j]]
  /\ work' = IF taken = None THEN work
             ELSE [work EXCEPT ![p] = [job |-> taken, no |-> jobs[taken].attempts + 1]]

CommitClaim(p) ==
  /\ tx[p].op = "claim"
  /\ \E locked \in SUBSET Lockable(p) :
     \E reaped \in ReapChoices(Jobs \ locked, tx[p].start) :
       LET choices == Choices(Jobs \ locked, reaped, tx[p].start)
       IN \E taken \in IF choices = {} THEN {None} ELSE choices :
            WriteClaim(p, taken, reaped, tx[p].start)
  /\ tx' = [tx EXCEPT ![p] = NoTx]
  /\ UNCHANGED <<clock, beat, prod>>

-----------------------------------------------------------------------------
(* Heartbeats: a thread of their own, which outlives the handler.           *)

BeginBeat(p) ==
  /\ work[p] # NoWork /\ tx[p] = NoTx /\ beat[p] = NoBeat
  /\ beat' = [beat EXCEPT ![p] = [job |-> work[p].job, no |-> work[p].no, start |-> clock]]
  /\ UNCHANGED <<clock, jobs, attempt, work, tx, prod, notified>>

(* The lease is extended from the transaction's start, even when the handler *)
(* has finished meanwhile.  A rejected heartbeat makes the process drop the  *)
(* item it was beating for, without completing it.                           *)
CommitBeat(p) ==
  LET b == beat[p]
  IN /\ b # NoBeat
     /\ \/ /\ Owned(b.job, WorkerIdOf[p], b.start)
           /\ jobs' = [jobs EXCEPT ![b.job].lease = b.start + LeaseSeconds]
           /\ UNCHANGED work
        \/ /\ ~Owned(b.job, WorkerIdOf[p], b.start)
           /\ work' = IF work[p] = [job |-> b.job, no |-> b.no] /\ tx[p] = NoTx
                      THEN [work EXCEPT ![p] = NoWork] ELSE work
           /\ UNCHANGED jobs
     /\ beat' = [beat EXCEPT ![p] = NoBeat]
     /\ UNCHANGED <<clock, attempt, tx, prod, notified>>

-----------------------------------------------------------------------------
(* Completion: the handler ended, the process records how.                  *)

BeginFinish(p, outcome) ==
  /\ work[p] # NoWork /\ tx[p] = NoTx
  /\ tx' = [tx EXCEPT ![p] = [op |-> "finish", start |-> clock, outcome |-> outcome]]
  /\ UNCHANGED <<clock, jobs, attempt, work, beat, prod, notified>>

(* succeed or fail on a row that is still owned.                            *)
CommitFinish(p) ==
  LET j == work[p].job
      row == IF tx[p].outcome = "succeed" THEN Succeeded(j)
             ELSE Failed(j, tx[p].outcome, tx[p].start)
  IN /\ tx[p].op = "finish"
     /\ Owned(j, WorkerIdOf[p], tx[p].start)
     /\ jobs' = [jobs EXCEPT ![j] = row]
     /\ attempt' = [attempt EXCEPT ![j][jobs[j].attempts] =
                      IF tx[p].outcome = "succeed" THEN "succeeded" ELSE "failed"]
     /\ notified' = [notified EXCEPT ![j] = @ + Told(j, row)]
     /\ work' = [work EXCEPT ![p] = NoWork]
     /\ tx' = [tx EXCEPT ![p] = NoTx]
     /\ UNCHANGED <<clock, beat, prod>>

(* LeaseRejected: the process logs it and goes on; nothing is written.      *)
RejectFinish(p) ==
  /\ tx[p].op = "finish"
  /\ ~Owned(work[p].job, WorkerIdOf[p], tx[p].start)
  /\ work' = [work EXCEPT ![p] = NoWork]
  /\ tx' = [tx EXCEPT ![p] = NoTx]
  /\ UNCHANGED <<clock, jobs, attempt, beat, prod, notified>>

-----------------------------------------------------------------------------
(* A service cancels a job in its own transaction.                          *)
Cancel(j) ==
  /\ jobs[j].status \in Active
  /\ jobs' = [jobs EXCEPT ![j] = [Unleased(@) EXCEPT !.status = "cancelled"]]
  /\ attempt' = IF jobs[j].status = "running" /\ attempt[j][jobs[j].attempts] = "open"
                THEN [attempt EXCEPT ![j][jobs[j].attempts] = "cancelled"] ELSE attempt
  /\ UNCHANGED <<clock, work, tx, beat, prod, notified>>

(* The process is killed and restarted, loses the answer of a commit, or    *)
(* gives up a claim that raced a shutdown: its open transactions roll back  *)
(* and it forgets its item, whose lease is left to expire.                  *)
Crash(p) ==
  /\ work[p] # NoWork \/ tx[p] # NoTx \/ beat[p] # NoBeat
  /\ work' = [work EXCEPT ![p] = NoWork]
  /\ tx' = [tx EXCEPT ![p] = NoTx]
  /\ beat' = [beat EXCEPT ![p] = NoBeat]
  /\ UNCHANGED <<clock, jobs, attempt, prod, notified>>

Tick ==
  /\ clock < MaxTime
  /\ clock' = clock + 1
  /\ UNCHANGED <<jobs, attempt, work, tx, beat, prod, notified>>

Next ==
  \/ Tick
  \/ \E q \in Producers : (\E j \in Jobs : BeginEnqueue(q, j)) \/ CommitEnqueue(q) \/ RejectEnqueue(q)
  \/ \E p \in Procs :
       \/ BeginClaim(p) \/ CommitClaim(p)
       \/ BeginBeat(p) \/ CommitBeat(p)
       \/ (\E outcome \in Outcomes : BeginFinish(p, outcome))
       \/ CommitFinish(p) \/ RejectFinish(p)
       \/ Crash(p)
  \/ \E j \in Jobs : Cancel(j)

Spec == Init /\ [][Next]_vars

-----------------------------------------------------------------------------
(* Properties.                                                              *)

(* The attempt ledger agrees with the row: attempt n of a job has a result  *)
(* for every n up to attempts and no other, and exactly the last attempt of *)
(* a running job is open (claim, _abandon_expired, _owned, cancel).         *)
LedgerAgrees ==
  \A j \in Jobs : \A n \in 1..AttemptCap :
    /\ attempt[j][n] = "none" <=> n > jobs[j].attempts
    /\ attempt[j][n] = "open" <=> jobs[j].status = "running" /\ n = jobs[j].attempts

(* A job that may be claimed has an attempt left, so that claim's           *)
(* attempts += 1 never meets ck_background_jobs_attempts, whatever reaping, *)
(* retrying and the finalizer's new batches did before.                     *)
BudgetKept ==
  \A j \in Jobs :
    /\ jobs[j].attempts <= jobs[j].max
    /\ jobs[j].status \in {"absent", "queued"} => jobs[j].attempts < jobs[j].max

(* At most one active job per dedupe key, although two transactions may     *)
(* both have looked for it and found none.                                  *)
OneActivePerKey ==
  \A j, k \in Jobs :
    (j # k /\ KeyOf[j] = KeyOf[k] /\ KeyOf[j] # NoKey)
      => ~(jobs[j].status \in Active /\ jobs[k].status \in Active)

(* No two processes handle the same attempt of a job, and a process never   *)
(* believes in an attempt the ledger has not handed out.                    *)
ExclusiveAttempts ==
  \A p \in Procs : work[p].job # None =>
    /\ work[p].no \in 1..jobs[work[p].job].attempts
    /\ attempt[work[p].job][work[p].no] = "open" => jobs[work[p].job].owner = WorkerIdOf[p]
    /\ \A q \in Procs : work[q] = work[p] => q = p

(* The owner of a job with a terminal callback is told exactly once that    *)
(* the job is dead, and only when it is.                                    *)
ToldExactlyOnce ==
  \A j \in Jobs :
    notified[j] = IF CallbackOf[j] = "notify" /\ jobs[j].status = "dead_letter" THEN 1 ELSE 0

(* A finished attempt keeps its result and a job that reached a terminal    *)
(* status keeps its row: late completions, late heartbeats and the reaper   *)
(* change nothing any more.                                                 *)
HistoryFinal ==
  [][\A j \in Jobs :
       /\ jobs[j].status \in Terminal => jobs'[j] = jobs[j]
       /\ \A n \in 1..AttemptCap :
            attempt[j][n] \notin {"none", "open"} => attempt'[j][n] = attempt[j][n]]_vars

(* A process records an outcome only for the very attempt it claimed,       *)
(* although _owned compares the worker id alone.                            *)
OwnAttemptOnly ==
  [][\A j \in Jobs : \A n \in 1..AttemptCap :
       attempt[j][n] = "open" /\ attempt'[j][n] \in {"succeeded", "failed"}
         => \E p \in Procs : work[p] = [job |-> j, no |-> n] /\ work'[p] = NoWork]_vars

(* An attempt is abandoned only once its lease has run out on the database's *)
(* own clock, however stale the reaper's transaction is.                     *)
NoEarlyAbandon ==
  [][\A j \in Jobs : \A n \in 1..AttemptCap :
       attempt[j][n] = "open" /\ attempt'[j][n] = "abandoned" => jobs[j].lease < clock]_vars

(* What every state of the queue satisfies, and what every step of it does. *)
QueueSafety ==
  TypeOK /\ LedgerAgrees /\ BudgetKept /\ OneActivePerKey /\ ExclusiveAttempts /\ ToldExactlyOnce
StepSafety == HistoryFinal /\ OwnAttemptOnly /\ NoEarlyAbandon

-----------------------------------------------------------------------------
(* The refinement: what a client sees of the rows.                          *)
Seen == [j \in Jobs |-> [status |-> jobs[j].status, tries |-> jobs[j].attempts,
                         budget |-> jobs[j].max, told |-> notified[j]]]

Contract == INSTANCE JobContract WITH job <- Seen, Budget <- MaxAttempts

(* The queue keeps the contract its clients rely on: bounded hand-outs, one *)
(* final status, one live job per key, and the owner told of a death in the *)
(* very step that buries the job.                                           *)
KeepsContract == Contract!ContractSpec

-----------------------------------------------------------------------------
(* The parts that make the invariants above inductive.                      *)

(* Only a running row is leased; a row not yet inserted is fresh.           *)
RowsShaped ==
  \A j \in Jobs :
    /\ jobs[j].owner # None <=> jobs[j].status = "running"
    /\ jobs[j].status = "running" => jobs[j].attempts > 0
    /\ jobs[j].status = "absent" => jobs[j].attempts = 0

(* What a process believes is consistent with the transactions it has open, *)
(* none of which started in the future.                                     *)
ProcsShaped ==
  \A p \in Procs :
    /\ work[p].job = None <=> work[p] = NoWork
    /\ tx[p].op = "finish" => work[p].job # None
    /\ tx[p].op = "claim" => work[p] = NoWork
    /\ tx[p].op = "none" => tx[p] = NoTx
    /\ beat[p].job = None <=> beat[p] = NoBeat
    /\ tx[p].start <= clock /\ beat[p].start <= clock

(* A row is inserted by one transaction only.                               *)
InsertsShaped ==
  \A q \in Producers : prod[q].job # None =>
    /\ jobs[prod[q].job].status = "absent"
    /\ \A r \in Producers : prod[r].job = prod[q].job => r = q

(* When every process has a worker id of its own, a process that holds a    *)
(* superseded attempt is not the row's owner: _owned's comparison of the id *)
(* alone then tells the attempts apart.                                     *)
SupersededNotOwner ==
  \A p \in Procs : \A j \in Jobs :
    (work[p].job = j /\ work[p].no # jobs[j].attempts) => jobs[j].owner # WorkerIdOf[p]

(* The inductive invariant.                                                 *)
IInv ==
  /\ TypeOK /\ RowsShaped /\ LedgerAgrees /\ BudgetKept /\ OneActivePerKey
  /\ ToldExactlyOnce /\ ProcsShaped /\ InsertsShaped /\ ExclusiveAttempts
=============================================================================
