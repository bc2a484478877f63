--------------------------- MODULE JobQueueProofs ---------------------------
(* Proofs about JobQueue, for every value of its constants: its invariants, *)
(* then its steps, then that it implements JobContract; last about          *)
(* Screening, whose jobs rest on JobContract's promise.                     *)
EXTENDS JobQueue, Screening, FiniteSetTheorems, TLAPS

(* What the invariants say of one row, its attempts and its notifications,  *)
(* as values, so that a step is judged row by row.                          *)
JobOK(j, row, tries, told) ==
  /\ row \in Row /\ tries \in [1..AttemptCap -> Results] /\ told \in 0..1
  /\ row.owner # None <=> row.status = "running"
  /\ row.status = "running" => row.attempts > 0
  /\ row.status = "absent" => row.attempts = 0
  /\ \A n \in 1..AttemptCap : tries[n] = "none" <=> n > row.attempts
  /\ \A n \in 1..AttemptCap : tries[n] = "open" <=> row.status = "running" /\ n = row.attempts
  /\ row.attempts <= row.max
  /\ row.status \in {"absent", "queued"} => row.attempts < row.max
  /\ told = IF CallbackOf[j] = "notify" /\ row.status = "dead_letter" THEN 1 ELSE 0

TablesOK ==
  /\ jobs \in [Jobs -> Row] /\ attempt \in [Jobs -> [1..AttemptCap -> Results]]
  /\ notified \in [Jobs -> 0..1]
  /\ \A j \in Jobs : JobOK(j, jobs[j], attempt[j], notified[j])

ProcsOK ==
  /\ clock \in 0..MaxTime
  /\ work \in [Procs -> [job : Jobs \cup {None}, no : 0..AttemptCap]]
  /\ tx \in [Procs -> [op : {"none", "claim", "finish"}, start : 0..MaxTime, outcome : Outcomes]]
  /\ beat \in [Procs -> [job : Jobs \cup {None}, no : 0..AttemptCap, start : 0..MaxTime]]
  /\ ProcsShaped

InsertsOK ==
  /\ prod \in [Producers -> [job : Jobs \cup {None}, start : 0..MaxTime]]
  /\ InsertsShaped

(* IInv regrouped: by table rather than by property.                        *)
Ind == TablesOK /\ ProcsOK /\ InsertsOK /\ OneActivePerKey /\ ExclusiveAttempts

LEMMA Regrouped == IInv <=> Ind
<1>1. TablesOK => RowsShaped /\ LedgerAgrees /\ BudgetKept /\ ToldExactlyOnce
  BY DEF TablesOK, JobOK, RowsShaped, LedgerAgrees, BudgetKept, ToldExactlyOnce
<1>2. TypeOK /\ RowsShaped /\ LedgerAgrees /\ BudgetKept /\ ToldExactlyOnce => TablesOK
  BY DEF TypeOK, TablesOK, JobOK, RowsShaped, LedgerAgrees, BudgetKept, ToldExactlyOnce
<1>3. TypeOK /\ ProcsShaped /\ InsertsShaped => ProcsOK /\ InsertsOK
  BY DEF TypeOK, ProcsOK, InsertsOK
<1>4. TablesOK /\ ProcsOK /\ InsertsOK => TypeOK
  BY DEF TypeOK, TablesOK, ProcsOK, InsertsOK
<1> QED
  BY <1>1, <1>2, <1>3, <1>4 DEF IInv, Ind, ProcsOK, InsertsOK

(* Processes that only forget their items, while no attempt is opened, keep *)
(* ExclusiveAttempts.                                                       *)
LEMMA StillExclusive ==
  ASSUME ExclusiveAttempts, ProcsOK, TablesOK, work' \in [Procs -> [job : Jobs \cup {None}, no : 0..AttemptCap]],
         \A p \in Procs : work'[p] = work[p] \/ work'[p] = NoWork,
         \A j \in Jobs : jobs'[j].attempts = jobs[j].attempts,
         \A j \in Jobs, n \in 1..AttemptCap : attempt'[j][n] = "open" =>
           attempt[j][n] = "open" /\ jobs'[j].owner = jobs[j].owner
  PROVE  ExclusiveAttempts'
<1> SUFFICES ASSUME NEW p \in Procs, work'[p].job # None
             PROVE  /\ work'[p].no \in 1..jobs'[work'[p].job].attempts
                    /\ attempt'[work'[p].job][work'[p].no] = "open" => jobs'[work'[p].job].owner = WorkerIdOf[p]
                    /\ \A q \in Procs : work'[q] = work'[p] => q = p
  BY DEF ExclusiveAttempts
<1>1. work'[p] = work[p] /\ work[p].job \in Jobs
  BY DEF NoWork, ProcsOK
<1>2. /\ work[p].no \in 1..jobs[work[p].job].attempts
      /\ attempt[work[p].job][work[p].no] = "open" => jobs[work[p].job].owner = WorkerIdOf[p]
      /\ \A q \in Procs : work[q] = work[p] => q = p
  BY <1>1 DEF ExclusiveAttempts
<1>3. work[p].no \in 1..AttemptCap
  <2>1. jobs[work[p].job].attempts \in 0..AttemptCap
    BY <1>1 DEF TablesOK, Row
  <2> QED
    BY <1>2, <2>1, ConstantsAssumption
<1>4. \A q \in Procs : work'[q] = work'[p] => q = p
  BY <1>1, <1>2 DEF NoWork
<1> QED
  BY <1>1, <1>2, <1>3, <1>4

(* A step that leaves the three tables alone keeps their part.              *)
LEMMA TablesUnchanged ==
  ASSUME TablesOK, OneActivePerKey, UNCHANGED <<jobs, attempt, notified>>
  PROVE  TablesOK' /\ OneActivePerKey'
  BY DEF TablesOK, OneActivePerKey

-----------------------------------------------------------------------------
(* What the operations on one row do, as facts about values.                *)

LEMMA UnleasedRow ==
  ASSUME NEW row \in Row
  PROVE  /\ Unleased(row) \in Row
         /\ Unleased(row).owner = None
         /\ Unleased(row).status = row.status /\ Unleased(row).attempts = row.attempts
         /\ Unleased(row).max = row.max
  BY DEF Unleased, Row

(* What a queued-or-dead row left by the reaper or by fail() looks like,    *)
(* seen from the running row `old' it replaces.                             *)
GivenUp(j, old, row) ==
  /\ row \in Row /\ row.owner = None /\ row.attempts = old.attempts
  /\ \/ row.status = "queued" /\ row.max = old.max /\ old.attempts < old.max
     \/ row.status = "dead_letter" /\ row.max = old.max
     \/ /\ CallbackOf[j] = "recover" /\ old.attempts = old.max
        /\ row.status = "queued" /\ row.max = old.max + AttemptBatch
        /\ old.max <= AttemptCap - AttemptBatch

(* A dead-lettered row either stays dead or is queued again with attempts   *)
(* left.                                                                    *)
LEMMA AfterTerminalRow ==
  ASSUME NEW j \in Jobs, NEW old, NEW row \in Row, NEW recoverable, NEW now \in Nat,
         row.status = "dead_letter", row.attempts \in 1..row.max, row.owner = None,
         old.attempts = row.attempts, old.max = row.max
  PROVE  GivenUp(j, old, AfterTerminal(j, row, recoverable, now))
<1> USE ConstantsAssumption
<1>1. row.attempts \in 1..AttemptCap /\ row.max \in 1..AttemptCap
  BY DEF Row
<1>2. now + RetryDelay[row.attempts] \in Nat
  BY <1>1
<1>3. CASE /\ CallbackOf[j] = "recover" /\ recoverable
           /\ row.attempts >= row.max /\ row.max <= AttemptCap - AttemptBatch
  <2> DEFINE r == [row EXCEPT !.max = row.max + AttemptBatch, !.status = "queued",
                              !.runAfter = now + RetryDelay[row.attempts]]
  <2>1. AfterTerminal(j, row, recoverable, now) = r
    BY <1>3 DEF AfterTerminal
  <2>2. row.max + AttemptBatch \in 1..AttemptCap /\ row.attempts = row.max
    <3>1. /\ AttemptCap \in Nat /\ AttemptBatch \in Nat
          /\ row.max <= AttemptCap - AttemptBatch /\ row.attempts >= row.max
      BY <1>3
    <3> HIDE ConstantsAssumption
    <3> QED
      BY <1>1, <3>1
  <2>3. r \in Row
    BY <1>2, <2>2 DEF Row, Active
  <2>4. r.owner = None /\ r.attempts = row.attempts /\ r.status = "queued"
        /\ r.max = row.max + AttemptBatch
    BY DEF Row
  <2> HIDE DEF r
  <2> QED
    BY <1>1, <1>3, <2>1, <2>2, <2>3, <2>4 DEF GivenUp
<1>4. CASE ~(/\ CallbackOf[j] = "recover" /\ recoverable
             /\ row.attempts >= row.max /\ row.max <= AttemptCap - AttemptBatch)
  BY <1>4 DEF AfterTerminal, GivenUp
<1> QED
  BY <1>3, <1>4

LEMMA AbandonedRow ==
  ASSUME NEW j \in Jobs, NEW now \in Nat, jobs[j] \in Row,
         jobs[j].attempts \in 1..jobs[j].max
  PROVE  GivenUp(j, jobs[j], Abandoned(j, now))
<1> DEFINE freed == [Unleased(jobs[j]) EXCEPT !.runAfter = now]
           dead == [freed EXCEPT !.status = "dead_letter"]
<1>1. /\ freed \in Row /\ freed.owner = None /\ freed.status = jobs[j].status
      /\ freed.attempts = jobs[j].attempts /\ freed.max = jobs[j].max
  BY UnleasedRow DEF Row
<1>2. /\ dead \in Row /\ dead.owner = None /\ dead.status = "dead_letter"
      /\ dead.attempts = jobs[j].attempts /\ dead.max = jobs[j].max
  BY <1>1 DEF Row, Terminal
<1>3. Abandoned(j, now) = IF freed.attempts < freed.max
        THEN [freed EXCEPT !.status = "queued"] ELSE AfterTerminal(j, dead, TRUE, now)
  BY DEF Abandoned
<1>4. CASE freed.attempts < freed.max
  <2>1. Abandoned(j, now) = [freed EXCEPT !.status = "queued"]
    BY <1>3, <1>4
  <2> HIDE DEF freed
  <2> QED
    BY <1>1, <1>4, <2>1 DEF GivenUp, Row, Active
<1>5. CASE ~(freed.attempts < freed.max)
  <2>1. Abandoned(j, now) = AfterTerminal(j, dead, TRUE, now)
    BY <1>3, <1>5
  <2> HIDE DEF dead, freed
  <2> QED
    BY <1>2, <2>1, AfterTerminalRow
<1> QED
  BY <1>4, <1>5

LEMMA FailedRow ==
  ASSUME NEW j \in Jobs, NEW outcome, NEW now \in Nat, jobs[j] \in Row,
         jobs[j].attempts \in 1..jobs[j].max
  PROVE  GivenUp(j, jobs[j], Failed(j, outcome, now))
<1> DEFINE freed == Unleased(jobs[j])
           dead == [freed EXCEPT !.status = "dead_letter"]
           again == [freed EXCEPT !.status = "queued", !.runAfter = now + RetryDelay[freed.attempts]]
<1>1. /\ freed \in Row /\ freed.owner = None
      /\ freed.attempts = jobs[j].attempts /\ freed.max = jobs[j].max
  BY UnleasedRow
<1>2. /\ dead \in Row /\ dead.owner = None /\ dead.status = "dead_letter"
      /\ dead.attempts = jobs[j].attempts /\ dead.max = jobs[j].max
  BY <1>1 DEF Row, Terminal
<1>3. now + RetryDelay[freed.attempts] \in Nat
  <2> HIDE DEF freed
  <2>1. freed.attempts \in 1..AttemptCap
    BY <1>1, ConstantsAssumption DEF Row
  <2>2. RetryDelay[freed.attempts] \in Nat
    BY <2>1, ConstantsAssumption
  <2> QED
    BY <2>2
<1>4. /\ again \in Row /\ again.owner = None /\ again.status = "queued"
      /\ again.attempts = jobs[j].attempts /\ again.max = jobs[j].max
  BY <1>1, <1>3 DEF Row, Active
<1>5. Failed(j, outcome, now) =
        IF outcome # "permanent" /\ freed.attempts < freed.max
        THEN again ELSE AfterTerminal(j, dead, outcome = "unavailable", now)
  BY DEF Failed
<1>6. CASE outcome # "permanent" /\ freed.attempts < freed.max
  <2> HIDE DEF again, freed, dead
  <2> QED
    BY <1>1, <1>4, <1>5, <1>6 DEF GivenUp
<1>7. CASE ~(outcome # "permanent" /\ freed.attempts < freed.max)
  <2> HIDE DEF again, freed, dead
  <2> QED
    BY <1>2, <1>5, <1>7, AfterTerminalRow
<1> QED
  BY <1>6, <1>7

(* A running row that was given up, its open attempt closed and its owner   *)
(* told, is again a legal row.                                              *)
LEMMA GivenUpOK ==
  ASSUME NEW j \in Jobs, NEW row, NEW result \in {"abandoned", "failed"},
         JobOK(j, jobs[j], attempt[j], notified[j]), jobs[j].status = "running",
         GivenUp(j, jobs[j], row)
  PROVE  JobOK(j, row, [attempt[j] EXCEPT ![jobs[j].attempts] = result],
               notified[j] + Told(j, row))
<1> DEFINE tries == [attempt[j] EXCEPT ![jobs[j].attempts] = result]
<1> USE ConstantsAssumption
<1>0. /\ jobs[j].attempts \in 1..AttemptCap /\ jobs[j].max \in 1..AttemptCap
      /\ jobs[j].attempts <= jobs[j].max
  <2>1. jobs[j] \in Row /\ jobs[j].attempts > 0 /\ jobs[j].attempts <= jobs[j].max
    BY DEF JobOK
  <2> QED
    BY <2>1 DEF Row
<1>1. /\ row \in Row /\ row.owner = None /\ row.status \in {"queued", "dead_letter"}
      /\ row.attempts = jobs[j].attempts
  BY DEF GivenUp
<1>2. row.attempts <= row.max /\ (row.status = "queued" => row.attempts < row.max)
  <2>1. AttemptCap \in Nat /\ AttemptBatch \in Nat \ {0}
    OBVIOUS
  <2> HIDE ConstantsAssumption
  <2> QED
    BY <1>0, <2>1 DEF GivenUp
<1>3. tries \in [1..AttemptCap -> Results]
  BY <1>0 DEF JobOK, Results
<1>4. \A n \in 1..AttemptCap : tries[n] = IF n = row.attempts THEN result ELSE attempt[j][n]
  BY <1>0, <1>1 DEF JobOK
<1>5. \A n \in 1..AttemptCap : /\ tries[n] = "none" <=> n > row.attempts
                               /\ tries[n] # "open"
  <2> HIDE DEF tries
  <2> HIDE ConstantsAssumption
  <2>1. \A n \in 1..AttemptCap : /\ attempt[j][n] = "none" <=> n > jobs[j].attempts
                                 /\ attempt[j][n] = "open" <=> n = jobs[j].attempts
    BY DEF JobOK
  <2>2. result # "none" /\ result # "open"
    OBVIOUS
  <2> QED
    BY <1>0, <1>1, <1>4, <2>1, <2>2
<1>6. notified[j] = 0 /\ Told(j, row) \in 0..1
  BY DEF JobOK, Told
<1>7. notified[j] + Told(j, row) = IF CallbackOf[j] = "notify" /\ row.status = "dead_letter" THEN 1 ELSE 0
  BY <1>6 DEF Told
<1>8. JobOK(j, row, tries, notified[j] + Told(j, row))
  <2> HIDE DEF tries
  <2>1. row.status # "running" /\ row.status # "absent"
    BY <1>1
  <2>2. notified[j] + Told(j, row) \in 0..1
    BY <1>7
  <2>3. tries \in [1..AttemptCap -> Results] /\ row \in Row
    BY <1>1, <1>3
  <2>4. \A n \in 1..AttemptCap : tries[n] = "none" <=> n > row.attempts
    BY <1>5
  <2>5. \A n \in 1..AttemptCap : tries[n] = "open" <=> row.status = "running" /\ n = row.attempts
    BY <1>5, <2>1
  <2>6. row.owner # None <=> row.status = "running"
    BY <1>1, <2>1
  <2> QED
    BY <1>2, <1>7, <2>1, <2>2, <2>3, <2>4, <2>5, <2>6 DEF JobOK
<1> QED
  BY <1>8

(* The row claim leaves.                                                    *)
LEMMA ClaimedRow ==
  ASSUME NEW row \in Row, NEW id \in WorkerIds, NEW now \in Nat, row.attempts < row.max
  PROVE  /\ Claimed(row, id, now) \in Row
         /\ Claimed(row, id, now).status = "running" /\ Claimed(row, id, now).owner = id
         /\ Claimed(row, id, now).attempts = row.attempts + 1
         /\ Claimed(row, id, now).max = row.max
<1> DEFINE new == Claimed(row, id, now)
           a == [row EXCEPT !.status = "running", !.attempts = row.attempts + 1]
<1> USE ConstantsAssumption
<1>1. now + LeaseSeconds \in Nat /\ row.attempts + 1 \in 0..AttemptCap
  BY DEF Row
<1>2. /\ DOMAIN row = {"status", "attempts", "max", "runAfter", "owner", "lease"}
      /\ row.runAfter \in Nat /\ row.max \in 1..AttemptCap
  BY DEF Row
<1>3. /\ new.status = "running" /\ new.attempts = row.attempts + 1 /\ new.owner = id
      /\ new.max = row.max
  BY <1>2 DEF Claimed
<1>4. a \in Row
  <2>1. \A n : n \in 0..AttemptCap => [row EXCEPT !.status = "running", !.attempts = n] \in Row
    BY DEF Row, Active
  <2> QED
    BY <1>1, <2>1
<1>5. [a EXCEPT !.owner = id, !.lease = now + LeaseSeconds] \in Row
  <2> HIDE DEF a
  <2> QED
    BY <1>1, <1>4 DEF Row
<1>6. new \in Row
  BY <1>2, <1>5 DEF Claimed
<1> QED
  BY <1>3, <1>6

(* Taking a queued row opens its next attempt.                              *)
LEMMA ClaimedOK ==
  ASSUME NEW j \in Jobs, NEW row, NEW tries, NEW told, NEW id \in WorkerIds, NEW now \in Nat,
         JobOK(j, row, tries, told), row.status = "queued"
  PROVE  JobOK(j, Claimed(row, id, now), [tries EXCEPT ![row.attempts + 1] = "open"], told)
<1> DEFINE new == Claimed(row, id, now)
           tries2 == [tries EXCEPT ![row.attempts + 1] = "open"]
<1> USE ConstantsAssumption
<1>1. row \in Row /\ row.attempts < row.max /\ tries \in [1..AttemptCap -> Results] /\ told = 0
  BY DEF JobOK
<1>2. row.attempts \in 0..AttemptCap /\ row.attempts + 1 \in 1..AttemptCap /\ row.max \in 1..AttemptCap
  BY <1>1 DEF Row
<1>3. /\ new \in Row /\ new.status = "running" /\ new.attempts = row.attempts + 1
      /\ new.max = row.max /\ new.owner = id
  BY <1>1, ClaimedRow
<1>4. tries2 \in [1..AttemptCap -> Results]
  BY <1>1, <1>2 DEF Results
<1>5. \A n \in 1..AttemptCap : tries2[n] = IF n = row.attempts + 1 THEN "open" ELSE tries[n]
  BY <1>1, <1>2
<1>6. \A n \in 1..AttemptCap : /\ tries[n] = "none" <=> n > row.attempts
                               /\ tries[n] # "open"
  BY DEF JobOK
<1>7. JobOK(j, new, tries2, told)
  <2> HIDE DEF new, tries2
  <2>1. \A n \in 1..AttemptCap : tries2[n] = "none" <=> n > new.attempts
    <3> HIDE ConstantsAssumption
    <3> TAKE n \in 1..AttemptCap
    <3>1. /\ tries2[n] = IF n = row.attempts + 1 THEN "open" ELSE tries[n]
          /\ tries[n] = "none" <=> n > row.attempts
      BY <1>5, <1>6
    <3>2. n > new.attempts <=> n > row.attempts /\ n # row.attempts + 1
      BY <1>2, <1>3
    <3> QED
      BY <3>1, <3>2
  <2>2. \A n \in 1..AttemptCap : tries2[n] = "open" <=> new.status = "running" /\ n = new.attempts
    BY <1>2, <1>3, <1>5, <1>6
  <2>3. new.attempts > 0 /\ new.attempts <= new.max /\ new.owner # None
    BY <1>1, <1>2, <1>3
  <2> QED
    BY <1>1, <1>3, <1>4, <2>1, <2>2, <2>3 DEF JobOK
<1> QED
  BY <1>7

(* An active row that reached a status in which nobody is told, its lease   *)
(* cleared and its open attempt, if any, closed.                            *)
LEMMA ClosedOK ==
  ASSUME NEW j \in Jobs, NEW status \in {"succeeded", "cancelled"}, NEW tries,
         JobOK(j, jobs[j], attempt[j], notified[j]), jobs[j].status \in Active,
         tries = IF jobs[j].status = "running"
                 THEN [attempt[j] EXCEPT ![jobs[j].attempts] = status] ELSE attempt[j]
  PROVE  JobOK(j, [Unleased(jobs[j]) EXCEPT !.status = status], tries, notified[j])
<1> DEFINE new == [Unleased(jobs[j]) EXCEPT !.status = status]
<1> USE ConstantsAssumption
<1>1. jobs[j] \in Row /\ jobs[j].attempts <= jobs[j].max /\ notified[j] = 0
      /\ (jobs[j].status = "running" => jobs[j].attempts > 0)
      /\ attempt[j] \in [1..AttemptCap -> Results]
  BY DEF JobOK, Active
<1>2. jobs[j].attempts \in 0..AttemptCap
  BY <1>1 DEF Row
<1>3. /\ new \in Row /\ new.status = status /\ new.attempts = jobs[j].attempts
      /\ new.max = jobs[j].max /\ new.owner = None
  <2> DEFINE freed == Unleased(jobs[j])
  <2>1. /\ freed \in Row /\ freed.attempts = jobs[j].attempts
        /\ freed.max = jobs[j].max /\ freed.owner = None
    BY <1>1, UnleasedRow
  <2> HIDE DEF freed
  <2>2. new = [freed EXCEPT !.status = status]
    BY DEF freed
  <2> QED
    BY <2>1, <2>2 DEF Row, Terminal
<1>4. tries \in [1..AttemptCap -> Results]
  BY <1>1, <1>2 DEF Results
<1>5. \A n \in 1..AttemptCap :
        tries[n] = IF jobs[j].status = "running" /\ n = jobs[j].attempts THEN status ELSE attempt[j][n]
  BY <1>1, <1>2
<1>6. \A n \in 1..AttemptCap :
        /\ attempt[j][n] = "none" <=> n > jobs[j].attempts
        /\ attempt[j][n] = "open" <=> jobs[j].status = "running" /\ n = jobs[j].attempts
  BY DEF JobOK
<1>7. JobOK(j, new, tries, notified[j])
  <2> HIDE DEF new
  <2>1. \A n \in 1..AttemptCap : tries[n] = "none" <=> n > new.attempts
    BY <1>2, <1>3, <1>5, <1>6
  <2>2. \A n \in 1..AttemptCap : tries[n] # "open"
    BY <1>5, <1>6
  <2>3. \A n \in 1..AttemptCap : tries[n] = "open" <=> new.status = "running" /\ n = new.attempts
    BY <1>3, <2>2
  <2> QED
    BY <1>1, <1>3, <1>4, <2>1, <2>3 DEF JobOK
<1> QED
  BY <1>7

-----------------------------------------------------------------------------
(* The initial state and, one lemma per action, the inductive step.         *)

LEMMA InitInd == Init => Ind
<1> SUFFICES ASSUME Init PROVE IInv
  BY Regrouped
<1> USE ConstantsAssumption DEF Init
<1>1. TypeOK
  BY DEF TypeOK, Row, Active, Terminal, Results, Outcomes, NoWork, NoTx, NoBeat, NoRow
<1>2. RowsShaped /\ LedgerAgrees /\ BudgetKept /\ OneActivePerKey /\ ToldExactlyOnce
  BY DEF RowsShaped, LedgerAgrees, BudgetKept, OneActivePerKey, ToldExactlyOnce, Active
<1>3. ProcsShaped /\ InsertsShaped /\ ExclusiveAttempts
  BY DEF ProcsShaped, InsertsShaped, ExclusiveAttempts, NoWork, NoTx, NoBeat, NoRow
<1> QED
  BY <1>1, <1>2, <1>3 DEF IInv

(* Steps of one process or of the clock that leave the tables alone.        *)
QuietStep(p) ==
  \/ BeginClaim(p) \/ BeginBeat(p) \/ RejectFinish(p) \/ Crash(p)
  \/ \E o \in Outcomes : BeginFinish(p, o)

LEMMA QuietInd ==
  ASSUME Ind, NEW p \in Procs, QuietStep(p)
  PROVE  Ind'
<1>1. TablesOK /\ ProcsOK /\ InsertsOK /\ OneActivePerKey /\ ExclusiveAttempts
  BY DEF Ind
<1>2. UNCHANGED <<clock, jobs, attempt, notified, prod>>
  BY DEF QuietStep, BeginClaim, BeginBeat, RejectFinish, Crash, BeginFinish
<1>3. TablesOK' /\ OneActivePerKey'
  BY <1>1, <1>2, TablesUnchanged
<1>4. InsertsOK'
  BY <1>1, <1>2 DEF InsertsOK, InsertsShaped
<1>5. ProcsOK'
  <2>1. CASE BeginClaim(p)
    BY <1>1, <1>2, <2>1 DEF BeginClaim, ProcsOK, ProcsShaped, Outcomes, NoTx
  <2>2. CASE BeginBeat(p)
    <3>1. work[p].job \in Jobs /\ clock \in 0..MaxTime
      BY <1>1, <2>2 DEF BeginBeat, ProcsOK, ProcsShaped
    <3> QED
      BY <1>1, <1>2, <2>2, <3>1, ConstantsAssumption DEF BeginBeat, ProcsOK, ProcsShaped, NoBeat
  <2>3. CASE RejectFinish(p)
    <3>1. /\ work' = [work EXCEPT ![p] = NoWork] /\ tx' = [tx EXCEPT ![p] = NoTx]
          /\ UNCHANGED <<clock, beat>>
      BY <2>3 DEF RejectFinish
    <3>2. ProcsShaped'
      BY <1>1, <3>1, SMTT(30) DEF ProcsOK, ProcsShaped, NoWork, NoTx
    <3> QED
      BY <1>1, <3>1, <3>2, ConstantsAssumption, SMTT(30) DEF ProcsOK, Outcomes, NoWork, NoTx
  <2>4. CASE Crash(p)
    BY <1>1, <1>2, <2>4, ConstantsAssumption, SMTT(40) DEF Crash, ProcsOK, ProcsShaped, Outcomes, NoWork, NoTx, NoBeat
  <2>5. ASSUME NEW o \in Outcomes, BeginFinish(p, o) PROVE ProcsOK'
    BY <1>1, <1>2, <2>5 DEF BeginFinish, ProcsOK, ProcsShaped
  <2> QED
    BY <2>1, <2>2, <2>3, <2>4, <2>5 DEF QuietStep
<1>6. ExclusiveAttempts'
  <2>1. \A q \in Procs : work'[q] = work[q] \/ work'[q] = NoWork
    BY <1>1 DEF QuietStep, BeginClaim, BeginBeat, RejectFinish, Crash, BeginFinish, ProcsOK
  <2> QED
    BY <1>1, <1>2, <1>5, <2>1, StillExclusive DEF ProcsOK
<1> QED
  BY <1>3, <1>4, <1>5, <1>6 DEF Ind

LEMMA TickInd == ASSUME Ind, Tick PROVE Ind'
<1>1. TablesOK' /\ OneActivePerKey'
  BY TablesUnchanged DEF Ind, Tick
<1>2. InsertsOK'
  BY DEF Ind, Tick, InsertsOK, InsertsShaped
<1>3. ProcsOK'
  BY ConstantsAssumption DEF Ind, Tick, ProcsOK, ProcsShaped
<1>4. ExclusiveAttempts'
  BY DEF Ind, Tick, ExclusiveAttempts
<1> QED
  BY <1>1, <1>2, <1>3, <1>4 DEF Ind

LEMMA BeginEnqueueInd ==
  ASSUME Ind, NEW q \in Producers, NEW j \in Jobs, BeginEnqueue(q, j) PROVE Ind'
<1>1. TablesOK' /\ OneActivePerKey'
  BY TablesUnchanged DEF Ind, BeginEnqueue
<1>2. InsertsOK'
  BY ConstantsAssumption DEF Ind, BeginEnqueue, InsertsOK, InsertsShaped, ProcsOK, NoRow
<1>3. ProcsOK' /\ ExclusiveAttempts'
  BY DEF Ind, BeginEnqueue, ProcsOK, ProcsShaped, ExclusiveAttempts
<1> QED
  BY <1>1, <1>2, <1>3 DEF Ind

LEMMA RejectEnqueueInd ==
  ASSUME Ind, NEW q \in Producers, RejectEnqueue(q) PROVE Ind'
<1>1. TablesOK' /\ OneActivePerKey'
  BY TablesUnchanged DEF Ind, RejectEnqueue
<1>2. InsertsOK'
  BY ConstantsAssumption DEF Ind, RejectEnqueue, InsertsOK, InsertsShaped, NoRow
<1>3. ProcsOK' /\ ExclusiveAttempts'
  BY DEF Ind, RejectEnqueue, ProcsOK, ProcsShaped, ExclusiveAttempts
<1> QED
  BY <1>1, <1>2, <1>3 DEF Ind

(* The insert makes an absent row queued, and nothing else active.          *)
LEMMA CommitEnqueueInd ==
  ASSUME Ind, NEW q \in Producers, CommitEnqueue(q) PROVE Ind'
<1> USE ConstantsAssumption
<1>1. TablesOK /\ ProcsOK /\ InsertsOK /\ OneActivePerKey /\ ExclusiveAttempts
  BY DEF Ind
<1>2. PICK j \in Jobs : j = prod[q].job
  BY <1>1 DEF CommitEnqueue, InsertsOK
<1>3. jobs[j].status = "absent" /\ ~KeyTaken(j) /\ prod' = [prod EXCEPT ![q] = NoRow]
      /\ UNCHANGED <<clock, attempt, work, tx, beat, notified>>
  BY <1>1, <1>2 DEF CommitEnqueue, InsertsOK, InsertsShaped
<1>4. PICK delay \in EnqueueDelays :
        jobs' = [jobs EXCEPT ![j] = [@ EXCEPT !.status = "queued", !.runAfter = prod[q].start + delay]]
  BY <1>2 DEF CommitEnqueue
<1> DEFINE new == [jobs[j] EXCEPT !.status = "queued", !.runAfter = prod[q].start + delay]
<1>5. jobs[j] \in Row /\ prod[q].start + delay \in Nat /\ jobs \in [Jobs -> Row]
  BY <1>1 DEF TablesOK, InsertsOK
<1>6. /\ new \in Row /\ new.status = "queued" /\ new.attempts = jobs[j].attempts
      /\ new.max = jobs[j].max /\ new.owner = jobs[j].owner
  BY <1>5 DEF Row, Active
<1>7. jobs' = [jobs EXCEPT ![j] = new]
  BY <1>4
<1> HIDE DEF new
<1>8. jobs' \in [Jobs -> Row] /\ jobs'[j] = new /\ \A k \in Jobs : k # j => jobs'[k] = jobs[k]
  BY <1>5, <1>6, <1>7
<1>9. TablesOK'
  <2>1. JobOK(j, jobs[j], attempt[j], notified[j])
    BY <1>1 DEF TablesOK
  <2>2. JobOK(j, new, attempt[j], notified[j])
    BY <1>3, <1>6, <2>1 DEF JobOK
  <2> QED
    BY <1>1, <1>3, <1>8, <2>2 DEF TablesOK
<1>10. OneActivePerKey'
  <2> SUFFICES ASSUME NEW a \in Jobs, NEW b \in Jobs, a # b, KeyOf[a] = KeyOf[b], KeyOf[a] # NoKey,
                      jobs'[a].status \in Active, jobs'[b].status \in Active
               PROVE  FALSE
    BY DEF OneActivePerKey
  <2>1. \A k \in Jobs : KeyOf[k] = KeyOf[j] /\ KeyOf[j] # NoKey => jobs[k].status \notin Active
    BY <1>3 DEF KeyTaken
  <2>2. CASE a # j /\ b # j
    BY <1>1, <1>8, <2>2 DEF OneActivePerKey
  <2>3. CASE a = j
    BY <1>8, <2>1, <2>3
  <2>4. CASE b = j
    BY <1>8, <2>1, <2>4
  <2> QED
    BY <2>2, <2>3, <2>4
<1>11. ProcsOK'
  BY <1>1, <1>3 DEF ProcsOK, ProcsShaped
<1>12. InsertsOK'
  <2>1. prod' \in [Producers -> [job : Jobs \cup {None}, start : 0..MaxTime]]
    BY <1>1, <1>3 DEF InsertsOK, NoRow
  <2>2. \A r \in Producers : prod'[r].job # None => r # q /\ prod'[r] = prod[r]
    BY <1>1, <1>3 DEF InsertsOK, NoRow
  <2>3. \A r \in Producers : prod'[r].job # None => prod'[r].job # j /\ prod'[r].job \in Jobs
    BY <1>1, <1>2, <2>2 DEF InsertsOK, InsertsShaped
  <2>4. \A r \in Producers : prod'[r].job # None =>
          jobs'[prod'[r].job].status = "absent" /\ \A k \in Producers : prod'[k].job = prod'[r].job => k = r
    <3> TAKE r \in Producers
    <3> HAVE prod'[r].job # None
    <3>1. prod[r].job # None /\ prod'[r] = prod[r] /\ jobs'[prod[r].job] = jobs[prod[r].job]
      BY <1>8, <2>2, <2>3
    <3>2. /\ jobs[prod[r].job].status = "absent"
          /\ \A k \in Producers : prod[k].job = prod[r].job => k = r
      BY <1>1, <3>1 DEF InsertsOK, InsertsShaped
    <3>3. ASSUME NEW k \in Producers, prod'[k].job = prod'[r].job PROVE k = r
      BY <2>2, <3>1, <3>2, <3>3
    <3> QED
      BY <3>1, <3>2, <3>3
  <2> QED
    BY <2>1, <2>4, Zenon DEF InsertsOK, InsertsShaped
<1>13. ExclusiveAttempts'
  <2>1. \A k \in Jobs : jobs'[k].attempts = jobs[k].attempts /\ jobs'[k].owner = jobs[k].owner
    BY <1>6, <1>8
  <2> QED
    BY <1>1, <1>3, <2>1, StillExclusive DEF ProcsOK
<1> QED
  BY <1>9, <1>10, <1>11, <1>12, <1>13 DEF Ind

(* A step that replaces one active row by a legal one, closing its attempt, *)
(* while the processes at most forget their items.                          *)
LEMMA OneRowInd ==
  ASSUME Ind, NEW j \in Jobs, NEW row, NEW tries, NEW told,
         jobs[j].status \in Active, JobOK(j, row, tries, told),
         row.attempts = jobs[j].attempts,
         \A n \in 1..AttemptCap : tries[n] = "open" => attempt[j][n] = "open" /\ row.owner = jobs[j].owner,
         jobs' = [jobs EXCEPT ![j] = row], attempt' = [attempt EXCEPT ![j] = tries],
         notified' = [notified EXCEPT ![j] = told], UNCHANGED <<clock, prod>>,
         ProcsOK', \A p \in Procs : work'[p] = work[p] \/ work'[p] = NoWork
  PROVE  Ind'
<1>1. TablesOK /\ ProcsOK /\ InsertsOK /\ OneActivePerKey /\ ExclusiveAttempts
  BY DEF Ind
<1>2. row \in Row /\ tries \in [1..AttemptCap -> Results] /\ told \in 0..1
  BY DEF JobOK
<1>3. /\ jobs' \in [Jobs -> Row] /\ jobs'[j] = row
      /\ attempt' \in [Jobs -> [1..AttemptCap -> Results]] /\ attempt'[j] = tries
      /\ notified' \in [Jobs -> 0..1] /\ notified'[j] = told
      /\ \A k \in Jobs : k # j => jobs'[k] = jobs[k] /\ attempt'[k] = attempt[k] /\ notified'[k] = notified[k]
  BY <1>1, <1>2 DEF TablesOK
<1>4. TablesOK'
  BY <1>1, <1>3 DEF TablesOK
<1>5. OneActivePerKey'
  BY <1>1, <1>3 DEF OneActivePerKey
<1>6. InsertsOK'
  BY <1>1, <1>3 DEF InsertsOK, InsertsShaped, Active
<1>7. ExclusiveAttempts'
  <2>1. \A k \in Jobs : jobs'[k].attempts = jobs[k].attempts
    BY <1>3
  <2>2. \A k \in Jobs, n \in 1..AttemptCap : attempt'[k][n] = "open" =>
          attempt[k][n] = "open" /\ jobs'[k].owner = jobs[k].owner
    BY <1>3
  <2> QED
    BY <1>1, <2>1, <2>2, StillExclusive DEF ProcsOK
<1> QED
  BY <1>4, <1>5, <1>6, <1>7 DEF Ind

LEMMA CancelInd == ASSUME Ind, NEW j \in Jobs, Cancel(j) PROVE Ind'
<1> DEFINE tries == IF jobs[j].status = "running"
                    THEN [attempt[j] EXCEPT ![jobs[j].attempts] = "cancelled"] ELSE attempt[j]
           row == [Unleased(jobs[j]) EXCEPT !.status = "cancelled"]
<1>1. TablesOK /\ ProcsOK /\ JobOK(j, jobs[j], attempt[j], notified[j]) /\ jobs[j].status \in Active
  BY DEF Ind, TablesOK, Cancel
<1>2. JobOK(j, row, tries, notified[j])
  BY <1>1, ClosedOK
<1>3. jobs[j] \in Row /\ (jobs[j].status = "running" => jobs[j].attempts \in 1..AttemptCap
                             /\ attempt[j][jobs[j].attempts] = "open")
  <2>1. jobs[j] \in Row /\ AttemptCap \in Nat
    BY <1>1, ConstantsAssumption DEF JobOK
  <2>2. jobs[j].attempts \in 0..AttemptCap
    BY <2>1 DEF Row
  <2>3. jobs[j].status = "running" => jobs[j].attempts \in 1..AttemptCap
    BY <1>1, <2>1, <2>2 DEF JobOK
  <2>4. \A n \in 1..AttemptCap : attempt[j][n] = "open" <=> jobs[j].status = "running" /\ n = jobs[j].attempts
    BY <1>1 DEF JobOK
  <2> QED
    BY <2>1, <2>3, <2>4
<1>4. row.attempts = jobs[j].attempts
  BY <1>3, UnleasedRow DEF Row
<1>5. attempt' = [attempt EXCEPT ![j] = tries]
  <2>1. CASE jobs[j].status = "running"
    BY <1>1, <1>3, <2>1 DEF Cancel, TablesOK
  <2>2. CASE jobs[j].status # "running"
    BY <1>1, <2>2 DEF Cancel, TablesOK
  <2> QED
    BY <2>1, <2>2
<1>6. \A n \in 1..AttemptCap : tries[n] # "open"
  BY <1>1, <1>3 DEF JobOK
<1>7. jobs' = [jobs EXCEPT ![j] = row]
  BY DEF Cancel
<1>8. notified' = [notified EXCEPT ![j] = notified[j]]
  BY <1>1 DEF Cancel, TablesOK
<1>9. ProcsOK' /\ UNCHANGED <<clock, prod, work>>
  BY <1>1 DEF Cancel, ProcsOK, ProcsShaped
<1> HIDE DEF tries, row
<1> QED
  BY <1>1, <1>2, <1>4, <1>5, <1>6, <1>7, <1>8, <1>9, OneRowInd

LEMMA CommitBeatInd == ASSUME Ind, NEW p \in Procs, CommitBeat(p) PROVE Ind'
<1> DEFINE b == beat[p]
<1>1. TablesOK /\ ProcsOK /\ InsertsOK /\ OneActivePerKey /\ ExclusiveAttempts
  BY DEF Ind
<1>2. b.job \in Jobs /\ b.start \in 0..MaxTime
  BY <1>1 DEF CommitBeat, ProcsOK, ProcsShaped
<1>3. \A q \in Procs : work'[q] = work[q] \/ work'[q] = NoWork
  BY <1>1 DEF CommitBeat, ProcsOK
<1>4. ProcsOK'
  <2>0. UNCHANGED <<clock, tx>> /\ beat' = [beat EXCEPT ![p] = NoBeat]
        /\ (work' = work \/ (work' = [work EXCEPT ![p] = NoWork] /\ tx[p] = NoTx))
    BY DEF CommitBeat
  <2> HIDE DEF b
  <2>1. /\ work' \in [Procs -> [job : Jobs \cup {None}, no : 0..AttemptCap]]
        /\ beat' \in [Procs -> [job : Jobs \cup {None}, no : 0..AttemptCap, start : 0..MaxTime]]
    <3>1. /\ NoWork \in [job : Jobs \cup {None}, no : 0..AttemptCap]
          /\ NoBeat \in [job : Jobs \cup {None}, no : 0..AttemptCap, start : 0..MaxTime]
      BY ConstantsAssumption DEF NoWork, NoBeat
    <3>2. /\ work \in [Procs -> [job : Jobs \cup {None}, no : 0..AttemptCap]]
          /\ beat \in [Procs -> [job : Jobs \cup {None}, no : 0..AttemptCap, start : 0..MaxTime]]
      BY <1>1 DEF ProcsOK
    <3>3. work' \in [Procs -> [job : Jobs \cup {None}, no : 0..AttemptCap]]
      BY <2>0, <3>1, <3>2
    <3>4. beat' \in [Procs -> [job : Jobs \cup {None}, no : 0..AttemptCap, start : 0..MaxTime]]
      BY <2>0, <3>1, <3>2
    <3> QED
      BY <3>3, <3>4
  <2>2. \A q \in Procs : /\ work'[q] = work[q] \/ (work'[q] = NoWork /\ tx[q] = NoTx)
                         /\ beat'[q] = beat[q] \/ beat'[q] = NoBeat
    BY <1>1, <2>0 DEF ProcsOK
  <2>3. ProcsShaped'
    BY <1>1, <2>0, <2>2 DEF ProcsOK, ProcsShaped, NoBeat, NoWork, NoTx
  <2> QED
    BY <1>1, <2>0, <2>1, <2>3 DEF ProcsOK
<1>5. CASE UNCHANGED jobs
  <2>1. UNCHANGED <<clock, jobs, attempt, notified, prod>>
    BY <1>5 DEF CommitBeat
  <2>2. TablesOK' /\ OneActivePerKey' /\ InsertsOK'
    BY <1>1, <2>1, TablesUnchanged DEF InsertsOK, InsertsShaped
  <2>3. ExclusiveAttempts'
    BY <1>1, <1>3, <1>4, <2>1, StillExclusive DEF ProcsOK
  <2> QED
    BY <1>4, <2>2, <2>3 DEF Ind
<1>6. CASE /\ Owned(b.job, WorkerIdOf[p], b.start)
           /\ jobs' = [jobs EXCEPT ![b.job].lease = b.start + LeaseSeconds]
  <2> DEFINE row == [jobs[b.job] EXCEPT !.lease = b.start + LeaseSeconds]
  <2>1. JobOK(b.job, jobs[b.job], attempt[b.job], notified[b.job]) /\ jobs[b.job].status = "running"
    BY <1>1, <1>2, <1>6 DEF TablesOK, Owned
  <2>2. b.start + LeaseSeconds \in Nat /\ jobs[b.job] \in Row
    BY <1>2, <2>1, ConstantsAssumption DEF JobOK
  <2>3. row \in Row /\ row.status = jobs[b.job].status /\ row.attempts = jobs[b.job].attempts
        /\ row.max = jobs[b.job].max /\ row.owner = jobs[b.job].owner
    BY <2>2 DEF Row
  <2>4. JobOK(b.job, row, attempt[b.job], notified[b.job])
    <3> HIDE DEF row, b
    <3> QED
      BY <2>1, <2>3 DEF JobOK
  <2>5. jobs' = [jobs EXCEPT ![b.job] = row]
    BY <1>6
  <2>6. UNCHANGED <<clock, prod>> /\ attempt' = [attempt EXCEPT ![b.job] = attempt[b.job]]
        /\ notified' = [notified EXCEPT ![b.job] = notified[b.job]]
    BY <1>1 DEF CommitBeat, TablesOK
  <2>7. jobs[b.job].status \in Active /\ row.owner = jobs[b.job].owner
    BY <2>1, <2>3 DEF Active
  <2> HIDE DEF row, b
  <2> QED
    BY <1>2, <1>3, <1>4, <2>3, <2>4, <2>5, <2>6, <2>7, OneRowInd
<1> QED
  BY <1>5, <1>6 DEF CommitBeat

LEMMA CommitFinishInd == ASSUME Ind, NEW p \in Procs, CommitFinish(p) PROVE Ind'
<1> DEFINE j == work[p].job
           row == IF tx[p].outcome = "succeed" THEN Succeeded(j)
                  ELSE Failed(j, tx[p].outcome, tx[p].start)
           result == IF tx[p].outcome = "succeed" THEN "succeeded" ELSE "failed"
           tries == [attempt[j] EXCEPT ![jobs[j].attempts] = result]
           told == notified[j] + Told(j, row)
<1>1. TablesOK /\ ProcsOK
  BY DEF Ind
<1>2. j \in Jobs /\ tx[p].start \in Nat
  BY <1>1, ConstantsAssumption DEF CommitFinish, ProcsOK, ProcsShaped
<1>3. JobOK(j, jobs[j], attempt[j], notified[j]) /\ jobs[j].status = "running"
  BY <1>1, <1>2 DEF CommitFinish, TablesOK, Owned
<1>4. jobs[j] \in Row /\ jobs[j].attempts \in 1..jobs[j].max /\ jobs[j].attempts \in 1..AttemptCap
  <2>1. jobs[j] \in Row /\ jobs[j].attempts > 0 /\ jobs[j].attempts <= jobs[j].max
    BY <1>3 DEF JobOK
  <2> QED
    BY <2>1, ConstantsAssumption DEF Row
<1>5. JobOK(j, row, tries, told) /\ row.attempts = jobs[j].attempts
  <2>1. CASE tx[p].outcome = "succeed"
    <3> DEFINE new == [Unleased(jobs[j]) EXCEPT !.status = "succeeded"]
               t2 == [attempt[j] EXCEPT ![jobs[j].attempts] = "succeeded"]
    <3>1. row = new /\ tries = t2
      BY <2>1 DEF Succeeded
    <3>2. JobOK(j, new, t2, notified[j])
      BY <1>2, <1>3, ClosedOK DEF Active
    <3>3. new.status = "succeeded" /\ new.attempts = jobs[j].attempts
      BY <1>4, UnleasedRow DEF Row
    <3>4. told = notified[j]
      <4>1. Told(j, row) = 0 /\ notified[j] \in 0..1
        BY <1>3, <3>1, <3>3 DEF Told, JobOK
      <4> QED
        BY <4>1
    <3> HIDE DEF new, t2, row, tries, told
    <3> QED
      BY <3>1, <3>2, <3>3, <3>4
  <2>2. CASE tx[p].outcome # "succeed"
    <3> DEFINE new == Failed(j, tx[p].outcome, tx[p].start)
    <3>1. row = new /\ result = "failed"
      BY <2>2
    <3>2. GivenUp(j, jobs[j], new)
      BY <1>2, <1>4, FailedRow
    <3>3. JobOK(j, new, [attempt[j] EXCEPT ![jobs[j].attempts] = "failed"], notified[j] + Told(j, new))
      BY <1>2, <1>3, <3>2, GivenUpOK
    <3>4. new.attempts = jobs[j].attempts
      BY <3>2 DEF GivenUp
    <3> HIDE DEF new, row, result
    <3> QED
      BY <3>1, <3>3, <3>4
  <2> QED
    BY <2>1, <2>2
<1>6. \A n \in 1..AttemptCap : tries[n] # "open"
  BY <1>3, <1>4 DEF JobOK
<1>7. /\ jobs' = [jobs EXCEPT ![j] = row] /\ notified' = [notified EXCEPT ![j] = told]
      /\ work' = [work EXCEPT ![p] = NoWork] /\ tx' = [tx EXCEPT ![p] = NoTx]
      /\ UNCHANGED <<clock, beat, prod>>
  BY DEF CommitFinish
<1>8. attempt' = [attempt EXCEPT ![j] = tries]
  BY <1>1, <1>2 DEF CommitFinish, TablesOK
<1> HIDE DEF row, tries, told, j
<1>9. ProcsOK' /\ \A q \in Procs : work'[q] = work[q] \/ work'[q] = NoWork
  <2>1. ProcsShaped'
    BY <1>1, <1>7, SMTT(30) DEF ProcsOK, ProcsShaped, NoWork, NoTx
  <2>2. ProcsOK'
    BY <1>1, <1>7, <2>1, ConstantsAssumption, SMTT(30) DEF ProcsOK, NoWork, NoTx, Outcomes
  <2> QED
    BY <1>1, <1>7, <2>2 DEF ProcsOK
<1>10. jobs[j].status \in Active /\ j \in Jobs
  BY <1>2, <1>3 DEF Active
<1> QED
  BY <1>5, <1>6, <1>7, <1>8, <1>9, <1>10, OneRowInd

(* The reaping half of a claim leaves legal rows, none of them newly active. *)
LEMMA ReapedOK ==
  ASSUME TablesOK, NEW now \in Nat, NEW reaped \in SUBSET Jobs,
         \A r \in reaped : Expired(r, now), NEW j \in Jobs
  PROVE  /\ JobOK(j, RowAfterReap(j, reaped, now), AttemptsAfterReap(j, reaped),
                  IF j \in reaped THEN notified[j] + Told(j, Abandoned(j, now)) ELSE notified[j])
         /\ RowAfterReap(j, reaped, now).attempts = jobs[j].attempts
         /\ RowAfterReap(j, reaped, now).status \in Active => jobs[j].status \in Active
         /\ RowAfterReap(j, reaped, now).status = "absent" <=> jobs[j].status = "absent"
         /\ \A n \in 1..AttemptCap : AttemptsAfterReap(j, reaped)[n] = "open" =>
              attempt[j][n] = "open" /\ RowAfterReap(j, reaped, now).owner = jobs[j].owner
<1>1. JobOK(j, jobs[j], attempt[j], notified[j])
  BY DEF TablesOK
<1>2. CASE j \notin reaped
  BY <1>1, <1>2 DEF RowAfterReap, AttemptsAfterReap
<1>3. CASE j \in reaped
  <2> DEFINE row == Abandoned(j, now)
             tries == [attempt[j] EXCEPT ![jobs[j].attempts] = "abandoned"]
  <2>1. jobs[j].status = "running"
    BY <1>3 DEF Expired
  <2>2. jobs[j] \in Row /\ jobs[j].attempts \in 1..jobs[j].max /\ jobs[j].attempts \in 1..AttemptCap
    <3>1. jobs[j] \in Row /\ jobs[j].attempts > 0 /\ jobs[j].attempts <= jobs[j].max
      BY <1>1, <2>1 DEF JobOK
    <3> QED
      BY <3>1, ConstantsAssumption DEF Row
  <2>3. GivenUp(j, jobs[j], row)
    BY <2>2, AbandonedRow
  <2>4. JobOK(j, row, tries, notified[j] + Told(j, row))
    BY <1>1, <2>1, <2>3, GivenUpOK
  <2>5. row.attempts = jobs[j].attempts /\ row.status \in {"queued", "dead_letter"}
    BY <2>3 DEF GivenUp
  <2>6. \A n \in 1..AttemptCap : tries[n] # "open"
    BY <1>1, <2>2 DEF JobOK
  <2>7. RowAfterReap(j, reaped, now) = row /\ AttemptsAfterReap(j, reaped) = tries
    BY <1>3 DEF RowAfterReap, AttemptsAfterReap
  <2>8. jobs[j].status \in Active
    BY <2>1 DEF Active
  <2> HIDE DEF tries
  <2> QED
    BY <1>3, <2>1, <2>4, <2>5, <2>6, <2>7, <2>8
<1> QED
  BY <1>2, <1>3

LEMMA CommitClaimInd == ASSUME Ind, NEW p \in Procs, CommitClaim(p) PROVE Ind'
<1> DEFINE now == tx[p].start
<1>1. TablesOK /\ ProcsOK /\ InsertsOK /\ OneActivePerKey /\ ExclusiveAttempts
  BY DEF Ind
<1>2. now \in Nat /\ work[p] = NoWork
  BY <1>1, ConstantsAssumption DEF CommitClaim, ProcsOK, ProcsShaped
<1>a. PICK locked \in SUBSET Lockable(p) : \E reaped \in ReapChoices(Jobs \ locked, now) :
        \E taken \in IF Choices(Jobs \ locked, reaped, now) = {} THEN {None}
                     ELSE Choices(Jobs \ locked, reaped, now) :
          WriteClaim(p, taken, reaped, now)
  BY DEF CommitClaim
<1>3. PICK reaped \in ReapChoices(Jobs \ locked, now) :
        \E taken \in IF Choices(Jobs \ locked, reaped, now) = {} THEN {None}
                     ELSE Choices(Jobs \ locked, reaped, now) :
          WriteClaim(p, taken, reaped, now)
  BY <1>a
<1>4. reaped \in SUBSET Jobs /\ \A r \in reaped : Expired(r, now)
  BY DEF ReapChoices
<1> DEFINE R(j) == RowAfterReap(j, reaped, now)
           T(j) == AttemptsAfterReap(j, reaped)
           N(j) == IF j \in reaped THEN notified[j] + Told(j, Abandoned(j, now)) ELSE notified[j]
<1>5. PICK taken : /\ taken = None \/ (taken \in Jobs /\ R(taken).status = "queued")
                   /\ WriteClaim(p, taken, reaped, now)
  <2>1. \A t \in Choices(Jobs \ locked, reaped, now) : t \in Jobs /\ R(t).status = "queued"
    BY DEF Choices
  <2> QED
    BY <1>3, <2>1
<1>b. taken \in Jobs => taken # None /\ R(taken).status = "queued"
  BY <1>5, ConstantsAssumption
<1>6. \A j \in Jobs : /\ JobOK(j, R(j), T(j), N(j))
                      /\ R(j).attempts = jobs[j].attempts
                      /\ R(j).status \in Active => jobs[j].status \in Active
                      /\ R(j).status = "absent" <=> jobs[j].status = "absent"
                      /\ \A n \in 1..AttemptCap : T(j)[n] = "open" =>
                           attempt[j][n] = "open" /\ R(j).owner = jobs[j].owner
  BY <1>1, <1>2, <1>4, ReapedOK
<1>7. /\ tx' = [tx EXCEPT ![p] = NoTx] /\ UNCHANGED <<clock, beat, prod>>
      /\ work' = IF taken = None THEN work
                 ELSE [work EXCEPT ![p] = [job |-> taken, no |-> jobs[taken].attempts + 1]]
      /\ jobs' = [j \in Jobs |-> IF j = taken THEN Claimed(R(j), WorkerIdOf[p], now) ELSE R(j)]
      /\ attempt' = [j \in Jobs |-> IF j = taken
                       THEN [T(j) EXCEPT ![jobs[j].attempts + 1] = "open"] ELSE T(j)]
      /\ notified' = [j \in Jobs |-> N(j)]
  BY <1>5 DEF CommitClaim, WriteClaim
<1> HIDE DEF R, T, N, now
<1>8. \A j \in Jobs : j # taken => jobs'[j] = R(j) /\ attempt'[j] = T(j) /\ notified'[j] = N(j)
  BY <1>7
<1>9. taken \in Jobs => /\ jobs'[taken] = Claimed(R(taken), WorkerIdOf[p], now)
                        /\ attempt'[taken] = [T(taken) EXCEPT ![jobs[taken].attempts + 1] = "open"]
                        /\ notified'[taken] = N(taken)
  BY <1>7
<1>10. taken \in Jobs => JobOK(taken, jobs'[taken], attempt'[taken], notified'[taken])
  <2> SUFFICES ASSUME taken \in Jobs PROVE JobOK(taken, jobs'[taken], attempt'[taken], notified'[taken])
    OBVIOUS
  <2>1. R(taken).status = "queued" /\ WorkerIdOf[p] \in WorkerIds
    BY <1>5, ConstantsAssumption
  <2> QED
    BY <1>2, <1>6, <1>9, <2>1, ClaimedOK
<1>11. \A j \in Jobs : JobOK(j, jobs'[j], attempt'[j], notified'[j])
  BY <1>6, <1>8, <1>10
<1>12. TablesOK'
  <2>1. \A j \in Jobs : jobs'[j] \in Row /\ attempt'[j] \in [1..AttemptCap -> Results] /\ notified'[j] \in 0..1
    BY <1>11 DEF JobOK
  <2> QED
    BY <1>7, <1>11, <2>1 DEF TablesOK
<1>13. \A j \in Jobs : /\ jobs'[j].status \in Active => jobs[j].status \in Active
                       /\ jobs[j].status = "absent" => jobs'[j].status = "absent"
  <2>1. taken \in Jobs => jobs[taken].status \in Active /\ jobs[taken].status # "absent"
    BY <1>b, <1>6 DEF Active
  <2> QED
    BY <1>6, <1>8, <2>1
<1>14. OneActivePerKey'
  BY <1>1, <1>13 DEF OneActivePerKey
<1>15. InsertsOK'
  BY <1>1, <1>7, <1>13 DEF InsertsOK, InsertsShaped
<1>16. /\ taken \in Jobs => jobs[taken].attempts + 1 \in 1..AttemptCap
       /\ taken \in Jobs => jobs'[taken].attempts = jobs[taken].attempts + 1
       /\ taken \in Jobs => jobs'[taken].owner = WorkerIdOf[p]
  <2> SUFFICES ASSUME taken \in Jobs
               PROVE  /\ jobs[taken].attempts + 1 \in 1..AttemptCap
                      /\ jobs'[taken].attempts = jobs[taken].attempts + 1
                      /\ jobs'[taken].owner = WorkerIdOf[p]
    OBVIOUS
  <2>1. R(taken) \in Row /\ R(taken).attempts < R(taken).max /\ R(taken).attempts = jobs[taken].attempts
    BY <1>b, <1>6 DEF JobOK
  <2>2. jobs[taken].attempts + 1 \in 1..AttemptCap
    <3>1. R(taken).attempts \in 0..AttemptCap /\ R(taken).max \in 1..AttemptCap /\ AttemptCap \in Nat
      BY <2>1, ConstantsAssumption DEF Row
    <3> QED
      BY <2>1, <3>1
  <2>3. jobs'[taken].attempts = jobs[taken].attempts + 1 /\ jobs'[taken].owner = WorkerIdOf[p]
    BY <1>9, <2>1 DEF Claimed, Row
  <2> QED
    BY <2>2, <2>3
<1>17. ProcsOK'
  <2>1. work' \in [Procs -> [job : Jobs \cup {None}, no : 0..AttemptCap]]
    BY <1>1, <1>5, <1>7, <1>16 DEF ProcsOK
  <2>2. \A q \in Procs : q # p => work'[q] = work[q] /\ tx'[q] = tx[q]
    BY <1>1, <1>7 DEF ProcsOK
  <2>3. tx'[p] = NoTx /\ tx' \in [Procs -> [op : {"none", "claim", "finish"}, start : 0..MaxTime, outcome : Outcomes]]
    BY <1>1, <1>7, ConstantsAssumption DEF ProcsOK, NoTx, Outcomes
  <2>4. work'[p].job = None <=> work'[p] = NoWork
    BY <1>1, <1>2, <1>5, <1>7, ConstantsAssumption DEF ProcsOK, NoWork
  <2>5. ProcsShaped'
    <3> SUFFICES ASSUME NEW q \in Procs
                 PROVE  (/\ work[q].job = None <=> work[q] = NoWork
                         /\ tx[q].op = "finish" => work[q].job # None
                         /\ tx[q].op = "claim" => work[q] = NoWork
                         /\ tx[q].op = "none" => tx[q] = NoTx
                         /\ beat[q].job = None <=> beat[q] = NoBeat
                         /\ tx[q].start <= clock /\ beat[q].start <= clock)'
      BY DEF ProcsShaped
    <3>1. CASE q = p
      BY <1>1, <1>7, <2>3, <2>4, <3>1 DEF ProcsOK, ProcsShaped, NoTx
    <3>2. CASE q # p
      BY <1>1, <1>7, <2>2, <3>2 DEF ProcsOK, ProcsShaped
    <3> QED
      BY <3>1, <3>2
  <2> QED
    BY <1>1, <1>7, <2>1, <2>3, <2>5 DEF ProcsOK
<1>18. ExclusiveAttempts'
  <2>1. CASE taken = None
    <3>1. taken \notin Jobs /\ work' = work
      BY <1>7, <2>1, ConstantsAssumption
    <3>2. \A j \in Jobs : jobs'[j] = R(j) /\ attempt'[j] = T(j)
      BY <1>8, <3>1
    <3>3. \A j \in Jobs : jobs'[j].attempts = jobs[j].attempts
      BY <1>6, <3>2
    <3>4. \A j \in Jobs, n \in 1..AttemptCap : attempt'[j][n] = "open" =>
            attempt[j][n] = "open" /\ jobs'[j].owner = jobs[j].owner
      BY <1>6, <3>2
    <3> QED
      BY <1>1, <1>17, <3>1, <3>3, <3>4, StillExclusive DEF ProcsOK
  <2>2. CASE taken \in Jobs
    <3>1. work'[p] = [job |-> taken, no |-> jobs[taken].attempts + 1] /\ \A q \in Procs : q # p => work'[q] = work[q]
      BY <1>1, <1>7, <2>2, ConstantsAssumption DEF ProcsOK
    <3>2. \A n \in 1..AttemptCap : n # jobs[taken].attempts + 1 => attempt'[taken][n] # "open"
      <4>1. \A n \in 1..AttemptCap : T(taken)[n] # "open" /\ T(taken) \in [1..AttemptCap -> Results]
        <5>1. JobOK(taken, R(taken), T(taken), N(taken)) /\ R(taken).status = "queued"
          BY <1>b, <1>6, <2>2
        <5> QED
          BY <5>1 DEF JobOK
      <4> QED
        BY <1>9, <1>16, <2>2, <4>1
    <3>3. \A q \in Procs : q # p /\ work[q].job # None =>
            /\ work[q].job \in Jobs
            /\ work[q].no \in 1..jobs[work[q].job].attempts
            /\ work[q].no \in 1..AttemptCap
            /\ attempt[work[q].job][work[q].no] = "open" => jobs[work[q].job].owner = WorkerIdOf[q]
            /\ \A s \in Procs : work[s] = work[q] => s = q
      <4> SUFFICES ASSUME NEW q \in Procs, work[q].job # None
                   PROVE  /\ work[q].job \in Jobs
                          /\ work[q].no \in 1..jobs[work[q].job].attempts
                          /\ work[q].no \in 1..AttemptCap
                          /\ attempt[work[q].job][work[q].no] = "open" => jobs[work[q].job].owner = WorkerIdOf[q]
                          /\ \A s \in Procs : work[s] = work[q] => s = q
        OBVIOUS
      <4>1. work[q].job \in Jobs
        BY <1>1 DEF ProcsOK
      <4>2. jobs[work[q].job].attempts \in 0..AttemptCap
        BY <1>1, <4>1 DEF TablesOK, Row
      <4>3. /\ work[q].no \in 1..jobs[work[q].job].attempts
            /\ attempt[work[q].job][work[q].no] = "open" => jobs[work[q].job].owner = WorkerIdOf[q]
            /\ \A s \in Procs : work[s] = work[q] => s = q
        BY <1>1 DEF ExclusiveAttempts
      <4>4. work[q].no \in 1..AttemptCap
        BY <4>2, <4>3, ConstantsAssumption
      <4> QED
        BY <4>1, <4>3, <4>4
    <3>4. \A q \in Procs : work'[q].job # None =>
            /\ work'[q].no \in 1..jobs'[work'[q].job].attempts
            /\ attempt'[work'[q].job][work'[q].no] = "open" => jobs'[work'[q].job].owner = WorkerIdOf[q]
      <4> SUFFICES ASSUME NEW q \in Procs, work'[q].job # None
                   PROVE  /\ work'[q].no \in 1..jobs'[work'[q].job].attempts
                          /\ attempt'[work'[q].job][work'[q].no] = "open" => jobs'[work'[q].job].owner = WorkerIdOf[q]
        OBVIOUS
      <4>1. CASE q = p
        BY <1>16, <2>2, <3>1, <4>1
      <4>2. CASE q # p /\ work[q].job = taken
        <5>1. work[q].no \in 1..jobs[taken].attempts /\ work[q].no \in 1..AttemptCap
              /\ jobs'[taken].attempts = jobs[taken].attempts + 1 /\ jobs[taken].attempts + 1 \in 1..AttemptCap
          <6>1. work[q].job # None
            BY <1>b, <2>2, <4>2
          <6>2. work[q].no \in 1..jobs[work[q].job].attempts /\ work[q].no \in 1..AttemptCap
            BY <3>3, <4>2, <6>1
          <6> QED
            BY <1>16, <2>2, <4>2, <6>2
        <5>2. work[q].no # jobs[taken].attempts + 1 /\ work[q].no \in 1..jobs'[taken].attempts
          <6>1. jobs[taken].attempts \in 0..AttemptCap
            BY <1>1, <2>2 DEF TablesOK, Row
          <6> QED
            BY <5>1, <6>1, ConstantsAssumption
        <5> QED
          BY <3>1, <3>2, <4>2, <5>1, <5>2
      <4>3. CASE q # p /\ work[q].job # taken
        <5>1. work'[q] = work[q] /\ work[q].job \in Jobs
          BY <3>1, <3>3, <4>3
        <5>2. jobs'[work[q].job] = R(work[q].job) /\ attempt'[work[q].job] = T(work[q].job)
          BY <1>8, <4>3, <5>1
        <5> QED
          BY <1>6, <3>3, <4>3, <5>1, <5>2
      <4> QED
        BY <4>1, <4>2, <4>3
    <3>5. \A q, s \in Procs : work'[q].job # None /\ work'[q] = work'[s] => q = s
      <4> SUFFICES ASSUME NEW q \in Procs, NEW s \in Procs, work'[q].job # None, work'[q] = work'[s]
                   PROVE  q = s
        OBVIOUS
      <4>1. CASE q # p /\ s # p
        BY <3>1, <3>3, <4>1
      <4>2. ASSUME NEW t \in Procs, t # p, work'[t] = work'[p] PROVE FALSE
        <5>1. work[t].job = taken /\ work[t].no = jobs[taken].attempts + 1
          BY <3>1, <4>2
        <5>2. work[t].no \in 1..jobs[taken].attempts /\ jobs[taken].attempts + 1 \in 1..AttemptCap
          <6>1. work[t].job # None
            BY <1>b, <2>2, <5>1
          <6>2. work[t].no \in 1..jobs[work[t].job].attempts
            BY <3>3, <4>2, <6>1
          <6> QED
            BY <1>16, <2>2, <5>1, <6>2
        <5>3. jobs[taken].attempts \in 0..AttemptCap
          BY <1>1, <2>2 DEF TablesOK, Row
        <5> QED
          BY <5>1, <5>2, <5>3, ConstantsAssumption
      <4> QED
        BY <4>1, <4>2
    <3> QED
      BY <3>4, <3>5 DEF ExclusiveAttempts
  <2> QED
    BY <1>5, <2>1, <2>2
<1> QED
  BY <1>12, <1>14, <1>15, <1>17, <1>18 DEF Ind

(* The inductive invariant holds of every behaviour.                        *)
LEMMA NextInd == ASSUME Ind, [Next]_vars PROVE Ind'
<1>1. CASE UNCHANGED vars
  BY <1>1 DEF vars, Ind, TablesOK, ProcsOK, InsertsOK, OneActivePerKey, ExclusiveAttempts,
              ProcsShaped, InsertsShaped
<1>2. CASE Tick
  BY <1>2, TickInd
<1>3. ASSUME NEW q \in Producers,
             (\E j \in Jobs : BeginEnqueue(q, j)) \/ CommitEnqueue(q) \/ RejectEnqueue(q)
      PROVE  Ind'
  BY <1>3, BeginEnqueueInd, CommitEnqueueInd, RejectEnqueueInd
<1>4. ASSUME NEW p \in Procs, QuietStep(p) PROVE Ind'
  BY <1>4, QuietInd
<1>5. ASSUME NEW p \in Procs, CommitClaim(p) \/ CommitBeat(p) \/ CommitFinish(p) PROVE Ind'
  BY <1>5, CommitClaimInd, CommitBeatInd, CommitFinishInd
<1>6. ASSUME NEW j \in Jobs, Cancel(j) PROVE Ind'
  BY <1>6, CancelInd
<1> QED
  BY <1>1, <1>2, <1>3, <1>4, <1>5, <1>6 DEF Next, QuietStep

THEOREM Inductive == Spec => []Ind
<1>1. Init => Ind
  BY InitInd
<1>2. Ind /\ [Next]_vars => Ind'
  BY NextInd
<1> QED
  BY <1>1, <1>2, PTL DEF Spec

(* Every reachable state is well typed.                                     *)
THEOREM TypeCorrect == Spec => []TypeOK
<1>1. Ind => TypeOK
  BY Regrouped DEF IInv
<1> QED
  BY <1>1, Inductive, PTL

(* The attempt ledger and the rows never disagree, and a claimable job      *)
(* always has an attempt left, for any number of processes, jobs and times. *)
THEOREM LedgerCorrect == Spec => [](LedgerAgrees /\ BudgetKept)
<1>1. Ind => LedgerAgrees /\ BudgetKept
  BY Regrouped DEF IInv
<1> QED
  BY <1>1, Inductive, PTL

(* No two active jobs ever share a dedupe key.                              *)
THEOREM DedupeCorrect == Spec => []OneActivePerKey
<1>1. Ind => OneActivePerKey
  BY DEF Ind
<1> QED
  BY <1>1, Inductive, PTL

(* No two processes ever handle the same attempt.                           *)
THEOREM ExclusionCorrect == Spec => []ExclusiveAttempts
<1>1. Ind => ExclusiveAttempts
  BY DEF Ind
<1> QED
  BY <1>1, Inductive, PTL

(* The owner of a dead job is told once, in the step that buries it.        *)
THEOREM TellingCorrect == Spec => []ToldExactlyOnce
<1>1. Ind => ToldExactlyOnce
  BY Regrouped DEF IInv
<1> QED
  BY <1>1, Inductive, PTL

(* All that the queue promises of a state, for any number of processes,     *)
(* jobs, keys and times.                                                    *)
THEOREM QueueCorrect == Spec => []QueueSafety
<1>1. Ind => QueueSafety
  BY Regrouped DEF IInv, QueueSafety
<1> QED
  BY <1>1, Inductive, PTL

-----------------------------------------------------------------------------
(* Steps: what a transaction that started earlier, or a process that lost   *)
(* its lease, never does to a row.                                          *)

(* What a step does to row j: it leaves what is final, and abandons an      *)
(* attempt only when its lease is over.                                     *)
FinalKept(j) ==
  /\ jobs[j].status \in Terminal => jobs'[j] = jobs[j]
  /\ \A n \in 1..AttemptCap :
       attempt[j][n] \notin {"none", "open"} => attempt'[j][n] = attempt[j][n]

AbandonedLate(j) ==
  \A n \in 1..AttemptCap :
    attempt[j][n] = "open" /\ attempt'[j][n] = "abandoned" => jobs[j].lease < clock

Orderly(j) == FinalKept(j) /\ AbandonedLate(j)

LEMMA OrderlyUntouched ==
  ASSUME NEW j \in Jobs, jobs'[j] = jobs[j], attempt'[j] = attempt[j]
  PROVE  Orderly(j)
BY DEF Orderly, FinalKept, AbandonedLate

(* A row that is not final may be written; of its attempts only the open    *)
(* one is closed.                                                           *)
LEMMA OrderlyClosed ==
  ASSUME TablesOK, NEW j \in Jobs, NEW result, jobs[j].status \notin Terminal,
         attempt'[j] = IF jobs[j].status = "running"
                       THEN [attempt[j] EXCEPT ![jobs[j].attempts] = result] ELSE attempt[j],
         result = "abandoned" => jobs[j].lease < clock
  PROVE  Orderly(j)
<1>1. JobOK(j, jobs[j], attempt[j], notified[j])
  BY DEF TablesOK
<1>2. FinalKept(j)
  BY <1>1 DEF JobOK, FinalKept
<1>3. AbandonedLate(j)
  BY <1>1 DEF JobOK, AbandonedLate
<1> QED
  BY <1>2, <1>3 DEF Orderly

(* The step reaps rows whose leases are over by a clock of the past, and    *)
(* opens an attempt that did not exist.                                     *)
LEMMA OrderlyClaim ==
  ASSUME Ind, NEW p \in Procs, CommitClaim(p), NEW j \in Jobs
  PROVE  Orderly(j)
<1> DEFINE now == tx[p].start
<1>1. TablesOK /\ ProcsOK /\ JobOK(j, jobs[j], attempt[j], notified[j])
  BY DEF Ind, TablesOK
<1>2. now \in Nat /\ now <= clock /\ clock \in Nat
  BY <1>1, ConstantsAssumption DEF ProcsOK, ProcsShaped
<1>3. PICK locked \in SUBSET Lockable(p) : \E reaped \in ReapChoices(Jobs \ locked, now) :
        \E taken \in IF Choices(Jobs \ locked, reaped, now) = {} THEN {None}
                     ELSE Choices(Jobs \ locked, reaped, now) :
          WriteClaim(p, taken, reaped, now)
  BY DEF CommitClaim
<1>4. PICK reaped \in ReapChoices(Jobs \ locked, now) :
        \E taken \in IF Choices(Jobs \ locked, reaped, now) = {} THEN {None}
                     ELSE Choices(Jobs \ locked, reaped, now) :
          WriteClaim(p, taken, reaped, now)
  BY <1>3
<1>5. reaped \in SUBSET Jobs /\ \A r \in reaped : Expired(r, now)
  BY DEF ReapChoices
<1>6. PICK taken : /\ taken = None \/ RowAfterReap(taken, reaped, now).status = "queued"
                   /\ WriteClaim(p, taken, reaped, now)
  BY <1>4 DEF Choices
<1>7. /\ j # taken => jobs'[j] = RowAfterReap(j, reaped, now)
      /\ attempt'[j] = IF j = taken
                       THEN [AttemptsAfterReap(j, reaped) EXCEPT ![jobs[j].attempts + 1] = "open"]
                       ELSE AttemptsAfterReap(j, reaped)
  BY <1>6 DEF WriteClaim
<1>8. j = taken => RowAfterReap(j, reaped, now).status = "queued"
  BY <1>6, ConstantsAssumption
<1> HIDE DEF now
<1>9. jobs[j] \in Row /\ jobs[j].attempts \in 0..AttemptCap /\ jobs[j].lease \in Nat
  BY <1>1 DEF JobOK, Row
<1>10. CASE j \in reaped
  <2>1. jobs[j].status = "running" /\ jobs[j].lease < clock
    BY <1>2, <1>5, <1>9, <1>10 DEF Expired
  <2>2. AbandonedLate(j)
    BY <2>1 DEF AbandonedLate
  <2>3. \A n \in 1..AttemptCap : attempt[j][n] \notin {"none", "open"}
          => n # jobs[j].attempts /\ n # jobs[j].attempts + 1
    BY <1>1, <1>9, <2>1 DEF JobOK
  <2>4. AttemptsAfterReap(j, reaped) = [attempt[j] EXCEPT ![jobs[j].attempts] = "abandoned"]
    BY <1>10 DEF AttemptsAfterReap
  <2>5. attempt[j] \in [1..AttemptCap -> Results]
    BY <1>1 DEF JobOK
  <2>6. \A n \in 1..AttemptCap : attempt[j][n] \notin {"none", "open"} => attempt'[j][n] = attempt[j][n]
    BY <1>7, <2>3, <2>4, <2>5
  <2> QED
    BY <2>1, <2>2, <2>6 DEF Orderly, FinalKept, Terminal
<1>11. CASE j \notin reaped
  <2>1. RowAfterReap(j, reaped, now) = jobs[j] /\ AttemptsAfterReap(j, reaped) = attempt[j]
    BY <1>11 DEF RowAfterReap, AttemptsAfterReap
  <2>2. CASE j # taken
    BY <1>7, <2>1, <2>2, OrderlyUntouched
  <2>3. CASE j = taken
    <3>1. jobs[j].status = "queued"
      BY <1>8, <2>1, <2>3
    <3>2. \A n \in 1..AttemptCap :
            /\ attempt[j][n] # "open"
            /\ attempt[j][n] \notin {"none", "open"} => n # jobs[j].attempts + 1
      BY <1>1, <1>9, <3>1 DEF JobOK
    <3>3. attempt[j] \in [1..AttemptCap -> Results]
      BY <1>1 DEF JobOK
    <3>4. \A n \in 1..AttemptCap : attempt[j][n] \notin {"none", "open"} => attempt'[j][n] = attempt[j][n]
      BY <1>7, <2>1, <2>3, <3>2, <3>3
    <3> QED
      BY <3>1, <3>2, <3>4 DEF Orderly, FinalKept, AbandonedLate, Terminal
  <2> QED
    BY <2>2, <2>3
<1> QED
  BY <1>10, <1>11

(* A late or an early completion writes nothing but the owned row.          *)
LEMMA OrderlyFinish ==
  ASSUME Ind, NEW p \in Procs, CommitFinish(p), NEW j \in Jobs
  PROVE  Orderly(j)
<1>1. TablesOK /\ jobs[work[p].job].status = "running"
  BY DEF Ind, CommitFinish, Owned
<1>2. CASE j # work[p].job
  BY <1>1, <1>2, OrderlyUntouched DEF CommitFinish, TablesOK
<1>3. CASE j = work[p].job
  <2> DEFINE result == IF tx[p].outcome = "succeed" THEN "succeeded" ELSE "failed"
  <2>1. attempt'[j] = [attempt[j] EXCEPT ![jobs[j].attempts] = result]
    BY <1>1, <1>3 DEF CommitFinish, TablesOK
  <2> QED
    BY <1>1, <1>3, <2>1, OrderlyClosed DEF Terminal
<1> QED
  BY <1>2, <1>3

LEMMA OrderlyCancel ==
  ASSUME Ind, NEW k \in Jobs, Cancel(k), NEW j \in Jobs
  PROVE  Orderly(j)
<1>1. TablesOK /\ jobs[k].status \in Active
  BY DEF Ind, Cancel
<1>2. jobs[k].status = "running" => attempt[k][jobs[k].attempts] = "open"
  <2>1. JobOK(k, jobs[k], attempt[k], notified[k])
    BY <1>1 DEF TablesOK
  <2>2. jobs[k].status = "running" => jobs[k].attempts \in 1..AttemptCap
    BY <2>1 DEF JobOK, Row
  <2> QED
    BY <2>1, <2>2 DEF JobOK
<1>3. CASE j # k
  BY <1>1, <1>3, OrderlyUntouched DEF Cancel, TablesOK
<1>4. CASE j = k
  <2>1. attempt'[j] = IF jobs[j].status = "running"
                      THEN [attempt[j] EXCEPT ![jobs[j].attempts] = "cancelled"] ELSE attempt[j]
    BY <1>1, <1>2, <1>4 DEF Cancel, TablesOK
  <2> QED
    BY <1>1, <1>4, <2>1, OrderlyClosed DEF Active, Terminal
<1> QED
  BY <1>3, <1>4

(* Inserts and heartbeats write rows that are not final, and no attempt.    *)
LEMMA OrderlyInsert ==
  ASSUME Ind, NEW q \in Producers, CommitEnqueue(q), NEW j \in Jobs
  PROVE  Orderly(j)
<1>1. TablesOK /\ prod[q].job \in Jobs /\ jobs[prod[q].job].status = "absent" /\ UNCHANGED attempt
  BY DEF Ind, InsertsOK, InsertsShaped, CommitEnqueue
<1>2. j # prod[q].job => jobs'[j] = jobs[j]
  BY <1>1 DEF CommitEnqueue, TablesOK
<1> QED
  BY <1>1, <1>2 DEF Orderly, FinalKept, AbandonedLate, Terminal

LEMMA OrderlyBeat ==
  ASSUME Ind, NEW p \in Procs, CommitBeat(p), NEW j \in Jobs
  PROVE  Orderly(j)
<1>1. TablesOK /\ UNCHANGED attempt
  BY DEF Ind, CommitBeat
<1>2. jobs'[j] = jobs[j] \/ jobs[j].status = "running"
  BY <1>1 DEF CommitBeat, Owned, TablesOK
<1> QED
  BY <1>1, <1>2 DEF Orderly, FinalKept, AbandonedLate, Terminal

LEMMA OrderlyStep ==
  ASSUME Ind, [Next]_vars, NEW j \in Jobs
  PROVE  Orderly(j)
<1>1. CASE UNCHANGED <<jobs, attempt>>
  BY <1>1, OrderlyUntouched
<1>2. ASSUME NEW q \in Producers, CommitEnqueue(q) PROVE Orderly(j)
  BY <1>2, OrderlyInsert
<1>3. ASSUME NEW p \in Procs, CommitClaim(p) \/ CommitBeat(p) \/ CommitFinish(p) PROVE Orderly(j)
  BY <1>3, OrderlyClaim, OrderlyBeat, OrderlyFinish
<1>4. ASSUME NEW k \in Jobs, Cancel(k) PROVE Orderly(j)
  BY <1>4, OrderlyCancel
<1>5. \/ UNCHANGED <<jobs, attempt>>
      \/ \E q \in Producers : CommitEnqueue(q)
      \/ \E p \in Procs : CommitClaim(p) \/ CommitBeat(p) \/ CommitFinish(p)
      \/ \E k \in Jobs : Cancel(k)
  BY DEF Next, vars, Tick, BeginEnqueue, RejectEnqueue, BeginClaim, BeginBeat, BeginFinish,
         RejectFinish, Crash
<1> QED
  BY <1>1, <1>2, <1>3, <1>4, <1>5

(* What is final stays: late completions, late heartbeats, the reaper and   *)
(* cancellations change no terminal row and no finished attempt.            *)
THEOREM HistoryCorrect == Spec => HistoryFinal
<1>1. Ind /\ [Next]_vars =>
        [\A j \in Jobs :
           /\ jobs[j].status \in Terminal => jobs'[j] = jobs[j]
           /\ \A n \in 1..AttemptCap :
                attempt[j][n] \notin {"none", "open"} => attempt'[j][n] = attempt[j][n]]_vars
  BY OrderlyStep DEF Orderly, FinalKept
<1> QED
  BY <1>1, Inductive, PTL DEF Spec, HistoryFinal

(* No attempt is abandoned while its lease holds by the database's clock,   *)
(* however old the clock of the reaper's transaction is.                    *)
THEOREM AbandonCorrect == Spec => NoEarlyAbandon
<1>1. Ind /\ [Next]_vars =>
        [\A j \in Jobs : \A n \in 1..AttemptCap :
           attempt[j][n] = "open" /\ attempt'[j][n] = "abandoned" => jobs[j].lease < clock]_vars
  BY OrderlyStep DEF Orderly, AbandonedLate
<1> QED
  BY <1>1, Inductive, PTL DEF Spec, NoEarlyAbandon

-----------------------------------------------------------------------------
(* With a worker id for every process, _owned's comparison of the id is a   *)
(* comparison of the attempt.                                               *)
IdsDistinct == \A p, q \in Procs : WorkerIdOf[p] = WorkerIdOf[q] => p = q

(* A step that hands out nothing and gives no row an owner it had not.      *)
LEMMA StillSuperseded ==
  ASSUME SupersededNotOwner,
         \A p \in Procs : work'[p] = work[p] \/ work'[p] = NoWork,
         \A j \in Jobs : /\ jobs'[j].attempts = jobs[j].attempts
                         /\ jobs'[j].owner \in {jobs[j].owner, None}
  PROVE  SupersededNotOwner'
<1> SUFFICES ASSUME NEW p \in Procs, NEW j \in Jobs,
                    work'[p].job = j, work'[p].no # jobs'[j].attempts
             PROVE  jobs'[j].owner # WorkerIdOf[p]
  BY DEF SupersededNotOwner
<1>1. work'[p] = work[p]
  BY ConstantsAssumption DEF NoWork
<1>2. WorkerIdOf[p] # None
  BY ConstantsAssumption
<1> QED
  BY <1>1, <1>2 DEF SupersededNotOwner

LEMMA ClaimSupersedes ==
  ASSUME Ind, IdsDistinct, SupersededNotOwner, NEW p \in Procs, CommitClaim(p)
  PROVE  SupersededNotOwner'
<1> DEFINE now == tx[p].start
<1>1. TablesOK /\ ProcsOK /\ now \in Nat
  BY ConstantsAssumption DEF Ind, ProcsOK
<1>2. PICK locked \in SUBSET Lockable(p) : \E reaped \in ReapChoices(Jobs \ locked, now) :
        \E taken \in IF Choices(Jobs \ locked, reaped, now) = {} THEN {None}
                     ELSE Choices(Jobs \ locked, reaped, now) :
          WriteClaim(p, taken, reaped, now)
  BY DEF CommitClaim
<1>3. PICK reaped \in ReapChoices(Jobs \ locked, now) :
        \E taken \in IF Choices(Jobs \ locked, reaped, now) = {} THEN {None}
                     ELSE Choices(Jobs \ locked, reaped, now) :
          WriteClaim(p, taken, reaped, now)
  BY <1>2
<1>4. reaped \in SUBSET Jobs /\ \A r \in reaped : Expired(r, now)
  BY DEF ReapChoices
<1> DEFINE R(j) == RowAfterReap(j, reaped, now)
<1>5. PICK taken : /\ taken = None \/ (taken \in Jobs /\ R(taken).status = "queued")
                   /\ WriteClaim(p, taken, reaped, now)
  BY <1>3 DEF Choices
<1>6. /\ work' = IF taken = None THEN work
                 ELSE [work EXCEPT ![p] = [job |-> taken, no |-> jobs[taken].attempts + 1]]
      /\ jobs' = [j \in Jobs |-> IF j = taken THEN Claimed(R(j), WorkerIdOf[p], now) ELSE R(j)]
  BY <1>5 DEF WriteClaim
<1> HIDE DEF now
<1>7. \A j \in Jobs : R(j) \in Row /\ R(j).attempts = jobs[j].attempts /\ R(j).owner \in {jobs[j].owner, None}
                      /\ (R(j).status = "queued" => R(j).attempts < R(j).max)
  <2> TAKE j \in Jobs
  <2>1. JobOK(j, R(j), AttemptsAfterReap(j, reaped),
              IF j \in reaped THEN notified[j] + Told(j, Abandoned(j, now)) ELSE notified[j])
        /\ R(j).attempts = jobs[j].attempts
    BY <1>1, <1>4, ReapedOK
  <2>2. CASE j \notin reaped
    BY <2>1, <2>2 DEF JobOK, RowAfterReap
  <2>3. CASE j \in reaped
    <3>1. jobs[j] \in Row /\ jobs[j].attempts \in 1..jobs[j].max
      BY <1>1, <1>4, <2>3 DEF TablesOK, JobOK, Expired, Row
    <3>2. GivenUp(j, jobs[j], Abandoned(j, now))
      BY <1>1, <3>1, AbandonedRow
    <3> QED
      BY <2>1, <2>3, <3>2 DEF JobOK, RowAfterReap, GivenUp
  <2> QED
    BY <2>2, <2>3
<1> HIDE DEF R
<1>8. CASE taken = None
  <2>1. \A j \in Jobs : jobs'[j] = R(j)
    BY <1>6, <1>8, ConstantsAssumption
  <2> QED
    BY <1>6, <1>7, <1>8, <2>1, StillSuperseded
<1>9. CASE taken # None
  <2>1. taken \in Jobs /\ R(taken).status = "queued"
    BY <1>5, <1>9 DEF R
  <2>2. /\ jobs'[taken].attempts = jobs[taken].attempts + 1
        /\ jobs'[taken].owner = WorkerIdOf[p]
    <3>1. jobs'[taken] = Claimed(R(taken), WorkerIdOf[p], now)
      BY <1>6, <2>1
    <3>2. WorkerIdOf[p] \in WorkerIds
      BY ConstantsAssumption
    <3>3. R(taken) \in Row /\ R(taken).attempts = jobs[taken].attempts /\ R(taken).attempts < R(taken).max
      BY <1>7, <2>1
    <3> QED
      BY <1>1, <3>1, <3>2, <3>3, ClaimedRow
  <2>3. \A j \in Jobs : j # taken => jobs'[j] = R(j)
    BY <1>6
  <2>4. /\ work'[p] = [job |-> taken, no |-> jobs[taken].attempts + 1]
        /\ \A q \in Procs : q # p => work'[q] = work[q]
    BY <1>1, <1>6, <1>9 DEF ProcsOK
  <2> SUFFICES ASSUME NEW q \in Procs, NEW j \in Jobs,
                      work'[q].job = j, work'[q].no # jobs'[j].attempts
               PROVE  jobs'[j].owner # WorkerIdOf[q]
    BY DEF SupersededNotOwner
  <2>5. q # p
    BY <2>2, <2>4
  <2>6. CASE j = taken
    BY <2>2, <2>5, <2>6 DEF IdsDistinct
  <2>7. CASE j # taken
    <3>1. jobs'[j].attempts = jobs[j].attempts /\ jobs'[j].owner \in {jobs[j].owner, None}
      BY <1>7, <2>3, <2>7
    <3>2. work'[q] = work[q] /\ WorkerIdOf[q] # None
      BY <2>4, <2>5, ConstantsAssumption
    <3> QED
      BY <3>1, <3>2 DEF SupersededNotOwner
  <2> QED
    BY <2>6, <2>7
<1> QED
  BY <1>8, <1>9

LEMMA StepSupersedes ==
  ASSUME Ind, IdsDistinct, SupersededNotOwner, [Next]_vars
  PROVE  SupersededNotOwner'
<1>1. TablesOK /\ ProcsOK
  BY DEF Ind
<1>2. \A j \in Jobs : jobs[j] \in Row /\ (jobs[j].status = "running" => jobs[j].attempts \in 1..jobs[j].max)
  BY <1>1 DEF TablesOK, JobOK, Row
<1>3. CASE UNCHANGED jobs /\ \A p \in Procs : work'[p] = work[p] \/ work'[p] = NoWork
  BY <1>3, StillSuperseded
<1>4. ASSUME NEW q \in Producers, CommitEnqueue(q) PROVE SupersededNotOwner'
  <2>1. UNCHANGED work /\ \A j \in Jobs : /\ jobs'[j].attempts = jobs[j].attempts
                                         /\ jobs'[j].owner = jobs[j].owner
    BY <1>1, <1>2, <1>4 DEF CommitEnqueue, TablesOK, Row
  <2> QED
    BY <2>1, StillSuperseded
<1>5. ASSUME NEW p \in Procs, CommitBeat(p) PROVE SupersededNotOwner'
  <2>1. \A q \in Procs : work'[q] = work[q] \/ work'[q] = NoWork
    BY <1>1, <1>5 DEF CommitBeat, ProcsOK
  <2>2. \A j \in Jobs : /\ jobs'[j].attempts = jobs[j].attempts
                        /\ jobs'[j].owner = jobs[j].owner
    <3> TAKE j \in Jobs
    <3>1. jobs'[j] = jobs[j] \/ \E t : jobs'[j] = [jobs[j] EXCEPT !.lease = t]
      BY <1>1, <1>5 DEF CommitBeat, TablesOK
    <3> QED
      BY <1>2, <3>1 DEF Row
  <2> QED
    BY <2>1, <2>2, StillSuperseded
<1>6. ASSUME NEW p \in Procs, CommitFinish(p) PROVE SupersededNotOwner'
  <2>1. work' = [work EXCEPT ![p] = NoWork]
    BY <1>6 DEF CommitFinish
  <2> DEFINE j == work[p].job
             row == IF tx[p].outcome = "succeed" THEN Succeeded(j)
                    ELSE Failed(j, tx[p].outcome, tx[p].start)
  <2>2. jobs' = [jobs EXCEPT ![j] = row] /\ jobs[j].status = "running" /\ j \in Jobs /\ tx[p].start \in Nat
    BY <1>1, <1>6, ConstantsAssumption DEF CommitFinish, Owned, ProcsOK, ProcsShaped
  <2>3. row.attempts = jobs[j].attempts /\ row.owner = None
    <3>1. GivenUp(j, jobs[j], Failed(j, tx[p].outcome, tx[p].start))
      BY <1>2, <2>2, FailedRow
    <3>2. Succeeded(j).attempts = jobs[j].attempts /\ Succeeded(j).owner = None
      BY <1>2, <2>2, UnleasedRow DEF Succeeded, Row
    <3> QED
      BY <3>1, <3>2 DEF GivenUp
  <2> HIDE DEF j, row
  <2>4. \A k \in Jobs : /\ jobs'[k].attempts = jobs[k].attempts
                        /\ jobs'[k].owner \in {jobs[k].owner, None}
    BY <1>1, <2>2, <2>3 DEF TablesOK
  <2> QED
    BY <1>1, <2>1, <2>4, StillSuperseded DEF ProcsOK
<1>7. ASSUME NEW k \in Jobs, Cancel(k) PROVE SupersededNotOwner'
  <2>1. UNCHANGED work /\ \A j \in Jobs : /\ jobs'[j].attempts = jobs[j].attempts
                                         /\ jobs'[j].owner \in {jobs[j].owner, None}
    <3>1. jobs' = [jobs EXCEPT ![k] = [Unleased(jobs[k]) EXCEPT !.status = "cancelled"]]
      BY <1>7 DEF Cancel
    <3>2. /\ [Unleased(jobs[k]) EXCEPT !.status = "cancelled"].attempts = jobs[k].attempts
          /\ [Unleased(jobs[k]) EXCEPT !.status = "cancelled"].owner = None
      BY <1>2, UnleasedRow DEF Row
    <3> QED
      BY <1>1, <1>7, <3>1, <3>2 DEF Cancel, TablesOK
  <2> QED
    BY <2>1, StillSuperseded
<1>8. \/ UNCHANGED jobs /\ \A p \in Procs : work'[p] = work[p] \/ work'[p] = NoWork
      \/ \E q \in Producers : CommitEnqueue(q)
      \/ \E p \in Procs : CommitClaim(p) \/ CommitBeat(p) \/ CommitFinish(p)
      \/ \E k \in Jobs : Cancel(k)
  BY <1>1 DEF Next, vars, Tick, BeginEnqueue, RejectEnqueue, BeginClaim, BeginBeat, BeginFinish,
              RejectFinish, Crash, ProcsOK
<1> QED
  BY <1>3, <1>4, <1>5, <1>6, <1>7, <1>8, ClaimSupersedes

(* Only completions give an attempt a result of a handler.                  *)
LEMMA StepIsOwn ==
  ASSUME Ind, SupersededNotOwner, [Next]_vars, NEW j \in Jobs, NEW n \in 1..AttemptCap,
         attempt[j][n] = "open", attempt'[j][n] \in {"succeeded", "failed"}
  PROVE  \E p \in Procs : work[p] = [job |-> j, no |-> n] /\ work'[p] = NoWork
<1>1. TablesOK /\ ProcsOK /\ JobOK(j, jobs[j], attempt[j], notified[j])
  BY DEF Ind, TablesOK
<1>2. n = jobs[j].attempts
  BY <1>1 DEF JobOK
<1>3. ASSUME NEW p \in Procs, CommitFinish(p)
      PROVE  work[p] = [job |-> j, no |-> n] /\ work'[p] = NoWork
  <2>1. work[p].job = j
    BY <1>1, <1>3 DEF CommitFinish, TablesOK
  <2>2. jobs[j].owner = WorkerIdOf[p]
    BY <1>3, <2>1 DEF CommitFinish, Owned
  <2>3. work[p].no = n
    BY <1>2, <2>1, <2>2 DEF SupersededNotOwner
  <2>4. work[p] \in [job : Jobs \cup {None}, no : 0..AttemptCap] /\ work' = [work EXCEPT ![p] = NoWork]
    BY <1>1, <1>3 DEF ProcsOK, CommitFinish
  <2> QED
    BY <1>1, <2>1, <2>3, <2>4 DEF ProcsOK
<1>4. ASSUME NEW p \in Procs, CommitClaim(p) PROVE FALSE
  <2>1. PICK reaped, taken, now : WriteClaim(p, taken, reaped, now)
    BY <1>4 DEF CommitClaim
  <2>2. attempt'[j] = IF j = taken
                      THEN [AttemptsAfterReap(j, reaped) EXCEPT ![jobs[j].attempts + 1] = "open"]
                      ELSE AttemptsAfterReap(j, reaped)
    BY <2>1 DEF WriteClaim
  <2>3. attempt[j] \in [1..AttemptCap -> Results]
    BY <1>1 DEF JobOK
  <2>4. AttemptsAfterReap(j, reaped)[n] \in {"open", "abandoned"}
    BY <2>3 DEF AttemptsAfterReap
  <2>5. AttemptsAfterReap(j, reaped) \in [1..AttemptCap -> Results \cup {"abandoned"}]
    BY <2>3 DEF AttemptsAfterReap
  <2>6. attempt'[j][n] \in {"open", "abandoned"}
    BY <2>2, <2>4, <2>5
  <2> QED
    BY <2>6
<1>5. ASSUME NEW k \in Jobs, Cancel(k) PROVE FALSE
  <2>1. attempt'[j][n] \in {attempt[j][n], "cancelled"}
    BY <1>1, <1>5 DEF Cancel, TablesOK
  <2> QED
    BY <2>1
<1>6. CASE UNCHANGED attempt
  BY <1>6
<1>7. \/ UNCHANGED attempt
      \/ \E p \in Procs : CommitClaim(p) \/ CommitFinish(p)
      \/ \E k \in Jobs : Cancel(k)
  BY DEF Next, vars, Tick, BeginEnqueue, CommitEnqueue, RejectEnqueue, BeginClaim, BeginBeat,
         CommitBeat, BeginFinish, RejectFinish, Crash
<1> QED
  BY <1>3, <1>4, <1>5, <1>6, <1>7

(* When every process has a worker id of its own, a process records an      *)
(* outcome only for the very attempt it was handed, however late it is.     *)
THEOREM OwnershipCorrect == IdsDistinct => (Spec => OwnAttemptOnly)
<1> SUFFICES ASSUME IdsDistinct PROVE Spec => OwnAttemptOnly
  OBVIOUS
<1>1. Init => SupersededNotOwner
  BY ConstantsAssumption DEF Init, SupersededNotOwner, NoWork
<1>2. Ind /\ SupersededNotOwner /\ [Next]_vars => SupersededNotOwner'
  BY StepSupersedes
<1>3. Ind /\ SupersededNotOwner /\ [Next]_vars =>
        [\A j \in Jobs : \A n \in 1..AttemptCap :
           attempt[j][n] = "open" /\ attempt'[j][n] \in {"succeeded", "failed"}
             => \E p \in Procs : work[p] = [job |-> j, no |-> n] /\ work'[p] = NoWork]_vars
  BY StepIsOwn
<1> QED
  BY <1>1, <1>2, <1>3, Inductive, PTL DEF Spec, OwnAttemptOnly

(* All that it promises of a step, when every process has a worker id of    *)
(* its own.                                                                 *)
THEOREM StepsCorrect == IdsDistinct => (Spec => StepSafety)
  BY HistoryCorrect, AbandonCorrect, OwnershipCorrect DEF StepSafety

-----------------------------------------------------------------------------
(* JobQueue implements JobContract: the modules that stand on the contract  *)
(* may forget clocks, leases, worker ids and transactions.                  *)

(* What a client sees of one row: its notifications are told by its status. *)
View(j, row) == [status |-> row.status, tries |-> row.attempts, budget |-> row.max,
                 told |-> Told(j, row)]

Moves(j, old, new) ==
  View(j, new) = View(j, old) \/ Contract!Move(j, View(j, old), View(j, new))

Clients == [status : {"absent"} \cup Active \cup Terminal, tries : Nat, budget : Nat, told : 0..1]

LEMMA ViewIsClient ==
  ASSUME NEW j \in Jobs, NEW row \in Row
  PROVE  /\ View(j, row) \in Clients
         /\ View(j, row).status = row.status /\ View(j, row).tries = row.attempts
         /\ View(j, row).budget = row.max /\ View(j, row).told = Told(j, row)
BY ConstantsAssumption DEF View, Clients, Row, Told

LEMMA SeenIsView == ASSUME TablesOK PROVE Seen = [j \in Jobs |-> View(j, jobs[j])]
BY DEF TablesOK, JobOK, Seen, View, Told

-----------------------------------------------------------------------------
(* Moves of one row.                                                        *)

LEMMA GivenUpMoves ==
  ASSUME NEW j \in Jobs, NEW old \in Row, NEW row, GivenUp(j, old, row),
         old.status = "running", old.attempts <= old.max
  PROVE  Moves(j, old, row)
<1> DEFINE a == View(j, old)
           b == View(j, row)
           told == IF CallbackOf[j] = "notify" THEN 1 ELSE 0
<1>0. old.attempts \in 0..AttemptCap /\ old.max \in 1..AttemptCap /\ row.attempts = old.attempts /\ row \in Row
  BY ConstantsAssumption DEF Row, GivenUp
<1>1. /\ a \in Clients /\ a.status = "running" /\ a.tries = old.attempts /\ a.budget = old.max
      /\ b \in Clients /\ b.status = row.status /\ b.tries = row.attempts /\ b.budget = row.max
  BY <1>0, ViewIsClient
<1>2. /\ a.told = 0 /\ (row.status = "queued" => b.told = 0)
      /\ (row.status = "dead_letter" => b.told = told)
  BY <1>0, ViewIsClient DEF Told
<1> HIDE DEF a, b
<1>3. CASE row.status = "queued" /\ row.max = old.max /\ old.attempts < old.max
  <2>1. Contract!Retry(a, b)
    BY <1>0, <1>1, <1>2, <1>3 DEF Contract!Retry, Clients
  <2> QED
    BY <2>1 DEF Moves, Contract!Move, a, b
<1>4. CASE row.status = "dead_letter" /\ row.max = old.max
  <2>1. b.status = "dead_letter" /\ b.tries = a.tries /\ b.budget = a.budget /\ b.told = told
    BY <1>0, <1>1, <1>2, <1>4
  <2>2. b = [a EXCEPT !.status = "dead_letter", !.told = told]
    <3> HIDE DEF told
    <3> QED
      BY <1>1, <2>1 DEF Clients
  <2>3. Contract!Bury(j, a, b)
    BY <1>1, <2>2 DEF Contract!Bury
  <2> QED
    BY <2>3 DEF Moves, Contract!Move, a, b
<1>5. CASE /\ CallbackOf[j] = "recover" /\ old.attempts = old.max
           /\ row.status = "queued" /\ row.max = old.max + AttemptBatch
           /\ old.max <= AttemptCap - AttemptBatch
  <2>1. /\ b.status = "queued" /\ b.tries = a.tries /\ b.budget = a.budget + AttemptBatch /\ b.told = a.told
        /\ AttemptBatch \in Nat
    BY <1>0, <1>1, <1>2, <1>5, ConstantsAssumption
  <2>2. b = [a EXCEPT !.status = "queued", !.budget = @ + AttemptBatch]
    BY <1>1, <2>1 DEF Clients
  <2>3. a.budget + AttemptBatch <= AttemptCap /\ a.tries = a.budget
    BY <1>0, <1>1, <1>5, ConstantsAssumption
  <2>4. Contract!Renew(j, a, b)
    BY <1>1, <1>5, <2>2, <2>3 DEF Contract!Renew
  <2> QED
    BY <2>4 DEF Moves, Contract!Move, a, b
<1> QED
  BY <1>3, <1>4, <1>5 DEF GivenUp

(* A fresh batch is not due in the transaction that granted it, so that a   *)
(* claim hands over only what has an attempt of the old budget left.        *)
LEMMA RenewedIsNotDue ==
  ASSUME NEW j \in Jobs, NEW now \in Nat, jobs[j] \in Row, jobs[j].attempts \in 1..jobs[j].max,
         Abandoned(j, now).status = "queued", Abandoned(j, now).runAfter <= now
  PROVE  jobs[j].attempts < jobs[j].max
<1> USE ConstantsAssumption
<1> DEFINE freed == [Unleased(jobs[j]) EXCEPT !.runAfter = now]
           dead == [freed EXCEPT !.status = "dead_letter"]
<1> SUFFICES ASSUME ~(jobs[j].attempts < jobs[j].max) PROVE FALSE
  OBVIOUS
<1>1. /\ freed.attempts = jobs[j].attempts /\ freed.max = jobs[j].max
      /\ dead.attempts = jobs[j].attempts /\ dead.status = "dead_letter" /\ dead \in Row
  BY UnleasedRow DEF Row, Terminal
<1>2. Abandoned(j, now) = AfterTerminal(j, dead, TRUE, now)
  BY <1>1 DEF Abandoned
<1>3. jobs[j].attempts \in 1..AttemptCap
  BY DEF Row
<1> HIDE DEF dead, freed
<1>4. Abandoned(j, now).runAfter = now + RetryDelay[jobs[j].attempts]
  BY <1>1, <1>2 DEF AfterTerminal, Row
<1> QED
  BY <1>3, <1>4

LEMMA ClaimMoves ==
  ASSUME NEW j \in Jobs, NEW old \in Row, NEW row \in Row, NEW id \in WorkerIds, NEW now \in Nat,
         row.status = "queued", row.attempts = old.attempts, row.max = old.max,
         old.attempts < old.max, old.status \in Active
  PROVE  Moves(j, old, Claimed(row, id, now))
<1> DEFINE new == Claimed(row, id, now)
           a == View(j, old)
           b == View(j, new)
<1>1. /\ new.status = "running" /\ new.attempts = old.attempts + 1 /\ new.max = old.max
      /\ new \in Row
  BY ClaimedRow
<1>2. old.attempts \in Nat /\ old.max \in 1..AttemptCap
  BY ConstantsAssumption DEF Row
<1>3. Told(j, old) = 0 /\ Told(j, new) = 0
  BY <1>1 DEF Told, Active
<1> HIDE DEF new
<1>4. /\ a \in Clients /\ a.status = old.status /\ a.tries = old.attempts /\ a.budget = old.max /\ a.told = 0
      /\ b \in Clients /\ b.status = "running" /\ b.tries = old.attempts + 1 /\ b.budget = old.max /\ b.told = 0
  BY <1>1, <1>2, <1>3, ViewIsClient
<1> HIDE DEF a, b
<1>5. CASE old.status = "queued"
  <2>1. Contract!HandOut(a, b)
    BY <1>4, <1>5 DEF Contract!HandOut, Clients
  <2> QED
    BY <2>1 DEF Moves, Contract!Move, a, b, new
<1>6. CASE old.status = "running"
  <2>1. Contract!HandOver(a, b)
    BY <1>4, <1>6 DEF Contract!HandOver, Clients
  <2> QED
    BY <2>1 DEF Moves, Contract!Move, a, b, new
<1> QED
  BY <1>5, <1>6 DEF Active

LEMMA FinalMoves ==
  ASSUME NEW j \in Jobs, NEW old \in Row, NEW status,
         \/ status = "succeeded" /\ old.status = "running"
         \/ status = "cancelled" /\ old.status \in Active
  PROVE  Moves(j, old, [Unleased(old) EXCEPT !.status = status])
<1> DEFINE new == [Unleased(old) EXCEPT !.status = status]
           a == View(j, old)
           b == View(j, new)
<1>1. new.status = status /\ new.attempts = old.attempts /\ new.max = old.max /\ new \in Row
  BY UnleasedRow DEF Row, Terminal
<1>2. Told(j, old) = 0 /\ Told(j, new) = 0
  BY <1>1 DEF Told, Active
<1> HIDE DEF new
<1>3. /\ a \in Clients /\ a.status = old.status /\ a.tries = old.attempts /\ a.budget = old.max /\ a.told = 0
      /\ b \in Clients /\ b.status = status /\ b.tries = old.attempts /\ b.budget = old.max /\ b.told = 0
  BY <1>1, <1>2, ViewIsClient
<1> HIDE DEF a, b
<1>4. Contract!Complete(a, b) \/ Contract!Drop(a, b)
  BY <1>3 DEF Contract!Complete, Contract!Drop, Contract!Live, Clients, Active
<1> QED
  BY <1>4 DEF Moves, Contract!Move, a, b, new

-----------------------------------------------------------------------------
(* The steps that write rows.                                               *)

LEMMA ClaimRefines ==
  ASSUME Ind, NEW p \in Procs, CommitClaim(p), NEW j \in Jobs
  PROVE  Moves(j, jobs[j], jobs'[j])
<1> DEFINE now == tx[p].start
<1>1. TablesOK /\ ProcsOK /\ JobOK(j, jobs[j], attempt[j], notified[j])
  BY DEF Ind, TablesOK
<1>2. now \in Nat /\ WorkerIdOf[p] \in WorkerIds
  BY <1>1, ConstantsAssumption DEF ProcsOK
<1>3. PICK locked \in SUBSET Lockable(p) : \E reaped \in ReapChoices(Jobs \ locked, now) :
        \E taken \in IF Choices(Jobs \ locked, reaped, now) = {} THEN {None}
                     ELSE Choices(Jobs \ locked, reaped, now) :
          WriteClaim(p, taken, reaped, now)
  BY DEF CommitClaim
<1>4. PICK reaped \in ReapChoices(Jobs \ locked, now) :
        \E taken \in IF Choices(Jobs \ locked, reaped, now) = {} THEN {None}
                     ELSE Choices(Jobs \ locked, reaped, now) :
          WriteClaim(p, taken, reaped, now)
  BY <1>3
<1>5. reaped \in SUBSET Jobs /\ \A r \in reaped : Expired(r, now)
  BY DEF ReapChoices
<1> DEFINE R == RowAfterReap(j, reaped, now)
<1>6. PICK taken : /\ j = taken => R.status = "queued" /\ R.runAfter <= now
                   /\ WriteClaim(p, taken, reaped, now)
  BY <1>4, ConstantsAssumption DEF Choices
<1>7. jobs'[j] = IF j = taken THEN Claimed(R, WorkerIdOf[p], now) ELSE R
  BY <1>6 DEF WriteClaim
<1> HIDE DEF now
<1>8. jobs[j] \in Row /\ jobs[j].attempts <= jobs[j].max
      /\ (jobs[j].status = "queued" => jobs[j].attempts < jobs[j].max)
      /\ (jobs[j].status = "running" => jobs[j].attempts \in 1..jobs[j].max)
  BY <1>1 DEF JobOK, Row
<1>9. CASE j \notin reaped
  <2>1. R = jobs[j]
    BY <1>9 DEF RowAfterReap
  <2>2. CASE j # taken
    BY <1>7, <2>1, <2>2 DEF Moves
  <2>3. CASE j = taken
    BY <1>2, <1>6, <1>7, <1>8, <2>1, <2>3, ClaimMoves DEF Active
  <2> QED
    BY <2>2, <2>3
<1>10. CASE j \in reaped
  <2>1. jobs[j].status = "running" /\ R = Abandoned(j, now)
    BY <1>5, <1>10 DEF Expired, RowAfterReap
  <2>2. GivenUp(j, jobs[j], R)
    BY <1>2, <1>8, <2>1, AbandonedRow
  <2> HIDE DEF R
  <2>3. CASE j # taken
    BY <1>7, <1>8, <2>1, <2>2, <2>3, GivenUpMoves
  <2>4. CASE j = taken
    <3>1. jobs[j].attempts < jobs[j].max
      BY <1>2, <1>6, <1>8, <2>1, <2>4, RenewedIsNotDue
    <3>2. R \in Row /\ R.status = "queued" /\ R.attempts = jobs[j].attempts /\ R.max = jobs[j].max
      BY <1>6, <1>8, <2>2, <2>4, <3>1 DEF GivenUp, Row
    <3> QED
      BY <1>2, <1>7, <1>8, <2>1, <2>4, <3>1, <3>2, ClaimMoves DEF Active
  <2> QED
    BY <2>3, <2>4
<1> QED
  BY <1>9, <1>10

LEMMA FinishRefines ==
  ASSUME Ind, NEW p \in Procs, CommitFinish(p), NEW j \in Jobs
  PROVE  Moves(j, jobs[j], jobs'[j])
<1> DEFINE now == tx[p].start
<1>1. TablesOK /\ now \in Nat /\ JobOK(j, jobs[j], attempt[j], notified[j])
  BY ConstantsAssumption DEF Ind, TablesOK, ProcsOK
<1>2. CASE j # work[p].job
  BY <1>1, <1>2 DEF CommitFinish, TablesOK, Moves
<1>3. CASE j = work[p].job
  <2>1. /\ jobs[j].status = "running" /\ jobs[j] \in Row
        /\ jobs'[j] = IF tx[p].outcome = "succeed" THEN Succeeded(j) ELSE Failed(j, tx[p].outcome, now)
    BY <1>1, <1>3 DEF CommitFinish, Owned, TablesOK
  <2>2. jobs[j].attempts \in 1..jobs[j].max /\ jobs[j].attempts <= jobs[j].max
    BY <1>1, <2>1 DEF JobOK, Row
  <2>3. CASE tx[p].outcome = "succeed"
    BY <2>1, <2>3, FinalMoves DEF Succeeded
  <2>4. CASE tx[p].outcome # "succeed"
    <3>1. jobs'[j] = Failed(j, tx[p].outcome, now)
      BY <2>1, <2>4
    <3>2. GivenUp(j, jobs[j], Failed(j, tx[p].outcome, now))
      BY <1>1, <2>1, <2>2, FailedRow
    <3> QED
      BY <2>1, <2>2, <3>1, <3>2, GivenUpMoves
  <2> QED
    BY <2>3, <2>4
<1> QED
  BY <1>2, <1>3

LEMMA CancelRefines ==
  ASSUME Ind, NEW k \in Jobs, Cancel(k), NEW j \in Jobs
  PROVE  Moves(j, jobs[j], jobs'[j])
<1>1. TablesOK /\ jobs[j] \in Row /\ jobs[k].status \in Active
  BY DEF Ind, TablesOK, Cancel
<1>2. jobs'[j] = IF j = k THEN [Unleased(jobs[j]) EXCEPT !.status = "cancelled"] ELSE jobs[j]
  BY <1>1 DEF Cancel, TablesOK
<1>3. CASE j = k
  BY <1>1, <1>2, <1>3, FinalMoves
<1>4. CASE j # k
  BY <1>2, <1>4 DEF Moves
<1> QED
  BY <1>3, <1>4

LEMMA InsertRefines ==
  ASSUME Ind, NEW q \in Producers, CommitEnqueue(q), NEW j \in Jobs
  PROVE  Moves(j, jobs[j], jobs'[j])
<1>1. TablesOK /\ jobs[j] \in Row /\ prod[q].job \in Jobs /\ jobs[prod[q].job].status = "absent"
  BY DEF Ind, TablesOK, InsertsOK, InsertsShaped, CommitEnqueue
<1>2. CASE j # prod[q].job
  BY <1>1, <1>2 DEF CommitEnqueue, TablesOK, Moves
<1>3. CASE j = prod[q].job
  <2>1. PICK after : jobs'[j] = [jobs[j] EXCEPT !.status = "queued", !.runAfter = after]
    BY <1>1, <1>3 DEF CommitEnqueue, TablesOK
  <2> DEFINE a == View(j, jobs[j])
             b == View(j, jobs'[j])
  <2>2. /\ jobs'[j].status = "queued" /\ jobs'[j].attempts = jobs[j].attempts
        /\ jobs'[j].max = jobs[j].max /\ jobs'[j] \in Row
    BY <1>1, <2>1, CommitEnqueueInd DEF Row, Ind, TablesOK
  <2>3. Told(j, jobs[j]) = 0 /\ Told(j, jobs'[j]) = 0
    BY <1>1, <1>3, <2>2 DEF Told
  <2>4. /\ a \in Clients /\ a.status = "absent" /\ b \in Clients /\ b.status = "queued"
        /\ b.tries = a.tries /\ b.budget = a.budget /\ b.told = a.told
    BY <1>1, <1>3, <2>2, <2>3, ViewIsClient
  <2> HIDE DEF a, b
  <2>5. Contract!Submit(a, b)
    BY <2>4 DEF Contract!Submit, Clients
  <2> QED
    BY <2>5 DEF Moves, Contract!Move, a, b
<1> QED
  BY <1>2, <1>3

LEMMA BeatRefines ==
  ASSUME Ind, NEW p \in Procs, CommitBeat(p), NEW j \in Jobs
  PROVE  Moves(j, jobs[j], jobs'[j])
<1>1. TablesOK /\ jobs[j] \in Row
  BY DEF Ind, TablesOK
<1>2. jobs'[j] = jobs[j] \/ \E lease \in Int : jobs'[j] = [jobs[j] EXCEPT !.lease = lease]
  <2>1. beat[p].start + LeaseSeconds \in Int
    BY ConstantsAssumption DEF Ind, ProcsOK
  <2> QED
    BY <1>1, <2>1 DEF CommitBeat, TablesOK
<1>3. /\ jobs'[j].status = jobs[j].status /\ jobs'[j].attempts = jobs[j].attempts
      /\ jobs'[j].max = jobs[j].max
  BY <1>1, <1>2 DEF Row
<1> QED
  BY <1>3 DEF Moves, View, Told

LEMMA StepRefines ==
  ASSUME Ind, [Next]_vars, NEW j \in Jobs
  PROVE  Moves(j, jobs[j], jobs'[j])
<1>1. CASE UNCHANGED jobs
  BY <1>1 DEF Moves
<1>2. ASSUME NEW q \in Producers, CommitEnqueue(q) PROVE Moves(j, jobs[j], jobs'[j])
  BY <1>2, InsertRefines
<1>3. ASSUME NEW p \in Procs, CommitClaim(p) \/ CommitBeat(p) \/ CommitFinish(p)
      PROVE  Moves(j, jobs[j], jobs'[j])
  BY <1>3, ClaimRefines, BeatRefines, FinishRefines
<1>4. ASSUME NEW k \in Jobs, Cancel(k) PROVE Moves(j, jobs[j], jobs'[j])
  BY <1>4, CancelRefines
<1>5. \/ UNCHANGED jobs
      \/ \E q \in Producers : CommitEnqueue(q)
      \/ \E p \in Procs : CommitClaim(p) \/ CommitBeat(p) \/ CommitFinish(p)
      \/ \E k \in Jobs : Cancel(k)
  BY DEF Next, vars, Tick, BeginEnqueue, RejectEnqueue, BeginClaim, BeginBeat, BeginFinish,
         RejectFinish, Crash
<1> QED
  BY <1>1, <1>2, <1>3, <1>4, <1>5

-----------------------------------------------------------------------------
LEMMA InitRefines == Init => Contract!ContractInit
  BY DEF Init, Contract!ContractInit, Seen

LEMMA NextRefines ==
  ASSUME Ind, Ind', [Next]_vars
  PROVE  [Contract!ContractNext]_Seen
<1>1. Seen = [j \in Jobs |-> View(j, jobs[j])] /\ Seen' = [j \in Jobs |-> View(j, jobs'[j])]
  <2>1. TablesOK /\ TablesOK'
    BY DEF Ind
  <2>2. Seen' = [j \in Jobs |-> View(j, jobs'[j])]
    BY <2>1 DEF TablesOK, JobOK, Seen, View, Told
  <2> QED
    BY <2>1, <2>2, SeenIsView
<1>2. \A j \in Jobs : Seen'[j] = Seen[j] \/ Contract!Move(j, Seen[j], Seen'[j])
  <2> TAKE j \in Jobs
  <2>1. Moves(j, jobs[j], jobs'[j])
    BY StepRefines
  <2> QED
    BY <1>1, <2>1 DEF Moves
<1>3. Contract!KeysDistinct(Seen')
  <2>1. OneActivePerKey' /\ \A j \in Jobs : Seen'[j].status = jobs'[j].status
    BY <1>1 DEF Ind, View
  <2> QED
    BY <2>1 DEF OneActivePerKey, Contract!KeysDistinct, Contract!Live, Active
<1> QED
  BY <1>1, <1>2, <1>3 DEF Contract!ContractNext

(* The queue does only what its clients were promised, for any number of    *)
(* processes, jobs, keys and attempts: a job is handed out within its       *)
(* budget, ends in one status, and its owner is told in the step that       *)
(* buries it, by whichever transaction of whichever process.                *)
THEOREM ContractKept == Spec => KeepsContract
<1>1. Init => Contract!ContractInit
  BY InitRefines
<1>2. Ind /\ Ind' /\ [Next]_vars => [Contract!ContractNext]_Seen
  BY NextRefines
<1> QED
  BY <1>1, <1>2, Inductive, PTL DEF Spec, KeepsContract, Contract!ContractSpec

-----------------------------------------------------------------------------
(* The screening run, which asks of the queue no more than JobContract's    *)
(* promise, for any files, attempts, retries and losses.                    *)
(*                                                                         *)
(* Almost every step is about one item: it leaves the others alone and the  *)
(* item in order (Good).  What it asks of the item's row, file, jobs and    *)
(* open transaction is shown field by field first.                          *)

Slots == [Kinds -> Job]
Points == {"none", "begin", "scan", "copied", "switched", "read", "store", "score", "call", "infected", "commit", "settle"}

LEMMA ScreenTypes ==
  ScreeningTypeOK <=>
    /\ run \in Run /\ items \in [Item -> ItemRow] /\ objs \in [Item -> SUBSET {"quarantine", "clean"}]
    /\ job \in [Item -> Slots]
    /\ fin \in [Item -> [Gens -> {"none", "route", "transient", "technical", "done", "lost"}]]
    /\ held \in [Item -> Tx \cup {NotHeld}]
    /\ late \in [Item -> 0..MaxTry] /\ tally \in [gen : [Item -> Gens], lost : 0..MaxLost]
  BY DEF ScreeningTypeOK, Slots

(* What is counted is a legal state of the run, of one that has started.    *)
LEMMA CountedRun ==
  ASSUME ScreeningTypeOK, NEW i \in Item, NEW r
  PROVE  Counted(i, r) \in Run /\ Counted(i, r).st # "queued"
<1> DEFINE rs == [Committed EXCEPT ![i] = r]
           failed == {j \in Item : RuleFailed(rs[j])}
           over == {j \in Item : RuleDone(rs[j])}
           bad == Cardinality(failed)
           ok == Cardinality(over)
           degraded == \E j \in Item : rs[j].st = "scored" /\ rs[j].llm = "failed"
           st == CASE ok + bad = run.total -> IF degraded \/ (ok > 0 /\ bad > 0) THEN "partial"
                                      ELSE IF ok = 0 /\ bad > 0 THEN "failed" ELSE "completed"
               [] \E j \in Item : rs[j].st = "scored" /\ rs[j].llm \in {"queued", "running"} -> "llm_scoring"
               [] \E j \in Item : rs[j].st \in {"parsed", "scoring", "scored"} -> "rule_scoring"
               [] OTHER -> "parsing"
<1>1. IsFiniteSet(Item)
  BY ScreeningAssumption
<1>2. bad \in Nat /\ ok \in Nat
  <2>1. failed \subseteq Item /\ over \subseteq Item
    OBVIOUS
  <2>2. IsFiniteSet(failed) /\ IsFiniteSet(over)
    BY <1>1, <2>1, FS_Subset
  <2>3. Cardinality(failed) \in Nat /\ Cardinality(over) \in Nat
    BY <2>2, FS_CardinalityType
  <2> QED
    BY <2>3
<1>3. run.total \in Nat
  BY ScreenTypes DEF Run
<1>4. Counted(i, r) = [total |-> run.total, done |-> ok + bad, ok |-> ok, bad |-> bad, st |-> st]
  BY DEF Counted, Summary
<1> HIDE DEF bad, ok, degraded, rs
<1>5. st \in RunEnds \cup {"parsing", "rule_scoring", "llm_scoring"}
  BY DEF RunEnds
<1> HIDE DEF st
<1>6. st # "queued" /\ st \in RunEnds \cup {"queued", "parsing", "rule_scoring", "llm_scoring"}
  BY <1>5 DEF RunEnds
<1> QED
  BY <1>2, <1>3, <1>4, <1>6 DEF Run

-----------------------------------------------------------------------------
(* How a step moves one job of one item.                                    *)

JobIs(i, k, st, n, pc, out) ==
  /\ job' \in [Item -> Slots]
  /\ \A j \in Item \ {i} : job'[j] = job[j]
  /\ \A l \in Kinds \ {k} : job'[i][l] = job[i][l]
  /\ job'[i][k].st = st /\ job'[i][k].n = n /\ job'[i][k].pc = pc /\ job'[i][k].out = out

LEMMA JobSet ==
  ASSUME job \in [Item -> Slots], NEW i \in Item, NEW k \in Kinds, NEW j \in Job,
         job' = [job EXCEPT ![i] = [job[i] EXCEPT ![k] = j]]
  PROVE  JobIs(i, k, j.st, j.n, j.pc, j.out)
<1>1. [job[i] EXCEPT ![k] = j] \in Slots
  BY DEF Slots
<1> QED
  BY <1>1 DEF JobIs, Slots

LEMMA JobField ==
  ASSUME NEW j \in Job
  PROVE  /\ \A pc \in Points : [j EXCEPT !.pc = pc] \in Job /\ [j EXCEPT !.pc = pc] = [st |-> j.st, n |-> j.n, pc |-> pc, out |-> j.out]
         /\ j = [st |-> j.st, n |-> j.n, pc |-> j.pc, out |-> j.out]
  BY DEF Job, Points

LEMMA GoIs ==
  ASSUME job \in [Item -> Slots], NEW i \in Item, NEW k \in Kinds, NEW pc \in Points, Go(i, k, pc)
  PROVE  JobIs(i, k, job[i][k].st, job[i][k].n, pc, job[i][k].out)
<1>1. job[i][k] \in Job
  BY DEF Slots
<1> DEFINE j == [st |-> job[i][k].st, n |-> job[i][k].n, pc |-> pc, out |-> job[i][k].out]
<1>2. j \in Job /\ [job[i][k] EXCEPT !.pc = pc] = j
  BY <1>1, JobField
<1>3. job' = [job EXCEPT ![i] = [job[i] EXCEPT ![k] = [job[i][k] EXCEPT !.pc = pc]]]
  BY DEF Go
<1>4. job' = [job EXCEPT ![i] = [job[i] EXCEPT ![k] = j]]
  BY <1>2, <1>3
<1> QED
  BY <1>2, <1>4, JobSet

EndedAt(out) == IF out = "infected" THEN "infected" ELSE "settle"
EndedAs(out) == IF out = "infected" THEN "done" ELSE out

LEMMA SettledSet ==
  ASSUME NEW J \in [Item -> Slots], NEW i \in Item, NEW k \in Kinds, NEW out \in Outs \cup {"infected"}
  PROVE  \E j \in Job :
           /\ Settled(J, i, k, out) = [J EXCEPT ![i] = [J[i] EXCEPT ![k] = j]]
           /\ j = [st |-> J[i][k].st, n |-> J[i][k].n, pc |-> EndedAt(out), out |-> EndedAs(out)]
<1>1. J[i][k] \in Job
  BY DEF Slots
<1> DEFINE j == [st |-> J[i][k].st, n |-> J[i][k].n, pc |-> EndedAt(out), out |-> EndedAs(out)]
<1>2. EndedAt(out) \in {"infected", "settle"} /\ EndedAs(out) \in Outs
  BY DEF EndedAt, EndedAs, Outs
<1>3. j \in Job
  BY <1>1, <1>2 DEF Job
<1> DEFINE p == [J[i][k] EXCEPT !.pc = EndedAt(out)]
           first == [J EXCEPT ![i] = [J[i] EXCEPT ![k] = p]]
<1>4. Settled(J, i, k, out) = [first EXCEPT ![i] = [first[i] EXCEPT ![k] = [first[i][k] EXCEPT !.out = EndedAs(out)]]]
  BY DEF Settled, EndedAt, EndedAs
<1>5. p \in Job /\ p = [st |-> J[i][k].st, n |-> J[i][k].n, pc |-> EndedAt(out), out |-> J[i][k].out]
  BY <1>1, <1>2, JobField DEF Points
<1> HIDE DEF p
<1>6. [p EXCEPT !.out = EndedAs(out)] = j
  BY <1>5
<1> HIDE DEF j
<1>7. first[i] = [J[i] EXCEPT ![k] = p] /\ first[i][k] = p
  BY DEF Slots
<1>8. Settled(J, i, k, out) = [J EXCEPT ![i] = [J[i] EXCEPT ![k] = [p EXCEPT !.out = EndedAs(out)]]]
  BY <1>4, <1>7 DEF Slots
<1> QED
  BY <1>3, <1>6, <1>8 DEF j

LEMMA SettledIs ==
  ASSUME job \in [Item -> Slots], NEW i \in Item, NEW k \in Kinds, NEW out \in Outs \cup {"infected"},
         job' = Settled(job, i, k, out)
  PROVE  JobIs(i, k, job[i][k].st, job[i][k].n, EndedAt(out), EndedAs(out))
<1>1. PICK j \in Job :
           /\ Settled(job, i, k, out) = [job EXCEPT ![i] = [job[i] EXCEPT ![k] = j]]
           /\ j = [st |-> job[i][k].st, n |-> job[i][k].n, pc |-> EndedAt(out), out |-> EndedAs(out)]
  BY SettledSet
<1> QED
  BY <1>1, JobSet

LEMMA EndsIs ==
  ASSUME job \in [Item -> Slots], NEW i \in Item, NEW k \in Kinds, NEW out \in Outs, Ends(i, k, out)
  PROVE  JobIs(i, k, job[i][k].st, job[i][k].n, "settle", out)
  BY SettledIs DEF Ends, EndedAt, EndedAs, Outs

(* A handler that is done and has seen to it that the next kind of job is   *)
(* there.                                                                   *)
LEMMA ChainIs ==
  ASSUME job \in [Item -> Slots], NEW i \in Item, NEW k \in Kinds, NEW next \in Kinds \ {k},
         job' = Settled(Enqueued(job, i, next), i, k, "done")
  PROVE  /\ job' \in [Item -> Slots] /\ \A j \in Item \ {i} : job'[j] = job[j]
         /\ \A l \in Kinds \ {k, next} : job'[i][l] = job[i][l]
         /\ job'[i][k] = [st |-> job[i][k].st, n |-> job[i][k].n, pc |-> "settle", out |-> "done"]
         /\ job'[i][next] \in {job[i][next], [st |-> "queued", n |-> 0, pc |-> "none", out |-> "none"]}
<1> DEFINE J == Enqueued(job, i, next)
           fresh == [st |-> "queued", n |-> 0, pc |-> "none", out |-> "none"]
<1>1. Fresh = fresh /\ fresh \in Job
  BY ScreeningAssumption DEF Fresh, NoJob, Job, Outs
<1>2. /\ J \in [Item -> Slots] /\ \A j \in Item \ {i} : J[j] = job[j]
      /\ \A l \in Kinds \ {next} : J[i][l] = job[i][l]
      /\ J[i][next] \in {job[i][next], fresh}
  <2>1. J \in {job, [job EXCEPT ![i] = [job[i] EXCEPT ![next] = fresh]]}
    BY <1>1 DEF Enqueued
  <2> HIDE DEF J, fresh
  <2>2. [job[i] EXCEPT ![next] = fresh] \in Slots
    BY <1>1 DEF Slots
  <2> QED
    BY <2>1, <2>2 DEF Slots
<1> HIDE DEF J, fresh
<1>3. EndedAt("done") = "settle" /\ EndedAs("done") = "done" /\ "done" \in Outs \cup {"infected"}
  BY DEF EndedAt, EndedAs, Outs
<1>4. PICK j \in Job :
           /\ Settled(J, i, k, "done") = [J EXCEPT ![i] = [J[i] EXCEPT ![k] = j]]
           /\ j = [st |-> J[i][k].st, n |-> J[i][k].n, pc |-> EndedAt("done"), out |-> EndedAs("done")]
  BY <1>2, <1>3, SettledSet
<1>5. job' = [J EXCEPT ![i] = [J[i] EXCEPT ![k] = j]]
  BY <1>4 DEF J
<1>6. j = [st |-> job[i][k].st, n |-> job[i][k].n, pc |-> "settle", out |-> "done"]
  BY <1>2, <1>3, <1>4
<1>7. [J[i] EXCEPT ![k] = j] \in Slots
  BY <1>2 DEF Slots
<1>8. job' \in [Item -> Slots] /\ job'[i] = [J[i] EXCEPT ![k] = j] /\ \A l \in Item \ {i} : job'[l] = J[l]
  BY <1>2, <1>5, <1>7
<1>9. job'[i][k] = j /\ \A l \in Kinds \ {k} : job'[i][l] = J[i][l]
  BY <1>2, <1>8 DEF Slots
<1> QED
  BY <1>2, <1>6, <1>8, <1>9 DEF fresh

LEMMA ClaimIs ==
  ASSUME job \in [Item -> Slots], NEW i \in Item, NEW k \in Kinds,
         Claim(i, k), job[i][k].n < MaxTry
  PROVE  JobIs(i, k, "running", job[i][k].n + 1, "begin", "none")
<1> DEFINE j == [st |-> "running", n |-> job[i][k].n + 1, pc |-> "begin", out |-> "none"]
<1>1. j \in Job
  BY ScreeningAssumption DEF Slots, Job, Outs
<1>2. job' = [job EXCEPT ![i] = [job[i] EXCEPT ![k] = j]]
  BY DEF Claim
<1> QED
  BY <1>1, <1>2, JobSet

LEMMA FreshIs ==
  ASSUME job \in [Item -> Slots], NEW i \in Item, NEW k \in Kinds, NEW n \in 0..MaxTry
  PROVE  /\ job' = [job EXCEPT ![i][k] = Fresh] => JobIs(i, k, "queued", 0, "none", "none")
         /\ job' = [job EXCEPT ![i][k] = [Fresh EXCEPT !.n = n]] => JobIs(i, k, "queued", n, "none", "none")
         /\ job' = [job EXCEPT ![i][k] = [NoJob EXCEPT !.st = "dead"]] => JobIs(i, k, "dead", 0, "none", "none")
         /\ job' = [job EXCEPT ![i][k] = [NoJob EXCEPT !.st = "done"]] => JobIs(i, k, "done", 0, "none", "none")
<1> DEFINE fresh(m) == [st |-> "queued", n |-> m, pc |-> "none", out |-> "none"]
           over(st) == [st |-> st, n |-> 0, pc |-> "none", out |-> "none"]
<1>1. Fresh = fresh(0) /\ [Fresh EXCEPT !.n = n] = fresh(n)
  <2>1. Fresh = fresh(0)
    BY DEF Fresh, NoJob
  <2> QED
    BY <2>1
<1>2. [NoJob EXCEPT !.st = "dead"] = over("dead") /\ [NoJob EXCEPT !.st = "done"] = over("done")
  BY DEF NoJob
<1>3. fresh(0) \in Job /\ fresh(n) \in Job /\ over("dead") \in Job /\ over("done") \in Job
  BY ScreeningAssumption DEF Job, Outs
<1>4. \A j \in Job : job' = [job EXCEPT ![i][k] = j] => JobIs(i, k, j.st, j.n, j.pc, j.out)
  BY JobSet
<1> QED
  BY <1>1, <1>2, <1>3, <1>4

-----------------------------------------------------------------------------
(* How a step changes the row of an item.                                   *)

SameFile(q, r)  == q.key = r.key /\ q.scan = r.scan
SamePlace(q, r) == /\ q.stage = r.stage /\ q.bulk = r.bulk /\ q.route = r.route
                   /\ q.task = r.task /\ q.pool = r.pool /\ q.eval = r.eval /\ q.cand = r.cand
Same(q, r)      == SameFile(q, r) /\ SamePlace(q, r)

States == {"absent", "queued", "parsing", "parsed", "scoring", "scored", "failed", "cancelled"}
Codes  == {"none", "transient", "recoverable", "permanent"}
Evaluations == {"not_requested", "queued", "running", "skipped", "succeeded", "failed"}

LEMMA MarkedRow ==
  ASSUME NEW r \in ItemRow, NEW st \in States, NEW code \in Codes
  PROVE  LET q == [r EXCEPT !.st = st, !.code = code]
         IN q \in ItemRow /\ q.st = st /\ q.code = code /\ q.llm = r.llm /\ Same(q, r)
<1> DEFINE p == [r EXCEPT !.st = st]
<1>1. p \in ItemRow /\ p.st = st /\ p.llm = r.llm /\ Same(p, r)
  BY DEF ItemRow, States, Same, SameFile, SamePlace
<1> HIDE DEF p
<1> DEFINE q == [p EXCEPT !.code = code]
<1>2. q \in ItemRow /\ q.st = p.st /\ q.code = code /\ q.llm = p.llm /\ Same(q, p)
  BY <1>1 DEF ItemRow, Codes, Same, SameFile, SamePlace
<1>3. q = [r EXCEPT !.st = st, !.code = code]
  BY DEF p
<1> HIDE DEF q
<1> QED
  BY <1>1, <1>2, <1>3 DEF Same, SameFile, SamePlace

Marked(r, st, code) == [r EXCEPT !.st = st, !.code = code]

LEMMA MarkedFields ==
  ASSUME NEW r \in ItemRow, NEW st \in States, NEW code \in Codes
  PROVE  /\ Marked(r, st, code) \in ItemRow /\ Marked(r, st, code).st = st
         /\ Marked(r, st, code).code = code /\ Marked(r, st, code).llm = r.llm /\ Same(Marked(r, st, code), r)
  BY MarkedRow DEF Marked

LEMMA StatedRow ==
  ASSUME NEW r \in ItemRow, NEW st \in States
  PROVE  LET q == [r EXCEPT !.st = st] IN q \in ItemRow /\ q.st = st /\ q.llm = r.llm /\ Same(q, r)
  BY DEF ItemRow, States, Same, SameFile, SamePlace

LEMMA EvaluatedRow ==
  ASSUME NEW r \in ItemRow, NEW llm \in Evaluations
  PROVE  /\ LET q == [r EXCEPT !.llm = llm] IN q \in ItemRow /\ q.st = r.st /\ q.llm = llm /\ Same(q, r)
         /\ \A again \in BOOLEAN :
              LET q == [r EXCEPT !.llm = llm, !.again = again] IN q \in ItemRow /\ q.st = r.st /\ q.llm = llm /\ Same(q, r)
<1> DEFINE p == [r EXCEPT !.llm = llm]
<1>1. p \in ItemRow /\ p.st = r.st /\ p.llm = llm /\ Same(p, r)
  BY DEF ItemRow, Evaluations, LlmTerminal, Same, SameFile, SamePlace
<1> SUFFICES ASSUME NEW again \in BOOLEAN
             PROVE  LET q == [r EXCEPT !.llm = llm, !.again = again] IN q \in ItemRow /\ q.st = r.st /\ q.llm = llm /\ Same(q, r)
  BY <1>1
<1> HIDE DEF p
<1> DEFINE q == [p EXCEPT !.again = again]
<1>2. q \in ItemRow /\ q.st = p.st /\ q.llm = p.llm /\ Same(q, p)
  BY <1>1 DEF ItemRow, Same, SameFile, SamePlace
<1>3. q = [r EXCEPT !.llm = llm, !.again = again]
  BY DEF p
<1> HIDE DEF q
<1> QED
  BY <1>1, <1>2, <1>3 DEF Same, SameFile, SamePlace

(* An answer leaves its evaluation.                                         *)
LEMMA AnsweredRow ==
  ASSUME NEW r \in ItemRow, NEW res \in {"high", "low"}
  PROVE  LET q == [r EXCEPT !.llm = "succeeded", !.again = FALSE, !.eval = res]
         IN /\ q \in ItemRow /\ q.st = r.st /\ q.llm = "succeeded" /\ q.eval = res /\ SameFile(q, r)
            /\ q.stage = r.stage /\ q.bulk = r.bulk /\ q.route = r.route /\ q.task = r.task /\ q.pool = r.pool /\ q.cand = r.cand
<1> DEFINE p == [r EXCEPT !.llm = "succeeded", !.again = FALSE]
<1>1. p \in ItemRow /\ p.st = r.st /\ p.llm = "succeeded" /\ Same(p, r)
  BY EvaluatedRow DEF Evaluations
<1>2. [r EXCEPT !.llm = "succeeded", !.again = FALSE, !.eval = res] = [p EXCEPT !.eval = res]
  OBVIOUS
<1> HIDE DEF p
<1> DEFINE q == [p EXCEPT !.eval = res]
<1>3. /\ q \in ItemRow /\ q.st = p.st /\ q.llm = p.llm /\ q.eval = res /\ SameFile(q, p)
      /\ q.stage = p.stage /\ q.bulk = p.bulk /\ q.route = p.route /\ q.task = p.task /\ q.pool = p.pool /\ q.cand = p.cand
  BY <1>1 DEF ItemRow, SameFile
<1> HIDE DEF q
<1> QED
  BY <1>1, <1>2, <1>3 DEF q, Same, SameFile, SamePlace

LEMMA ParsedRow ==
  ASSUME NEW r \in ItemRow
  PROVE  LET q == [r EXCEPT !.st = "parsed", !.code = "none", !.cand = "live",
                            !.stage = IF @ = "none" THEN "new" ELSE @]
         IN /\ q \in ItemRow /\ q.st = "parsed" /\ q.cand = "live" /\ SameFile(q, r)
            /\ q.stage = (IF r.stage = "none" THEN "new" ELSE r.stage)
            /\ q.bulk = r.bulk /\ q.route = r.route /\ q.task = r.task /\ q.pool = r.pool /\ q.eval = r.eval
<1> DEFINE p == Marked(r, "parsed", "none")
           stage == IF r.stage = "none" THEN "new" ELSE r.stage
<1>0. "parsed" \in States /\ "none" \in Codes
  BY DEF States, Codes
<1>1. p \in ItemRow /\ p.st = "parsed" /\ Same(p, r)
  BY <1>0, MarkedFields
<1> HIDE DEF p
<1> DEFINE l == [p EXCEPT !.cand = "live"]
<1>2. l \in ItemRow /\ l.st = p.st /\ l.cand = "live" /\ SameFile(l, p) /\ l.stage = p.stage
      /\ l.bulk = p.bulk /\ l.route = p.route /\ l.task = p.task /\ l.pool = p.pool /\ l.eval = p.eval
  BY <1>1 DEF ItemRow, SameFile
<1>3. [r EXCEPT !.st = "parsed", !.code = "none", !.cand = "live", !.stage = IF @ = "none" THEN "new" ELSE @]
        = [l EXCEPT !.stage = IF @ = "none" THEN "new" ELSE @]
  BY DEF p, Marked
<1> HIDE DEF l
<1>4. l.stage = r.stage /\ stage \in {"none", "new", "review", "deferred", "moved", "ended"}
  BY <1>1, <1>2 DEF Same, SamePlace, ItemRow
<1> HIDE DEF stage
<1>5. [l EXCEPT !.stage = IF @ = "none" THEN "new" ELSE @] = [l EXCEPT !.stage = stage]
  BY <1>4 DEF stage
<1> DEFINE q == [l EXCEPT !.stage = stage]
<1>6. /\ q \in ItemRow /\ q.st = l.st /\ q.cand = l.cand /\ SameFile(q, l) /\ q.stage = stage
      /\ q.bulk = l.bulk /\ q.route = l.route /\ q.task = l.task /\ q.pool = l.pool /\ q.eval = l.eval
  BY <1>2, <1>4 DEF ItemRow, SameFile
<1> HIDE DEF q
<1> QED
  BY <1>1, <1>2, <1>3, <1>5, <1>6 DEF q, stage, Same, SameFile, SamePlace

LEMMA SwitchedRow ==
  ASSUME NEW r \in ItemRow
  PROVE  LET q == [r EXCEPT !.key = "clean", !.scan = "clean", !.cleanup = TRUE]
         IN q \in ItemRow /\ q.st = r.st /\ q.key = "clean" /\ q.scan = "clean" /\ SamePlace(q, r)
<1> DEFINE p == [r EXCEPT !.key = "clean"]
<1>1. p \in ItemRow /\ p.st = r.st /\ p.key = "clean" /\ SamePlace(p, r)
  BY DEF ItemRow, SamePlace
<1> DEFINE l == [p EXCEPT !.scan = "clean"]
<1> HIDE DEF p
<1>2. l \in ItemRow /\ l.st = p.st /\ l.key = p.key /\ l.scan = "clean" /\ SamePlace(l, p)
  BY <1>1 DEF ItemRow, SamePlace
<1> DEFINE q == [l EXCEPT !.cleanup = TRUE]
<1>3. q = [r EXCEPT !.key = "clean", !.scan = "clean", !.cleanup = TRUE]
  BY DEF p
<1> HIDE DEF l
<1>4. q \in ItemRow /\ q.st = l.st /\ q.key = l.key /\ q.scan = l.scan /\ SamePlace(q, l)
  BY <1>2 DEF ItemRow, SamePlace
<1> HIDE DEF q
<1> QED
  BY <1>1, <1>2, <1>3, <1>4 DEF SamePlace

LEMMA CleanedRow ==
  ASSUME NEW r \in ItemRow
  PROVE  LET q == [r EXCEPT !.cleanup = FALSE] IN q \in ItemRow /\ q.st = r.st /\ q.llm = r.llm /\ Same(q, r)
  BY DEF ItemRow, Same, SameFile, SamePlace

LEMMA ScannedRow ==
  ASSUME NEW r \in ItemRow, NEW scan \in {"pending", "clean", "rejected"}
  PROVE  LET q == [r EXCEPT !.scan = scan] IN q \in ItemRow /\ q.st = r.st /\ q.key = r.key /\ q.scan = scan /\ SamePlace(q, r)
  BY DEF ItemRow, SamePlace

(* Of one row to the next: what a route, a person or a handler may write.   *)
Kept(q, r) ==
  /\ q.stage = "ended" <=> r.stage = "ended"
  /\ r.stage = "ended" => q.route = r.route /\ q.task = r.task /\ q.pool = r.pool

LEMMA RoutedRow ==
  ASSUME NEW r \in ItemRow, RouteOK(r), NEW ai \in {"failed", "high", "low"}, ai # "failed" => r.eval # "none"
  PROVE  LET q == Routed(r, ai)
         IN q \in ItemRow /\ RouteOK(q) /\ Kept(q, r) /\ SameFile(q, r) /\ q.st = r.st /\ q.cand = r.cand /\ q.eval = r.eval
<1> DEFINE q == Routed(r, ai)
<1> SUFFICES q \in ItemRow /\ RouteOK(q) /\ Kept(q, r) /\ SameFile(q, r) /\ q.st = r.st /\ q.cand = r.cand /\ q.eval = r.eval
  OBVIOUS
<1>1. CASE ~RouteActs(r, ai)
  BY <1>1 DEF Routed, Kept, SameFile
<1> DEFINE p == [r EXCEPT !.route = ai]
<1>2. /\ p \in ItemRow /\ p.route = ai /\ p.stage = r.stage /\ p.bulk = r.bulk /\ p.task = r.task /\ p.pool = r.pool
      /\ SameFile(p, r) /\ p.st = r.st /\ p.cand = r.cand /\ p.eval = r.eval
  BY DEF ItemRow, SameFile
<1> HIDE DEF p
<1>3. CASE RouteActs(r, ai) /\ FailOpenRetry(r, ai)
  <2> DEFINE task == ReviewTask(r, ai, FALSE)
  <2>1. task \in {"none", "succeeded"} /\ (r.task = "none" => task = "none")
    BY <1>3 DEF ReviewTask, FailOpenRetry
  <2> HIDE DEF task
  <2> DEFINE m == [p EXCEPT !.task = task]
  <2>2. /\ m \in ItemRow /\ m.route = p.route /\ m.stage = p.stage /\ m.bulk = p.bulk /\ m.task = task /\ m.pool = p.pool
        /\ SameFile(m, p) /\ m.st = p.st /\ m.cand = p.cand /\ m.eval = p.eval
    BY <1>2, <2>1 DEF ItemRow, SameFile
  <2>3. q = m
    BY <1>3 DEF Routed, p, task
  <2> HIDE DEF m, q
  <2>4. r.stage \notin {"new", "ended", "deferred"} /\ ai # "failed"
    BY <1>3 DEF RouteActs, FailOpenRetry, RouteOK
  <2> QED
    BY <1>2, <2>1, <2>2, <2>3, <2>4 DEF RouteOK, Kept, SameFile
<1>4. CASE RouteActs(r, ai) /\ ~FailOpenRetry(r, ai)
  <2>1. r.stage = "new" /\ r.task = "none"
    BY <1>4 DEF RouteActs, RouteOK
  <2> DEFINE m == [p EXCEPT !.bulk = FALSE]
  <2>2. /\ m \in ItemRow /\ m.route = p.route /\ m.stage = p.stage /\ m.bulk = FALSE /\ m.task = p.task /\ m.pool = p.pool
        /\ SameFile(m, p) /\ m.st = p.st /\ m.cand = p.cand /\ m.eval = p.eval
    BY <1>2 DEF ItemRow, SameFile
  <2>3. CASE ai = "low"
    <3> HIDE DEF m
    <3> DEFINE d == [m EXCEPT !.stage = "deferred"]
    <3>1. /\ d \in ItemRow /\ d.route = m.route /\ d.stage = "deferred" /\ d.bulk = m.bulk /\ d.task = m.task
          /\ SameFile(d, m) /\ d.st = m.st /\ d.cand = m.cand /\ d.eval = m.eval
      BY <2>2 DEF ItemRow, SameFile
    <3> HIDE DEF d
    <3> DEFINE e == [d EXCEPT !.pool = TRUE]
    <3>2. /\ e \in ItemRow /\ e.route = d.route /\ e.stage = d.stage /\ e.bulk = d.bulk /\ e.task = d.task /\ e.pool = TRUE
          /\ SameFile(e, d) /\ e.st = d.st /\ e.cand = d.cand /\ e.eval = d.eval
      BY <3>1 DEF ItemRow, SameFile
    <3>3. q = e
      BY <1>4, <2>3 DEF Routed, Deferred, p, m, d
    <3> HIDE DEF e, q
    <3> QED
      BY <1>2, <2>1, <2>2, <2>3, <3>1, <3>2, <3>3 DEF RouteOK, Kept, SameFile
  <2>4. CASE ai # "low"
    <3> DEFINE task == ReviewTask(r, ai, TRUE)
    <3>1. task = (IF ai = "failed" THEN "failed" ELSE "succeeded")
      BY <2>1 DEF ReviewTask
    <3> HIDE DEF task
    <3> HIDE DEF m
    <3> DEFINE d == [m EXCEPT !.stage = "review"]
    <3>2. /\ d \in ItemRow /\ d.route = m.route /\ d.stage = "review" /\ d.bulk = m.bulk /\ d.pool = m.pool
          /\ SameFile(d, m) /\ d.st = m.st /\ d.cand = m.cand /\ d.eval = m.eval
      BY <2>2 DEF ItemRow, SameFile
    <3> HIDE DEF d
    <3> DEFINE e == [d EXCEPT !.task = task]
    <3>3. /\ e \in ItemRow /\ e.route = d.route /\ e.stage = d.stage /\ e.bulk = d.bulk /\ e.pool = d.pool /\ e.task = task
          /\ SameFile(e, d) /\ e.st = d.st /\ e.cand = d.cand /\ e.eval = d.eval
      BY <3>1, <3>2 DEF ItemRow, SameFile
    <3>4. q = e
      BY <1>4, <2>4 DEF Routed, p, m, d, task
    <3> HIDE DEF e, q
    <3> QED
      BY <1>2, <2>1, <2>2, <2>4, <3>1, <3>2, <3>3, <3>4 DEF RouteOK, Kept, SameFile
  <2> QED
    BY <2>3, <2>4
<1> QED
  BY <1>1, <1>3, <1>4

(* What a reviewer, a recruiter or a deletion writes.                       *)
OnlyEnds(q, r, stage, cand) ==
  /\ q \in ItemRow /\ SameFile(q, r) /\ q.st = r.st /\ q.bulk = r.bulk /\ q.route = r.route
  /\ q.pool = r.pool /\ q.eval = r.eval /\ q.task = "none" /\ q.stage = stage /\ q.cand = cand

Gone(r)  == [r EXCEPT !.stage = "ended", !.task = "none"]
Taken(r) == [Gone(r) EXCEPT !.stage = "moved"]
Barred(r) == [Gone(r) EXCEPT !.cand = "blocked"]

LEMMA EndedRow ==
  ASSUME NEW r \in ItemRow
  PROVE  /\ OnlyEnds(Gone(r), r, "ended", r.cand)
         /\ OnlyEnds(Taken(r), r, "moved", r.cand)
         /\ OnlyEnds(Barred(r), r, "ended", "blocked")
<1> DEFINE p == [r EXCEPT !.stage = "ended"]
           ended == Gone(r)
<1>1. /\ p \in ItemRow /\ SameFile(p, r) /\ p.st = r.st /\ p.bulk = r.bulk /\ p.route = r.route
      /\ p.pool = r.pool /\ p.eval = r.eval /\ p.stage = "ended" /\ p.cand = r.cand
  BY DEF ItemRow, SameFile
<1>2. ended = [p EXCEPT !.task = "none"]
  BY DEF Gone
<1> HIDE DEF p, ended
<1>3. OnlyEnds(ended, r, "ended", r.cand)
  BY <1>1, <1>2 DEF ItemRow, SameFile, OnlyEnds
<1>4. OnlyEnds([ended EXCEPT !.stage = "moved"], r, "moved", r.cand)
  BY <1>3 DEF ItemRow, SameFile, OnlyEnds
<1>5. OnlyEnds([ended EXCEPT !.cand = "blocked"], r, "ended", "blocked")
  BY <1>3 DEF ItemRow, SameFile, OnlyEnds
<1> QED
  BY <1>3, <1>4, <1>5 DEF ended, Taken, Barred

Placed(r, stage, bulk) == [r EXCEPT !.stage = stage, !.bulk = bulk]

LEMMA PlacedFields ==
  ASSUME NEW r \in ItemRow, NEW stage \in {"review", "new"}, NEW bulk \in BOOLEAN
  PROVE  LET q == Placed(r, stage, bulk)
         IN /\ q \in ItemRow /\ SameFile(q, r) /\ q.st = r.st /\ q.route = r.route /\ q.task = r.task
            /\ q.pool = r.pool /\ q.eval = r.eval /\ q.cand = r.cand /\ q.stage = stage /\ q.bulk = bulk
<1> DEFINE p == [r EXCEPT !.stage = stage]
           q == Placed(r, stage, bulk)
<1>1. /\ p \in ItemRow /\ SameFile(p, r) /\ p.st = r.st /\ p.route = r.route /\ p.task = r.task
      /\ p.pool = r.pool /\ p.eval = r.eval /\ p.cand = r.cand /\ p.stage = stage
  BY DEF ItemRow, SameFile
<1>2. q = [p EXCEPT !.bulk = bulk]
  BY DEF Placed
<1> HIDE DEF p, q
<1>3. /\ q \in ItemRow /\ SameFile(q, r) /\ q.st = r.st /\ q.route = r.route /\ q.task = r.task
      /\ q.pool = r.pool /\ q.eval = r.eval /\ q.cand = r.cand /\ q.stage = stage /\ q.bulk = bulk
  BY <1>1, <1>2 DEF ItemRow, SameFile
<1> QED
  BY <1>3 DEF q

LEMMA RejectedRow ==
  ASSUME NEW r \in ItemRow
  PROVE  LET q == [r EXCEPT !.stage = "ended"]
         IN /\ q \in ItemRow /\ SameFile(q, r) /\ q.st = r.st /\ q.route = r.route /\ q.task = r.task
            /\ q.pool = r.pool /\ q.eval = r.eval /\ q.cand = r.cand /\ q.stage = "ended" /\ q.bulk = r.bulk
  BY DEF ItemRow, SameFile

-----------------------------------------------------------------------------
(* A step about one item of a run that has started.                         *)

JobFine(k, j) ==
  /\ j.st = "running" <=> j.pc # "none"
  /\ j.st = "queued" => j.n < MaxTry
  /\ j.pc = "settle" => j.out # "none"
  /\ j.out \notin IF k = "llm" THEN {"recoverable", "permanent"} ELSE {"technical"}

FileAt(pc, r, os) ==
  /\ pc = "copied" => "clean" \in os
  /\ pc = "switched" => r.key = "clean"
  /\ pc = "infected" => r.scan = "rejected"

FinalAt(i) ==
  /\ items[i].stage = "ended" =>
       /\ items'[i].stage = "ended" /\ items'[i].route = items[i].route
       /\ items'[i].task \in {items[i].task, "none"} /\ items'[i].pool = items[i].pool
  /\ items[i].cand = "blocked" => items'[i].eval = items[i].eval \/ held[i].open

Elsewhere(i) ==
  \A j \in Item \ {i} : items'[j] = items[j] /\ objs'[j] = objs[j] /\ job'[j] = job[j] /\ held'[j] = held[j]

Good(i) ==
  /\ ScreeningTypeOK' /\ run.st # "queued" /\ run'.st # "queued" /\ Elsewhere(i)
  /\ ItemOK(i)' /\ (held'[i].open => held'[i].new.st # "queued") /\ FinalAt(i)
  /\ \A j \in Item : items[j].st # "absent" \/ (late'[j] = late[j] /\ fin'[j] = fin[j])

LEMMA JobParts ==
  ASSUME NEW i \in Item
  PROVE  ItemJobOK(i) <=>
           /\ \A k \in Kinds : JobFine(k, job[i][k])
           /\ held[i].open =>
                /\ held[i].out \notin IF held[i].kind \in {"llm", "late"} THEN {"none", "recoverable", "permanent", "infected"}
                                      ELSE {"none", "technical"}
                /\ held[i].kind # "late" => job[i][held[i].kind].st = "running" /\ job[i][held[i].kind].pc = "commit"
  BY DEF ItemJobOK, JobFine

LEMMA GoodStep ==
  ASSUME ScreeningInv, NEW i \in Item, Good(i)
  PROVE  ScreeningInv' /\ \A j \in Item : FinalAt(j)
<1>1. ScreeningTypeOK /\ ScreeningTypeOK' /\ run.st # "queued" /\ run'.st # "queued"
  BY DEF Good, ScreeningInv
<1>2. ASSUME NEW j \in Item, j # i
      PROVE  ItemOK(j)' /\ FinalAt(j) /\ (held'[j].open => held'[j].new.st # "queued")
  <2>1. ItemOK(j) /\ (held[j].open => held[j].new.st # "queued")
    BY DEF ScreeningInv, RunOK
  <2>2. items'[j] = items[j] /\ objs'[j] = objs[j] /\ job'[j] = job[j] /\ held'[j] = held[j]
    BY <1>2 DEF Good, Elsewhere
  <2>3. items[j].st # "absent" \/ (late'[j] = late[j] /\ fin'[j] = fin[j])
    BY DEF Good
  <2>4. ItemJobOK(j)'
    BY <2>1, <2>2 DEF ItemOK, ItemJobOK
  <2>5. FileOK(j)'
    BY <2>1, <2>2, <2>3 DEF ItemOK, FileOK, Named
  <2>6. DrivenOK(j)'
    BY <1>1, <2>1, <2>2 DEF ItemOK, DrivenOK, Waiting, ToParse, Working
  <2>7. RouteHolds(j)'
    BY <2>1, <2>2 DEF ItemOK, RouteHolds, RouteOK
  <2> QED
    BY <2>1, <2>2, <2>4, <2>5, <2>6, <2>7 DEF ItemOK, FinalAt
<1>3. \A j \in Item : ItemOK(j)' /\ FinalAt(j) /\ (held'[j].open => held'[j].new.st # "queued")
  BY <1>2 DEF Good
<1> QED
  BY <1>1, <1>3 DEF ScreeningInv, RunOK

(* Whatever acts on an item acts in a started run, on an accepted item.     *)
LEMMA Started ==
  ASSUME ScreeningInv, NEW i \in Item,
         \/ held[i].open
         \/ late[i] # 0
         \/ \E k \in Kinds : job[i][k].st # "none"
         \/ \E g \in Gens : fin[i][g] # "none"
         \/ items[i].st \notin {"absent", "queued"}
  PROVE  run.st # "queued" /\ items[i].st # "absent"
<1>1. RunOK /\ FileOK(i)
  BY DEF ScreeningInv, ItemOK
<1>2. NoJob.st = "none"
  BY DEF NoJob
<1>3. run.st # "queued"
  BY <1>1, <1>2 DEF RunOK
<1>4. items[i].st = "absent" => /\ ~held[i].open /\ late[i] = 0
                                /\ \A k \in Kinds : job[i][k].st = "none"
                                /\ \A g \in Gens : fin[i][g] = "none"
  BY <1>1, <1>2 DEF FileOK
<1> QED
  BY <1>3, <1>4

LEMMA ItemFacts ==
  ASSUME ScreeningInv, NEW i \in Item
  PROVE  /\ ScreeningTypeOK /\ ItemOK(i) /\ items[i] \in ItemRow /\ run \in Run
         /\ job \in [Item -> Slots] /\ \A k \in Kinds : job[i][k] \in Job /\ JobFine(k, job[i][k])
         /\ held[i].open => /\ held[i] \in Tx /\ held[i].old \in ItemRow /\ held[i].new \in Run /\ held[i].base \in Run
                            /\ held[i].kind \in Kinds \cup {"late"} /\ held[i].out \in Outs \cup {"infected"}
                            /\ held[i].new.st # "queued"
         /\ ~held[i].open => held[i] = NotHeld
         /\ FileOK(i) /\ FileAt(job[i]["parse"].pc, items[i], objs[i]) /\ Named(items[i], objs[i])
         /\ RouteOK(items[i]) /\ (Waiting(items[i]) => ToParse(i))
<1>1. ScreeningTypeOK /\ ItemOK(i) /\ RunOK
  BY DEF ScreeningInv
<1>2. items[i] \in ItemRow /\ run \in Run /\ job \in [Item -> Slots] /\ held[i] \in Tx \cup {NotHeld}
  BY <1>1, ScreenTypes
<1>3. \A k \in Kinds : job[i][k] \in Job /\ JobFine(k, job[i][k])
  BY <1>1, <1>2, JobParts DEF ItemOK, Slots
<1>4. held[i].open => held[i] \in Tx
  BY <1>2 DEF NotHeld
<1>5. held[i] \in Tx => /\ held[i].open /\ held[i].old \in ItemRow /\ held[i].new \in Run /\ held[i].base \in Run
                        /\ held[i].kind \in Kinds \cup {"late"} /\ held[i].out \in Outs \cup {"infected"}
  BY DEF Tx
<1>6. held[i].open => held[i].new.st # "queued"
  BY <1>1 DEF RunOK
<1>7. FileAt(job[i]["parse"].pc, items[i], objs[i]) /\ Named(items[i], objs[i])
  BY <1>1 DEF ItemOK, FileOK, FileAt
<1>8. RouteOK(items[i]) /\ (Waiting(items[i]) => ToParse(i))
  BY <1>1 DEF ItemOK, RouteHolds, DrivenOK
<1> QED
  BY <1>1, <1>2, <1>3, <1>4, <1>5, <1>6, <1>7, <1>8 DEF ItemOK

LEMMA JobsFine ==
  ASSUME ScreeningInv, NEW i \in Item, NEW k \in Kinds, NEW st, NEW n, NEW pc, NEW out, JobIs(i, k, st, n, pc, out),
         st = "running" <=> pc # "none", st = "queued" => n < MaxTry, pc = "settle" => out # "none",
         out \notin IF k = "llm" THEN {"recoverable", "permanent"} ELSE {"technical"}
  PROVE  \A l \in Kinds : JobFine(l, job'[i][l])
<1>1. JobFine(k, job'[i][k])
  BY DEF JobIs, JobFine
<1>2. ASSUME NEW l \in Kinds, l # k PROVE JobFine(l, job'[i][l])
  <2>1. job'[i][l] = job[i][l]
    BY <1>2 DEF JobIs
  <2>2. JobFine(l, job[i][l])
    BY ItemFacts
  <2> QED
    BY <2>1, <2>2
<1> QED
  BY <1>1, <1>2

(* A transaction that has come and gone.                                    *)
LEMMA FreeGood ==
  ASSUME ScreeningInv, NEW i \in Item, ScreeningTypeOK', run.st # "queued", run'.st # "queued", Elsewhere(i), ~held'[i].open,
         items[i].st # "absent", items'[i].st # "absent", \A j \in Item : j = i \/ (late'[j] = late[j] /\ fin'[j] = fin[j]),
         \A k \in Kinds : JobFine(k, job'[i][k]),
         Named(items'[i], objs'[i]), FileAt(job'[i]["parse"].pc, items'[i], objs'[i]),
         items'[i].cand # "blocked" /\ items'[i].st \in {"parsing", "queued"} => ToParse(i)',
         RouteOK(items'[i]), FinalAt(i)
  PROVE  Good(i)
<1>1. ItemJobOK(i)'
  BY DEF ItemJobOK, JobFine
<1>2. FileOK(i)'
  BY DEF FileOK, FileAt, Named
<1>3. DrivenOK(i)'
  BY DEF DrivenOK, Waiting
<1>4. RouteHolds(i)'
  BY DEF RouteHolds, RouteOK
<1> QED
  BY <1>1, <1>2, <1>3, <1>4 DEF Good, ItemOK

RestTyped ==
  /\ fin' \in [Item -> [Gens -> {"none", "route", "transient", "technical", "done", "lost"}]]
  /\ late' \in [Item -> 0..MaxTry] /\ tally' \in [gen : [Item -> Gens], lost : 0..MaxLost]

LEMMA TypesNext ==
  ASSUME run' \in Run, items' \in [Item -> ItemRow], objs' \in [Item -> SUBSET {"quarantine", "clean"}],
         job' \in [Item -> Slots], held' \in [Item -> Tx \cup {NotHeld}], RestTyped
  PROVE  ScreeningTypeOK'
  BY DEF ScreeningTypeOK, Slots, RestTyped

LEMMA RestKept ==
  ASSUME ScreeningTypeOK
  PROVE  /\ UNCHANGED <<fin, late, tally>> => RestTyped
         /\ fin \in [Item -> [Gens -> {"none", "route", "transient", "technical", "done", "lost"}]]
         /\ late \in [Item -> 0..MaxTry] /\ tally \in [gen : [Item -> Gens], lost : 0..MaxLost]
         /\ items \in [Item -> ItemRow] /\ objs \in [Item -> SUBSET {"quarantine", "clean"}]
         /\ held \in [Item -> Tx \cup {NotHeld}] /\ run \in Run /\ job \in [Item -> Slots]
  BY ScreenTypes DEF RestTyped

(* A transaction that has written the row of its item and counted the run's *)
(* items, and is about to commit.                                           *)
LEMMA UnlockedGood ==
  ASSUME ScreeningInv, NEW i \in Item, NEW k \in Kinds \cup {"late"},
         NEW r \in ItemRow, NEW out \in Outs \cup {"infected"}, Unlocked(i, k, r, out),
         Free(i), items[i].st # "absent", run.st # "queued", objs' = objs, fin' = fin, RestTyped,
         \A j \in Item : j = i \/ late'[j] = late[j],
         k # "late" => job[i][k].st = "running",
         out \notin IF k \in {"llm", "late"} THEN {"none", "recoverable", "permanent", "infected"} ELSE {"none", "technical"},
         r.st # "absent", r.key = items[i].key, r.scan = items[i].scan \/ (k = "parse" /\ r.scan = "rejected"),
         out = "infected" => k = "parse" /\ r.scan = "rejected",
         IF k = "parse" THEN r.st \in {"failed", "cancelled"}
                        ELSE r.st \notin {"parsing", "queued"} \/ (r.st = items[i].st /\ r.cand = items[i].cand),
         RouteOK(r), Kept(r, items[i]), items[i].cand = "blocked" => r.eval = items[i].eval
  PROVE  Good(i)
<1> DEFINE new == Counted(i, r)
           owner == r.route # items[i].route
           open == [open |-> TRUE, old |-> items[i], base |-> run, new |-> new, owner |-> owner, kind |-> k, out |-> out]
<1>1. /\ ScreeningTypeOK /\ ItemOK(i) /\ items[i] \in ItemRow /\ run \in Run /\ job \in [Item -> Slots]
      /\ \A l \in Kinds : job[i][l] \in Job /\ JobFine(l, job[i][l])
      /\ FileOK(i) /\ FileAt(job[i]["parse"].pc, items[i], objs[i]) /\ Named(items[i], objs[i])
      /\ RouteOK(items[i]) /\ (Waiting(items[i]) => ToParse(i))
  BY ItemFacts
<1>2. items' = [items EXCEPT ![i] = r] /\ held' = [held EXCEPT ![i] = open] /\ run' = run
  BY DEF Unlocked
<1>3. new \in Run /\ new.st # "queued"
  BY <1>1, CountedRun
<1> HIDE DEF new
<1>4. owner \in BOOLEAN
  OBVIOUS
<1> HIDE DEF owner
<1>5. open \in Tx /\ open.open /\ open.old = items[i] /\ open.new = new /\ open.kind = k /\ open.out = out
  BY <1>1, <1>3, <1>4 DEF Tx
<1> HIDE DEF open
<1>6. /\ items' \in [Item -> ItemRow] /\ items'[i] = r /\ \A j \in Item \ {i} : items'[j] = items[j]
      /\ held' \in [Item -> Tx \cup {NotHeld}] /\ held'[i] = open /\ \A j \in Item \ {i} : held'[j] = held[j]
      /\ objs' \in [Item -> SUBSET {"quarantine", "clean"}]
  BY <1>1, <1>2, <1>5, RestKept
<1>7. /\ job' \in [Item -> Slots] /\ \A j \in Item \ {i} : job'[j] = job[j]
      /\ \A l \in Kinds \ {k} : job'[i][l] = job[i][l]
      /\ k # "late" => /\ job'[i][k].st = "running" /\ job'[i][k].pc = "commit"
                       /\ job'[i][k].n = job[i][k].n /\ job'[i][k].out = job[i][k].out
  <2>1. CASE k = "late"
    BY <1>1, <2>1 DEF Unlocked
  <2>2. CASE k # "late"
    <3>1. k \in Kinds /\ "commit" \in Points /\ Go(i, k, "commit")
      BY <2>2 DEF Unlocked, Points
    <3>2. JobIs(i, k, job[i][k].st, job[i][k].n, "commit", job[i][k].out)
      BY <1>1, <3>1, GoIs
    <3> QED
      BY <2>2, <3>2 DEF JobIs
  <2> QED
    BY <2>1, <2>2
<1>8. ScreeningTypeOK'
  BY <1>1, <1>2, <1>6, <1>7, TypesNext
<1>9. Elsewhere(i)
  BY <1>6, <1>7 DEF Elsewhere
<1>10. ASSUME NEW l \in Kinds PROVE JobFine(l, job'[i][l])
  <2>1. JobFine(l, job[i][l])
    BY <1>1
  <2>2. CASE l # k
    BY <1>7, <2>1, <2>2
  <2>3. CASE l = k
    <3>1. k # "late"
      BY <2>3 DEF Kinds
    <3> QED
      BY <1>7, <2>1, <2>3, <3>1 DEF JobFine
  <2> QED
    BY <2>2, <2>3
<1>11. ItemJobOK(i)'
  BY <1>5, <1>6, <1>7, <1>10 DEF ItemJobOK, JobFine
<1>12. "parse" \in Kinds /\ (k = "parse" => job'[i]["parse"].pc = "commit") /\ (k # "parse" => job'[i]["parse"] = job[i]["parse"])
  BY <1>7 DEF Kinds
<1>13. FileOK(i)'
  BY <1>1, <1>5, <1>6, <1>12 DEF FileOK, FileAt, Named
<1>14. (ToParse(i) /\ k # "parse" => ToParse(i)') /\ (k = "parse" => ToParse(i)')
  BY <1>7, <1>12 DEF ToParse, Working
<1>15. DrivenOK(i)'
  <2>1. Waiting(items[i]) => ToParse(i)'
    BY <1>1, <1>14
  <2>2. items'[i].cand # "blocked" /\ items'[i].st \in {"parsing", "queued"} => ToParse(i)'
    BY <2>1, <1>6 DEF Waiting
  <2> QED
    BY <1>2, <1>5, <1>6, <2>1, <2>2 DEF DrivenOK, Waiting
<1>16. RouteHolds(i)'
  BY <1>1, <1>5, <1>6 DEF RouteHolds, RouteOK, Kept
<1>17. FinalAt(i)
  BY <1>6 DEF FinalAt, Kept
<1> QED
  BY <1>2, <1>3, <1>5, <1>6, <1>8, <1>9, <1>11, <1>13, <1>15, <1>16, <1>17 DEF Good, ItemOK

(* The columns that changed, and the counters the transaction has counted   *)
(* itself; or nothing, when they do not add up.                             *)
LEMMA CommitGood ==
  ASSUME ScreeningInv, NEW i \in Item, Commit(i)
  PROVE  Good(i)
<1> DEFINE h == held[i]
           merged == [f \in DOMAIN run |-> IF h.new[f] # h.base[f] THEN h.new[f] ELSE run[f]]
           legal == merged.done = merged.ok + merged.bad /\ merged.done <= merged.total
           out == IF legal THEN h.out ELSE "retry"
<1>1. /\ ScreeningTypeOK /\ ItemOK(i) /\ items[i] \in ItemRow /\ run \in Run /\ job \in [Item -> Slots]
      /\ \A l \in Kinds : job[i][l] \in Job /\ JobFine(l, job[i][l])
      /\ FileOK(i) /\ FileAt(job[i]["parse"].pc, items[i], objs[i]) /\ Named(items[i], objs[i])
      /\ RouteOK(items[i]) /\ (Waiting(items[i]) => ToParse(i))
  BY ItemFacts
<1>2. /\ h.open /\ h \in Tx /\ h.old \in ItemRow /\ h.new \in Run /\ h.base \in Run
      /\ h.kind \in Kinds \cup {"late"} /\ h.out \in Outs \cup {"infected"} /\ h.new.st # "queued"
  BY ItemFacts DEF Commit
<1>3. /\ run' = IF legal THEN merged ELSE run
      /\ items' = IF legal THEN items ELSE [items EXCEPT ![i] = h.old]
      /\ job' = IF h.kind = "late" THEN job ELSE Settled(job, i, h.kind, out)
      /\ held' = [held EXCEPT ![i] = NotHeld]
      /\ UNCHANGED <<objs, fin, late, tally>>
  BY DEF Commit
<1>4. merged \in Run /\ (run.st # "queued" => merged.st # "queued")
  BY <1>1, <1>2 DEF Run
<1>5. run.st # "queued" /\ items[i].st # "absent"
  BY <1>2, Started
<1> HIDE DEF merged
<1>6. legal \in BOOLEAN
  OBVIOUS
<1> HIDE DEF legal
<1>7. run' \in Run /\ run'.st # "queued"
  BY <1>1, <1>3, <1>4, <1>5
<1>8. /\ items' \in [Item -> ItemRow] /\ items'[i] = (IF legal THEN items[i] ELSE h.old) /\ \A j \in Item \ {i} : items'[j] = items[j]
      /\ held' \in [Item -> Tx \cup {NotHeld}] /\ held'[i] = NotHeld /\ \A j \in Item \ {i} : held'[j] = held[j]
      /\ objs' \in [Item -> SUBSET {"quarantine", "clean"}] /\ RestTyped
  BY <1>1, <1>2, <1>3, RestKept
<1>9. /\ out \in Outs \cup {"infected"}
      /\ out \notin IF h.kind \in {"llm", "late"} THEN {"none", "recoverable", "permanent", "infected"} ELSE {"none", "technical"}
      /\ h.kind # "late" => job[i][h.kind].st = "running" /\ job[i][h.kind].pc = "commit"
  BY <1>1, <1>2 DEF ItemOK, ItemJobOK, Outs
<1>10. /\ job' \in [Item -> Slots] /\ \A j \in Item \ {i} : job'[j] = job[j]
       /\ \A l \in Kinds \ {h.kind} : job'[i][l] = job[i][l]
       /\ h.kind # "late" => /\ job'[i][h.kind].st = "running" /\ job'[i][h.kind].pc = EndedAt(out)
                             /\ job'[i][h.kind].n = job[i][h.kind].n /\ job'[i][h.kind].out = EndedAs(out)
  <2>1. CASE h.kind = "late"
    BY <1>1, <1>3, <2>1
  <2>2. CASE h.kind # "late"
    <3>1. h.kind \in Kinds /\ job' = Settled(job, i, h.kind, out)
      BY <1>2, <1>3, <2>2
    <3>2. JobIs(i, h.kind, job[i][h.kind].st, job[i][h.kind].n, EndedAt(out), EndedAs(out))
      BY <1>1, <1>9, <3>1, SettledIs
    <3> QED
      BY <1>9, <2>2, <3>2 DEF JobIs
  <2> QED
    BY <2>1, <2>2
<1>11. ScreeningTypeOK'
  BY <1>7, <1>8, <1>10, TypesNext
<1>12. Elsewhere(i)
  BY <1>3, <1>8, <1>10 DEF Elsewhere
<1>13. ASSUME NEW l \in Kinds PROVE JobFine(l, job'[i][l])
  <2>1. JobFine(l, job[i][l])
    BY <1>1
  <2>2. CASE l # h.kind
    BY <1>10, <2>1, <2>2
  <2>3. CASE l = h.kind
    <3>1. h.kind # "late"
      BY <2>3 DEF Kinds
    <3>2. EndedAt(out) \in {"settle", "infected"} /\ EndedAs(out) # "none"
      BY <1>9 DEF EndedAt, EndedAs
    <3>3. EndedAs(out) \notin IF l = "llm" THEN {"recoverable", "permanent"} ELSE {"technical"}
      BY <1>9, <2>3, <3>1 DEF EndedAs, Kinds
    <3> QED
      BY <1>10, <2>3, <3>1, <3>2, <3>3 DEF JobFine
  <2> QED
    BY <2>2, <2>3
<1>14. "parse" \in Kinds /\ (h.kind # "parse" => job'[i]["parse"] = job[i]["parse"])
  BY <1>10 DEF Kinds
<1>15. items'[i].st # "absent" /\ items'[i].key = items[i].key /\ Named(items'[i], objs'[i])
  BY <1>1, <1>2, <1>3, <1>5, <1>8 DEF FileOK
<1>16. FileAt(job'[i]["parse"].pc, items'[i], objs'[i])
  <2>1. CASE h.kind = "parse"
    <3>1. out = "infected" => legal /\ items[i].scan = "rejected"
      BY <1>1, <1>2 DEF FileOK
    <3> QED
      BY <1>8, <1>10, <2>1, <3>1 DEF FileAt, EndedAt
  <2>2. CASE h.kind # "parse"
    <3>1. items'[i].scan = items[i].scan
      BY <1>1, <1>2, <1>8, <2>2 DEF FileOK
    <3> QED
      BY <1>1, <1>3, <1>14, <1>15, <2>2, <3>1 DEF FileAt
  <2> QED
    BY <2>1, <2>2
<1>17. items'[i].cand # "blocked" /\ items'[i].st \in {"parsing", "queued"} => ToParse(i)'
  <2> SUFFICES ASSUME items'[i].cand # "blocked", items'[i].st \in {"parsing", "queued"} PROVE ToParse(i)'
    OBVIOUS
  <2>1. ToParse(i)
    BY <1>1, <1>2, <1>5, <1>8 DEF ItemOK, DrivenOK, Waiting
  <2>2. CASE h.kind # "parse"
    BY <1>14, <2>1, <2>2 DEF ToParse, Working
  <2>3. CASE h.kind = "parse"
    <3>1. ~legal
      BY <1>1, <1>2, <1>8, <2>3 DEF ItemOK, DrivenOK
    <3> QED
      BY <1>10, <2>3, <3>1 DEF ToParse, Working, EndedAt, EndedAs
  <2> QED
    BY <2>2, <2>3
<1>18. RouteOK(items'[i])
  BY <1>1, <1>2, <1>8 DEF ItemOK, RouteHolds
<1>19. FinalAt(i)
  BY <1>1, <1>2, <1>8 DEF ItemOK, RouteHolds, FinalAt
<1> QED
  BY <1>3, <1>5, <1>7, <1>8, <1>11, <1>12, <1>13, <1>15, <1>16, <1>17, <1>18, <1>19, FreeGood DEF NotHeld

-----------------------------------------------------------------------------
(* A step of a job that leaves no transaction open.                         *)

RowIs(i, r) ==
  items' \in [Item -> ItemRow] /\ items'[i] = r /\ \A j \in Item \ {i} : items'[j] = items[j]

LEMMA RowPut ==
  ASSUME ScreeningTypeOK, NEW i \in Item, NEW r \in ItemRow
  PROVE  /\ items' = [items EXCEPT ![i] = r] => RowIs(i, r)
         /\ items' = items => RowIs(i, items[i])
  BY ScreenTypes DEF RowIs

LEMMA LockedIs ==
  ASSUME ScreeningTypeOK, NEW i \in Item, NEW r \in ItemRow, Locked(i, r)
  PROVE  RowIs(i, r) /\ run' \in Run /\ run'.st # "queued" /\ held' = held
  BY RowPut, CountedRun DEF Locked

ObjsIs(i) == objs' \in [Item -> SUBSET {"quarantine", "clean"}] /\ \A j \in Item \ {i} : objs'[j] = objs[j]

LEMMA MoveGood ==
  ASSUME ScreeningInv, NEW i \in Item, NEW k \in Kinds, NEW r \in ItemRow,
         NEW st, NEW n, NEW pc, NEW out, JobIs(i, k, st, n, pc, out), RowIs(i, r), ObjsIs(i),
         run' \in Run, run.st # "queued", run'.st # "queued", Free(i), held' = held,
         RestTyped, \A j \in Item : j = i \/ (late'[j] = late[j] /\ fin'[j] = fin[j]),
         items[i].st # "absent", r.st # "absent",
         st = "running" <=> pc # "none", st = "queued" => n < MaxTry, pc = "settle" => out # "none",
         out \notin IF k = "llm" THEN {"recoverable", "permanent"} ELSE {"technical"},
         Named(r, objs'[i]), FileAt(IF k = "parse" THEN pc ELSE job[i]["parse"].pc, r, objs'[i]),
         r.cand # "blocked" /\ r.st \in {"parsing", "queued"} =>
           IF k = "parse" THEN st \in {"queued", "running"} /\ pc # "infected" /\ (pc = "settle" => out # "done")
                          ELSE Waiting(items[i]),
         RouteOK(r), FinalAt(i)
  PROVE  Good(i)
<1>1. ScreeningTypeOK /\ ScreeningInv /\ (Waiting(items[i]) => ToParse(i))
  BY ItemFacts
<1>2. ScreeningTypeOK'
  BY <1>1, RestKept, TypesNext DEF JobIs, RowIs, ObjsIs
<1>3. Elsewhere(i)
  BY DEF Elsewhere, JobIs, RowIs, ObjsIs
<1>4. \A l \in Kinds : JobFine(l, job'[i][l])
  BY JobsFine
<1>5. "parse" \in Kinds /\ (k # "parse" => job'[i]["parse"] = job[i]["parse"])
  BY DEF JobIs, Kinds
<1>6. FileAt(job'[i]["parse"].pc, r, objs'[i])
  BY <1>5 DEF JobIs
<1>7. r.cand # "blocked" /\ r.st \in {"parsing", "queued"} => ToParse(i)'
  BY <1>1, <1>5 DEF JobIs, ToParse, Working
<1> QED
  BY <1>2, <1>3, <1>4, <1>6, <1>7, FreeGood DEF RowIs, Free

(* The same when the item and its file do not change.                       *)
LEMMA QuietGood ==
  ASSUME ScreeningInv, NEW i \in Item, NEW k \in Kinds,
         NEW st, NEW n, NEW pc, NEW out, JobIs(i, k, st, n, pc, out), UNCHANGED <<run, items, objs, held, fin>>,
         Free(i), RestTyped, \A j \in Item : j = i \/ late'[j] = late[j],
         job[i][k].st # "none",
         st = "running" <=> pc # "none", st = "queued" => n < MaxTry, pc = "settle" => out # "none",
         out \notin IF k = "llm" THEN {"recoverable", "permanent"} ELSE {"technical"},
         k = "parse" => /\ FileAt(pc, items[i], objs[i])
                        /\ Waiting(items[i]) =>
                             st \in {"queued", "running"} /\ pc # "infected" /\ (pc = "settle" => out # "done")
  PROVE  Good(i)
<1>1. /\ ScreeningTypeOK /\ items[i] \in ItemRow /\ Named(items[i], objs[i]) /\ FileAt(job[i]["parse"].pc, items[i], objs[i])
      /\ RouteOK(items[i])
  BY ItemFacts
<1>2. run.st # "queued" /\ items[i].st # "absent"
  BY Started
<1>3. RowIs(i, items[i]) /\ ObjsIs(i) /\ run' \in Run /\ held' = held /\ objs'[i] = objs[i]
  BY <1>1, RowPut, RestKept DEF ObjsIs
<1>4. FinalAt(i)
  BY DEF FinalAt
<1>5. items[i].cand # "blocked" /\ items[i].st \in {"parsing", "queued"} => Waiting(items[i])
  BY <1>2 DEF Waiting
<1>6. FileAt(IF k = "parse" THEN pc ELSE job[i]["parse"].pc, items[i], objs'[i])
  BY <1>1, <1>3
<1>7. items[i].cand # "blocked" /\ items[i].st \in {"parsing", "queued"} =>
           IF k = "parse" THEN st \in {"queued", "running"} /\ pc # "infected" /\ (pc = "settle" => out # "done")
                          ELSE Waiting(items[i])
  BY <1>5
<1> QED
  BY <1>1, <1>2, <1>3, <1>4, <1>6, <1>7, MoveGood

LEMMA EndGood ==
  ASSUME ScreeningInv, NEW i \in Item, NEW k \in Kinds, NEW out \in Outs,
         job[i][k].st = "running", Ends(i, k, out),
         UNCHANGED <<run, items, objs, held, fin>>, Free(i), RestTyped, \A j \in Item : j = i \/ late'[j] = late[j],
         out # "none", out \notin IF k = "llm" THEN {"recoverable", "permanent"} ELSE {"technical"},
         k = "parse" /\ out = "done" => ~Waiting(items[i])
  PROVE  Good(i)
<1>1. job \in [Item -> Slots]
  BY ItemFacts
<1>2. JobIs(i, k, "running", job[i][k].n, "settle", out)
  BY <1>1, EndsIs
<1>3. FileAt("settle", items[i], objs[i])
  BY DEF FileAt
<1> QED
  BY <1>2, <1>3, QuietGood

(* A job that goes on to its next transaction.                              *)
LEMMA GoGood ==
  ASSUME ScreeningInv, NEW i \in Item, NEW k \in Kinds, NEW pc \in Points \ {"none", "settle", "infected"},
         job[i][k].st = "running", Go(i, k, pc), k = "parse" => FileAt(pc, items[i], objs[i]),
         UNCHANGED <<run, items, objs, held, fin, late, tally>>, Free(i)
  PROVE  Good(i)
<1>1. job \in [Item -> Slots] /\ JobFine(k, job[i][k]) /\ ScreeningTypeOK
  BY ItemFacts
<1>2. JobIs(i, k, "running", job[i][k].n, pc, job[i][k].out) /\ pc # "none" /\ pc # "settle" /\ pc # "infected"
  BY <1>1, GoIs
<1>3. RestTyped
  BY <1>1, RestKept
<1> QED
  BY <1>1, <1>2, <1>3, QuietGood DEF JobFine

(* A job is claimed, whoever holds the item.                                *)
LEMMA ClaimGood ==
  ASSUME ScreeningInv, NEW i \in Item, NEW k \in Kinds, Claim(i, k)
  PROVE  Good(i)
<1>1. /\ ScreeningTypeOK /\ ItemOK(i) /\ job \in [Item -> Slots] /\ JobFine(k, job[i][k])
      /\ (held[i].open => held[i].new.st # "queued")
  BY ItemFacts
<1>2. job[i][k].st = "queued" /\ job[i][k].n < MaxTry /\ job[i][k].pc = "none" /\ UNCHANGED <<run, items, objs, fin, held, late, tally>>
  BY <1>1 DEF Claim, JobFine
<1>3. JobIs(i, k, "running", job[i][k].n + 1, "begin", "none")
  BY <1>1, <1>2, ClaimIs
<1>4. run.st # "queued" /\ items[i].st # "absent"
  BY <1>2, Started
<1>5. ScreeningTypeOK'
  BY <1>1, <1>2, <1>3, RestKept, TypesNext DEF JobIs
<1>6. Elsewhere(i) /\ FinalAt(i)
  BY <1>2, <1>3 DEF Elsewhere, FinalAt, JobIs
<1>7. \A l \in Kinds : JobFine(l, job'[i][l])
  BY <1>3, JobsFine
<1>8. \A l \in Kinds : job[i][l].st = "running" => job'[i][l] = job[i][l]
  BY <1>2, <1>3 DEF JobIs
<1>9. ItemJobOK(i)'
  <2>1. held[i].open /\ held[i].kind # "late" => held[i].kind \in Kinds /\ job[i][held[i].kind].st = "running"
    BY <1>1, ItemFacts DEF ItemOK, ItemJobOK
  <2> QED
    BY <1>1, <1>2, <1>7, <1>8, <2>1 DEF ItemOK, ItemJobOK, JobFine
<1>10. "parse" \in Kinds /\ (job'[i]["parse"] = job[i]["parse"] \/ (job[i]["parse"].st = "queued" /\ job'[i]["parse"].st = "running" /\ job'[i]["parse"].pc = "begin"))
  BY <1>2, <1>3 DEF JobIs, Kinds
<1>11. FileOK(i)'
  BY <1>1, <1>2, <1>4, <1>10 DEF ItemOK, FileOK, Named
<1>12. ToParse(i) => ToParse(i)'
  BY <1>10 DEF ToParse, Working
<1>13. DrivenOK(i)' /\ RouteHolds(i)'
  BY <1>1, <1>2, <1>12 DEF ItemOK, DrivenOK, RouteHolds, RouteOK, Waiting
<1> QED
  BY <1>1, <1>2, <1>4, <1>5, <1>6, <1>9, <1>11, <1>13 DEF Good, ItemOK

-----------------------------------------------------------------------------
(* The queue settles an attempt.                                            *)

LEMMA DeadGood ==
  ASSUME ScreeningInv, NEW i \in Item, NEW k \in Kinds,
         NEW code \in IF k = "llm" THEN {"route", "transient", "technical"} ELSE Codes,
         Free(i), job[i][k].st = "running", job' = [job EXCEPT ![i][k] = [NoJob EXCEPT !.st = "dead"]],
         DeadLetter(i, k, code), objs' = objs, late' \in [Item -> 0..MaxTry], \A j \in Item : j = i \/ late'[j] = late[j],
         tally' \in [gen : [Item -> Gens], lost : 0..MaxLost]
  PROVE  Good(i)
<1>1. /\ ScreeningTypeOK /\ items[i] \in ItemRow /\ run \in Run /\ job \in [Item -> Slots]
      /\ Named(items[i], objs[i]) /\ FileAt(job[i]["parse"].pc, items[i], objs[i])
      /\ RouteOK(items[i])
  BY ItemFacts
<1>2. run.st # "queued" /\ items[i].st # "absent"
  BY Started
<1>3. JobIs(i, k, "dead", 0, "none", "none")
  BY <1>1, FreshIs, ScreeningAssumption
<1>4. ObjsIs(i) /\ objs'[i] = objs[i]
  BY <1>1, RestKept DEF ObjsIs
<1>5. CASE k = "llm"
  <2>1. fin' = [fin EXCEPT ![i][tally.gen[i]] = code] /\ UNCHANGED <<run, items, held>>
    BY <1>5 DEF DeadLetter
  <2>2. tally.gen[i] \in Gens /\ code \in {"route", "transient", "technical"}
    BY <1>1, <1>5, RestKept
  <2>3. fin' \in [Item -> [Gens -> {"none", "route", "transient", "technical", "done", "lost"}]]
        /\ \A j \in Item : j = i \/ fin'[j] = fin[j]
    <3>1. fin \in [Item -> [Gens -> {"none", "route", "transient", "technical", "done", "lost"}]]
      BY <1>1, RestKept
    <3> QED
      BY <2>1, <2>2, <3>1
  <2>4. RestTyped /\ RowIs(i, items[i]) /\ FinalAt(i)
    BY <1>1, <2>1, <2>3, RowPut DEF RestTyped, FinalAt
  <2>5. items[i].cand # "blocked" /\ items[i].st \in {"parsing", "queued"} => Waiting(items[i])
    BY <1>2 DEF Waiting
  <2> QED
    BY <1>1, <1>2, <1>3, <1>4, <1>5, <2>1, <2>3, <2>4, <2>5, MoveGood
<1>6. ASSUME k # "llm", fin' = fin, NEW r \in ItemRow, RowIs(i, r), run' \in Run, run'.st # "queued", held' = held,
             r.st \notin {"absent", "parsing", "queued"}, Same(r, items[i])
      PROVE  Good(i)
  <2>1. RestTyped
    BY <1>1, <1>6, RestKept DEF RestTyped
  <2>2. Named(r, objs'[i]) /\ RouteOK(r) /\ FinalAt(i)
    BY <1>1, <1>2, <1>4, <1>6 DEF Named, RouteOK, FinalAt, RowIs, Same, SameFile, SamePlace
  <2>3. FileAt(IF k = "parse" THEN "none" ELSE job[i]["parse"].pc, r, objs'[i])
    BY <1>1, <1>4, <1>6 DEF FileAt, Same, SameFile
  <2> QED
    BY <1>2, <1>3, <1>4, <1>6, <2>1, <2>2, <2>3, MoveGood
<1>7. CASE k # "llm" /\ items[i].st \in {"scored", "cancelled"}
  <2>1. UNCHANGED <<run, items, held, fin>>
    BY <1>7 DEF DeadLetter
  <2>2. RowIs(i, items[i]) /\ Same(items[i], items[i])
    BY <1>1, <2>1, RowPut DEF Same, SameFile, SamePlace
  <2> QED
    BY <1>1, <1>2, <1>6, <1>7, <2>1, <2>2
<1>8. CASE k # "llm" /\ items[i].st \notin {"scored", "cancelled"}
  <2> DEFINE q == [items[i] EXCEPT !.st = "failed", !.code = code]
  <2>1. Locked(i, q) /\ fin' = fin
    BY <1>8 DEF DeadLetter
  <2>2. q \in ItemRow /\ q.st = "failed" /\ Same(q, items[i])
    <3>1. code \in Codes /\ "failed" \in States /\ items[i] \in ItemRow
      BY <1>1, <1>8 DEF States
    <3>2. q = Marked(items[i], "failed", code)
      BY DEF Marked
    <3> QED
      BY <3>1, <3>2, MarkedFields
  <2> HIDE DEF q
  <2>3. RowIs(i, q) /\ run' \in Run /\ run'.st # "queued" /\ held' = held
    BY <1>1, <2>1, <2>2, LockedIs
  <2> QED
    BY <1>6, <1>8, <2>1, <2>2, <2>3
<1> QED
  BY <1>5, <1>7, <1>8

LEMMA RetriedGood ==
  ASSUME ScreeningInv, NEW i \in Item, NEW k \in Kinds,
         NEW code \in IF k = "llm" THEN {"route", "transient", "technical"} ELSE Codes,
         Free(i), job[i][k].st = "running", Retried(i, k, code),
         objs' = objs, late' \in [Item -> 0..MaxTry], \A j \in Item : j = i \/ late'[j] = late[j],
         tally' \in [gen : [Item -> Gens], lost : 0..MaxLost]
  PROVE  Good(i)
<1>1. /\ ScreeningTypeOK /\ job \in [Item -> Slots] /\ job[i][k] \in Job
  BY ItemFacts
<1>2. CASE job[i][k].n < MaxTry
  <2>1. job' = [job EXCEPT ![i][k] = [Fresh EXCEPT !.n = job[i][k].n]] /\ UNCHANGED <<run, items, held, fin>>
    BY <1>2 DEF Retried
  <2>2. job[i][k].n \in 0..MaxTry
    BY <1>1 DEF Job
  <2>3. JobIs(i, k, "queued", job[i][k].n, "none", "none")
    BY <1>1, <2>1, <2>2, FreshIs
  <2>4. RestTyped
    BY <1>1, <2>1, RestKept DEF RestTyped
  <2>5. FileAt("none", items[i], objs[i])
    BY DEF FileAt
  <2> QED
    BY <1>2, <2>1, <2>3, <2>4, <2>5, QuietGood
<1>3. CASE ~(job[i][k].n < MaxTry)
  BY <1>3, DeadGood DEF Retried
<1> QED
  BY <1>2, <1>3

LEMMA SettleGood ==
  ASSUME ScreeningInv, NEW i \in Item, NEW k \in Kinds, Settle(i, k)
  PROVE  Good(i)
<1> DEFINE out == job[i][k].out
<1>1. /\ ScreeningTypeOK /\ job \in [Item -> Slots] /\ job[i][k] \in Job /\ JobFine(k, job[i][k])
      /\ (Waiting(items[i]) => ToParse(i))
  BY ItemFacts
<1>2. /\ Free(i) /\ job[i][k].st = "running" /\ job[i][k].pc = "settle" /\ UNCHANGED <<objs, late, tally>>
      /\ out # "none" /\ out \in Outs
  BY <1>1 DEF Settle, At, JobFine, Job
<1>3. late' \in [Item -> 0..MaxTry] /\ tally' \in [gen : [Item -> Gens], lost : 0..MaxLost]
  BY <1>1, <1>2, RestKept
<1>4. CASE out = "done"
  <2>1. job' = [job EXCEPT ![i][k] = [NoJob EXCEPT !.st = "done"]] /\ UNCHANGED <<run, items, held, fin>>
    BY <1>4 DEF Settle
  <2>2. JobIs(i, k, "done", 0, "none", "none")
    <3>1. 0 \in 0..MaxTry
      BY ScreeningAssumption
    <3> QED
      BY <1>1, <2>1, <3>1, FreshIs
  <2>3. RestTyped
    BY <1>1, <1>2, <2>1, RestKept
  <2>4. FileAt("none", items[i], objs[i])
    BY DEF FileAt
  <2>5. k = "parse" => ~Waiting(items[i])
    BY <1>1, <1>2, <1>4 DEF ToParse
  <2> QED
    BY <1>2, <2>1, <2>2, <2>3, <2>4, <2>5, QuietGood
<1>5. CASE out = "retry" /\ Retried(i, k, IF k = "llm" THEN "route" ELSE "permanent")
  BY <1>2, <1>3, <1>5, RetriedGood DEF Codes
<1>6. CASE out = "owner" /\ Retried(i, k, IF k = "llm" THEN "technical" ELSE "permanent")
  BY <1>2, <1>3, <1>6, RetriedGood DEF Codes
<1>7. CASE out \notin {"done", "retry", "owner"} /\ job' = [job EXCEPT ![i][k] = [NoJob EXCEPT !.st = "dead"]]
           /\ DeadLetter(i, k, out)
  <2>1. out \in IF k = "llm" THEN {"route", "transient", "technical"} ELSE Codes
    BY <1>1, <1>2, <1>7 DEF JobFine, Outs, Codes
  <2> QED
    BY <1>2, <1>3, <1>7, <2>1, DeadGood
<1> QED
  BY <1>4, <1>5, <1>6, <1>7 DEF Settle

LEMMA LostGood ==
  ASSUME ScreeningInv, NEW i \in Item, NEW k \in Kinds, Lost(i, k)
  PROVE  Good(i)
<1>1. ScreeningTypeOK /\ job[i][k] \in Job
  BY ItemFacts
<1>2. /\ Free(i) /\ job[i][k].st = "running" /\ objs' = objs
      /\ Retried(i, k, IF k = "llm" THEN "route" ELSE "permanent")
      /\ late' \in {late, [late EXCEPT ![i] = job[i][k].n]}
      /\ tally.lost < MaxLost /\ tally' = [tally EXCEPT !.lost = @ + 1]
  BY DEF Lost
<1>3. job[i][k].n \in 0..MaxTry
  BY <1>1 DEF Job
<1>4. late' \in [Item -> 0..MaxTry] /\ \A j \in Item : j = i \/ late'[j] = late[j]
  BY <1>1, <1>2, <1>3, RestKept
<1>5. tally' \in [gen : [Item -> Gens], lost : 0..MaxLost]
  BY <1>1, <1>2, RestKept, ScreeningAssumption
<1> QED
  BY <1>2, <1>4, <1>5, RetriedGood DEF Codes

-----------------------------------------------------------------------------
(* The handlers of the parse job.                                           *)

Unharmed(i, r) == Same(r, items[i]) /\ r \in ItemRow

LEMMA SameIsKept ==
  ASSUME NEW i \in Item, NEW r, Unharmed(i, r)
  PROVE  /\ r.key = items[i].key /\ r.scan = items[i].scan /\ r.cand = items[i].cand /\ r.eval = items[i].eval /\ Kept(r, items[i])
         /\ RouteOK(items[i]) => RouteOK(r)
         /\ \A os : Named(items[i], os) /\ items[i].st # "absent" => Named(r, os)
         /\ \A pc, os : FileAt(pc, items[i], os) => FileAt(pc, r, os)
         /\ RowIs(i, r) => FinalAt(i)
<1>1. /\ r.key = items[i].key /\ r.scan = items[i].scan /\ r.cand = items[i].cand /\ r.eval = items[i].eval /\ r.stage = items[i].stage
      /\ r.bulk = items[i].bulk /\ r.route = items[i].route /\ r.task = items[i].task /\ r.pool = items[i].pool
  BY DEF Unharmed, Same, SameFile, SamePlace
<1>2. Kept(r, items[i]) /\ (RouteOK(items[i]) => RouteOK(r)) /\ (RowIs(i, r) => FinalAt(i))
  BY <1>1 DEF Kept, RouteOK, RowIs, FinalAt
<1>3. /\ \A os : Named(items[i], os) /\ items[i].st # "absent" => Named(r, os)
      /\ \A pc, os : FileAt(pc, items[i], os) => FileAt(pc, r, os)
  BY <1>1 DEF Named, FileAt
<1> QED
  BY <1>1, <1>2, <1>3

LEMMA UnharmedMarked ==
  ASSUME ScreeningTypeOK, NEW i \in Item, NEW st \in States, NEW code \in Codes
  PROVE  /\ Unharmed(i, Marked(items[i], st, code)) /\ Marked(items[i], st, code).st = st
         /\ Cancelled(items[i]) = Marked(items[i], "cancelled", "permanent")
<1>1. items[i] \in ItemRow
  BY ScreenTypes
<1>2. Unharmed(i, Marked(items[i], st, code)) /\ Marked(items[i], st, code).st = st
  BY <1>1, MarkedFields DEF Unharmed
<1>3. Cancelled(items[i]) = Marked(items[i], "cancelled", "permanent")
  BY DEF Marked, Cancelled
<1> QED
  BY <1>2, <1>3

LEMMA UnlockedSame ==
  ASSUME ScreeningInv, NEW i \in Item, NEW k \in Kinds \cup {"late"},
         NEW r, Unharmed(i, r), NEW out \in Outs, Unlocked(i, k, r, out),
         Free(i), items[i].st # "absent", run.st # "queued", objs' = objs, fin' = fin, RestTyped,
         \A j \in Item : j = i \/ late'[j] = late[j],
         k # "late" => job[i][k].st = "running",
         out \notin IF k \in {"llm", "late"} THEN {"none", "recoverable", "permanent"} ELSE {"none", "technical"},
         r.st # "absent",
         IF k = "parse" THEN r.st \in {"failed", "cancelled"} ELSE r.st \notin {"parsing", "queued"} \/ r.st = items[i].st
  PROVE  Good(i)
<1>1. /\ r \in ItemRow /\ r.key = items[i].key /\ r.scan = items[i].scan /\ r.cand = items[i].cand /\ r.eval = items[i].eval
      /\ Kept(r, items[i]) /\ (RouteOK(items[i]) => RouteOK(r))
  BY SameIsKept DEF Unharmed
<1>2. RouteOK(items[i])
  BY ItemFacts
<1>3. out # "infected"
  BY DEF Outs
<1>4. out \notin IF k \in {"llm", "late"} THEN {"none", "recoverable", "permanent", "infected"} ELSE {"none", "technical"}
  BY <1>3
<1> QED
  BY <1>1, <1>2, <1>3, <1>4, UnlockedGood

(* A handler that writes its item and stays, or ends, in one transaction.   *)
LEMMA WroteGood ==
  ASSUME ScreeningInv, NEW i \in Item, NEW k \in Kinds, NEW r, Unharmed(i, r),
         NEW pc \in Points, NEW out, JobIs(i, k, "running", job[i][k].n, pc, out), RowIs(i, r), objs' = objs,
         run' \in Run, run'.st # "queued", Free(i), held' = held, UNCHANGED <<fin, late, tally>>,
         job[i][k].st = "running", r.st # "absent", pc # "none", pc = "settle" => out # "none",
         out \notin IF k = "llm" THEN {"recoverable", "permanent"} ELSE {"technical"},
         k = "parse" => FileAt(pc, r, objs[i]),
         r.st \in {"parsing", "queued"} =>
           IF k = "parse" THEN pc # "infected" /\ (pc = "settle" => out # "done") ELSE r.st = items[i].st
  PROVE  Good(i)
<1>1. /\ ScreeningTypeOK /\ items[i] \in ItemRow /\ Named(items[i], objs[i]) /\ FileAt(job[i]["parse"].pc, items[i], objs[i])
      /\ RouteOK(items[i])
  BY ItemFacts
<1>2. run.st # "queued" /\ items[i].st # "absent"
  BY Started
<1>3. /\ r \in ItemRow /\ RouteOK(r) /\ FinalAt(i) /\ Named(r, objs'[i]) /\ r.cand = items[i].cand
      /\ FileAt(job[i]["parse"].pc, r, objs[i])
  BY <1>1, <1>2, SameIsKept DEF Unharmed
<1>4. ObjsIs(i) /\ RestTyped
  BY <1>1, RestKept DEF ObjsIs
<1>5. FileAt(IF k = "parse" THEN pc ELSE job[i]["parse"].pc, r, objs'[i])
  BY <1>3
<1>6. r.cand # "blocked" /\ r.st \in {"parsing", "queued"} =>
           IF k = "parse" THEN "running" \in {"queued", "running"} /\ pc # "infected" /\ (pc = "settle" => out # "done")
                          ELSE Waiting(items[i])
  BY <1>2, <1>3 DEF Waiting
<1> QED
  BY <1>2, <1>3, <1>4, <1>5, <1>6, MoveGood

LEMMA RetryOrFinishGood ==
  ASSUME ScreeningInv, NEW i \in Item, NEW k \in {"parse", "score"},
         NEW code \in {"transient", "recoverable"}, RetryOrFinish(i, k, code),
         Free(i), job[i][k].st = "running", UNCHANGED <<objs, fin, late, tally>>
  PROVE  Good(i)
<1>1. ScreeningTypeOK /\ job \in [Item -> Slots] /\ k \in Kinds /\ code \in Codes /\ code \in Outs
  BY ItemFacts DEF Kinds, Codes, Outs
<1>2. run.st # "queued" /\ items[i].st # "absent"
  BY <1>1, Started
<1>3. RestTyped
  BY <1>1, RestKept
<1> DEFINE back == IF k = "parse" THEN "queued" ELSE "parsed"
<1>4. \/ Unlocked(i, k, Cancelled(items[i]), "permanent")
      \/ Unlocked(i, k, Marked(items[i], "failed", code), code)
      \/ items' = [items EXCEPT ![i] = Marked(items[i], back, code)] /\ Ends(i, k, "retry") /\ UNCHANGED <<run, held>>
  BY DEF RetryOrFinish, Marked
<1>5. CASE Unlocked(i, k, Cancelled(items[i]), "permanent")
  <2>1. Unharmed(i, Cancelled(items[i])) /\ Cancelled(items[i]).st = "cancelled"
    BY <1>1, UnharmedMarked DEF States, Codes
  <2>2. "permanent" \in Outs
    BY DEF Outs
  <2> QED
    BY <1>1, <1>2, <1>3, <1>5, <2>1, <2>2, UnlockedSame
<1>6. CASE Unlocked(i, k, Marked(items[i], "failed", code), code)
  <2>1. Unharmed(i, Marked(items[i], "failed", code)) /\ Marked(items[i], "failed", code).st = "failed"
    BY <1>1, UnharmedMarked DEF States
  <2> QED
    BY <1>1, <1>2, <1>3, <1>6, <2>1, UnlockedSame
<1>7. CASE items' = [items EXCEPT ![i] = Marked(items[i], back, code)] /\ Ends(i, k, "retry") /\ UNCHANGED <<run, held>>
  <2> DEFINE r == Marked(items[i], back, code)
  <2>1. back \in States
    BY DEF States
  <2>2. Unharmed(i, r) /\ r.st = back
    BY <1>1, <2>1, UnharmedMarked
  <2>3. "retry" \in Outs /\ "settle" \in Points
    BY DEF Outs, Points
  <2>4. JobIs(i, k, "running", job[i][k].n, "settle", "retry")
    BY <1>1, <1>7, <2>3, EndsIs
  <2>5. RowIs(i, r)
    BY <1>1, <1>7, <2>2, RowPut DEF Unharmed
  <2>6. run' \in Run /\ run'.st # "queued" /\ held' = held
    BY <1>1, <1>2, <1>7, RestKept
  <2>7. k = "parse" => FileAt("settle", r, objs[i])
    BY DEF FileAt
  <2>8. /\ r.st # "absent" /\ "settle" # "none" /\ ("settle" = "settle" => "retry" # "none")
        /\ "retry" \notin IF k = "llm" THEN {"recoverable", "permanent"} ELSE {"technical"}
        /\ r.st \in {"parsing", "queued"} =>
             IF k = "parse" THEN "settle" # "infected" /\ ("settle" = "settle" => "retry" # "done") ELSE r.st = items[i].st
    <3> HIDE DEF r
    <3> QED
      BY <2>2
  <2> HIDE DEF r, back
  <2> QED
    BY <1>1, <2>2, <2>3, <2>4, <2>5, <2>6, <2>7, <2>8, WroteGood
<1> QED
  BY <1>4, <1>5, <1>6, <1>7

LEMMA FailTerminalGood ==
  ASSUME ScreeningInv, NEW i \in Item, NEW k \in {"parse", "score"},
         NEW code \in {"recoverable", "permanent"}, NEW scan \in {"pending", "clean", "rejected"},
         NEW out \in {"done", "permanent", "infected"}, FailTerminal(i, k, code, scan, out),
         scan = items[i].scan \/ (k = "parse" /\ scan = "rejected"), out = "infected" => k = "parse" /\ scan = "rejected",
         Free(i), job[i][k].st = "running", UNCHANGED <<objs, fin, late, tally>>
  PROVE  Good(i)
<1>1. /\ ScreeningTypeOK /\ items[i] \in ItemRow /\ k \in Kinds /\ code \in Codes /\ out \in Outs \cup {"infected"}
      /\ RouteOK(items[i])
  BY ItemFacts DEF Kinds, Codes, Outs
<1>2. run.st # "queued" /\ items[i].st # "absent"
  BY <1>1, Started
<1>3. RestTyped
  BY <1>1, RestKept
<1> DEFINE s == [items[i] EXCEPT !.scan = scan]
<1>4. s \in ItemRow /\ s.key = items[i].key /\ s.scan = scan /\ SamePlace(s, items[i])
  BY <1>1, ScannedRow
<1>5. PICK r : /\ Unlocked(i, k, r, out)
               /\ r \in {Marked(s, "cancelled", "permanent"), Marked(s, "failed", code)}
  BY DEF FailTerminal, Marked, Cancelled
<1> HIDE DEF s
<1>6. r \in ItemRow /\ r.st \in {"failed", "cancelled"} /\ Same(r, s)
  BY <1>1, <1>4, <1>5, MarkedFields DEF States, Codes
<1>7. /\ r.key = items[i].key /\ r.scan = scan /\ r.cand = items[i].cand /\ r.eval = items[i].eval /\ Kept(r, items[i]) /\ RouteOK(r)
  BY <1>1, <1>4, <1>6 DEF Same, SameFile, SamePlace, Kept, RouteOK
<1> QED
  BY <1>1, <1>2, <1>3, <1>5, <1>6, <1>7, UnlockedGood

LEMMA HandlerAt ==
  ASSUME ScreeningInv, NEW i \in Item, NEW k \in Kinds, NEW pc \in Points \ {"none"}, At(i, k, pc)
  PROVE  /\ Free(i) /\ job[i][k].st = "running" /\ job[i][k].pc = pc /\ run.st # "queued" /\ items[i].st # "absent"
         /\ run \in Run /\ items[i] \in ItemRow /\ job \in [Item -> Slots] /\ ScreeningTypeOK
         /\ UNCHANGED <<fin, late, tally>> => RestTyped
         /\ k = "parse" => FileAt(pc, items[i], objs[i])
         /\ job[i][k].out \notin IF k = "llm" THEN {"recoverable", "permanent"} ELSE {"technical"}
<1>1. Free(i) /\ job[i][k].st = "running" /\ job[i][k].pc = pc
  BY DEF At
<1>2. run.st # "queued" /\ items[i].st # "absent"
  BY <1>1, Started
<1> QED
  BY <1>1, <1>2, ItemFacts, RestKept DEF JobFine

(* The parse goes on, having written its item or moved its file.            *)
LEMMA ParseGoes ==
  ASSUME ScreeningInv, NEW i \in Item, NEW pc \in {"scan", "copied", "switched", "read", "store"}, NEW r \in ItemRow,
         Free(i), job[i]["parse"].st = "running", Go(i, "parse", pc), RowIs(i, r), ObjsIs(i),
         UNCHANGED <<run, fin, held, late, tally>>, r.st # "absent",
         Named(r, objs'[i]), FileAt(pc, r, objs'[i]), RouteOK(r), FinalAt(i)
  PROVE  Good(i)
<1> DEFINE out == job[i]["parse"].out
           n == job[i]["parse"].n
<1>1. "parse" \in Kinds /\ pc \in Points
  BY DEF Kinds, Points
<1>2. /\ job \in [Item -> Slots] /\ JobFine("parse", job[i]["parse"]) /\ ScreeningTypeOK /\ run \in Run
  BY <1>1, ItemFacts
<1>3. JobIs(i, "parse", "running", n, pc, out)
  BY <1>1, <1>2, GoIs
<1>4. run.st # "queued" /\ items[i].st # "absent"
  BY <1>1, Started
<1>5. out \notin {"technical"} /\ RestTyped
  BY <1>2, RestKept DEF JobFine
<1> HIDE DEF out, n
<1>6. FileAt(IF "parse" = "parse" THEN pc ELSE job[i]["parse"].pc, r, objs'[i])
  OBVIOUS
<1> QED
  BY <1>1, <1>2, <1>3, <1>4, <1>5, <1>6, MoveGood

LEMMA ParseBeginGood ==
  ASSUME ScreeningInv, NEW i \in Item, ParseBegin(i)
  PROVE  Good(i)
<1>0. "parse" \in Kinds /\ {"begin", "scan", "settle"} \subseteq Points \ {"none"}
      /\ {"done", "permanent"} \subseteq Outs /\ "parsing" \in States
  BY DEF Kinds, Points, Outs, States
<1>1. /\ Free(i) /\ job[i]["parse"].st = "running" /\ run.st # "queued" /\ items[i].st # "absent" /\ run \in Run
      /\ items[i] \in ItemRow /\ job \in [Item -> Slots] /\ ScreeningTypeOK /\ (UNCHANGED <<fin, late, tally>> => RestTyped)
  BY <1>0, HandlerAt DEF ParseBegin
<1>2. UNCHANGED <<run, objs, fin, held, late, tally>>
  BY DEF ParseBegin
<1>3. CASE ParseOver(items[i]) /\ Ends(i, "parse", "done") /\ UNCHANGED items
  <2>1. ~Waiting(items[i])
    BY <1>3 DEF ParseOver, Waiting
  <2> QED
    BY <1>0, <1>1, <1>2, <1>3, <2>1, EndGood
<1>4. CASE Ends(i, "parse", "permanent") /\ UNCHANGED items
  BY <1>0, <1>1, <1>2, <1>4, EndGood
<1>5. CASE Go(i, "parse", "scan") /\ items' = [items EXCEPT ![i].st = "parsing"]
  <2> DEFINE r == [items[i] EXCEPT !.st = "parsing"]
  <2>1. r \in ItemRow /\ r.st = "parsing" /\ Same(r, items[i])
    BY <1>0, <1>1, StatedRow
  <2>2. items' = [items EXCEPT ![i] = r]
    BY <1>5
  <2> HIDE DEF r
  <2>3. RowIs(i, r) /\ Unharmed(i, r)
    BY <1>1, <2>1, <2>2, RowPut DEF Unharmed
  <2>4. FileAt("scan", r, objs'[i]) /\ Named(r, objs'[i]) /\ RouteOK(r) /\ FinalAt(i) /\ ObjsIs(i)
    <3>1. Named(items[i], objs[i]) /\ RouteOK(items[i]) /\ objs \in [Item -> SUBSET {"quarantine", "clean"}]
      BY <1>1, ItemFacts, RestKept
    <3> QED
      BY <1>1, <1>2, <2>3, <3>1, SameIsKept DEF FileAt, ObjsIs
  <2> QED
    BY <1>1, <1>2, <1>5, <2>1, <2>3, <2>4, ParseGoes
<1> QED
  BY <1>3, <1>4, <1>5 DEF ParseBegin

LEMMA ScanFileGood ==
  ASSUME ScreeningInv, NEW i \in Item, ScanFile(i)
  PROVE  Good(i)
<1>0. "parse" \in Kinds /\ {"scan", "read", "copied"} \subseteq Points \ {"none", "settle", "infected"}
      /\ "done" \in Outs
  BY DEF Kinds, Points, Outs
<1>1. /\ Free(i) /\ job[i]["parse"].st = "running" /\ run.st # "queued" /\ items[i].st # "absent" /\ run \in Run
      /\ items[i] \in ItemRow /\ job \in [Item -> Slots] /\ ScreeningTypeOK /\ (UNCHANGED <<fin, late, tally>> => RestTyped)
  BY <1>0, HandlerAt DEF ScanFile
<1>2. UNCHANGED <<fin, late, tally>>
  BY DEF ScanFile
<1>3. CASE /\ ParseOver(items[i]) /\ Ends(i, "parse", "done")
           /\ UNCHANGED <<run, items, held, objs>>
  <2>1. ~Waiting(items[i])
    BY <1>3 DEF ParseOver, Waiting
  <2> QED
    BY <1>0, <1>1, <1>2, <1>3, <2>1, EndGood
<1>4. CASE Go(i, "parse", "read") /\ UNCHANGED <<run, items, held, objs>>
  <2>1. FileAt("read", items[i], objs[i])
    BY DEF FileAt
  <2> QED
    BY <1>0, <1>1, <1>2, <1>4, <2>1, GoGood
<1>5. CASE /\ Go(i, "parse", "copied") /\ objs' = [objs EXCEPT ![i] = @ \cup {"clean"}]
           /\ UNCHANGED <<run, items, held>>
  <2>1. /\ objs \in [Item -> SUBSET {"quarantine", "clean"}] /\ Named(items[i], objs[i]) /\ RouteOK(items[i])
    BY <1>0, <1>1, RestKept, ItemFacts
  <2>2. ObjsIs(i) /\ objs'[i] = objs[i] \cup {"clean"}
    BY <1>5, <2>1 DEF ObjsIs
  <2>3. RowIs(i, items[i]) /\ FinalAt(i)
    BY <1>1, <1>5, RowPut DEF FinalAt
  <2>4. Named(items[i], objs'[i]) /\ FileAt("copied", items[i], objs'[i])
    BY <2>1, <2>2 DEF Named, FileAt
  <2> QED
    BY <1>1, <1>2, <1>5, <2>1, <2>2, <2>3, <2>4, ParseGoes
<1>6. CASE objs' = objs /\ RetryOrFinish(i, "parse", "transient")
  BY <1>1, <1>2, <1>6, RetryOrFinishGood
<1>7. CASE objs' = objs /\ FailTerminal(i, "parse", "permanent", items[i].scan, "done")
  <2>1. items[i].scan \in {"pending", "clean", "rejected"}
    BY <1>1 DEF ItemRow
  <2> QED
    BY <1>1, <1>2, <1>7, <2>1, FailTerminalGood
<1>8. CASE objs' = objs /\ FailTerminal(i, "parse", "permanent", "rejected", "infected")
  BY <1>1, <1>2, <1>8, FailTerminalGood
<1> QED
  BY <1>3, <1>4, <1>5, <1>6, <1>7, <1>8 DEF ScanFile

LEMMA DeleteInfectedGood ==
  ASSUME ScreeningInv, NEW i \in Item, DeleteInfected(i)
  PROVE  Good(i)
<1>0. "parse" \in Kinds /\ "infected" \in Points \ {"none"} /\ "done" \in Outs
  BY DEF Kinds, Points, Outs
<1>1. /\ Free(i) /\ job[i]["parse"].st = "running" /\ run.st # "queued" /\ items[i].st # "absent" /\ run \in Run
      /\ items[i] \in ItemRow /\ job \in [Item -> Slots] /\ ScreeningTypeOK /\ (UNCHANGED <<fin, late, tally>> => RestTyped)
      /\ job[i]["parse"].pc = "infected" /\ FileAt("infected", items[i], objs[i])
  BY <1>0, HandlerAt DEF DeleteInfected
<1>2. /\ UNCHANGED <<run, items, fin, held, late, tally>> /\ Ends(i, "parse", "done")
      /\ objs' \in {objs, [objs EXCEPT ![i] = @ \ {items[i].key}]}
  BY DEF DeleteInfected
<1>3. /\ objs \in [Item -> SUBSET {"quarantine", "clean"}] /\ RouteOK(items[i])
      /\ (Waiting(items[i]) => ToParse(i))
  BY <1>0, <1>1, RestKept, ItemFacts
<1>4. ObjsIs(i)
  BY <1>2, <1>3 DEF ObjsIs
<1>5. RowIs(i, items[i]) /\ FinalAt(i)
  BY <1>1, <1>2, RowPut DEF FinalAt
<1>6. JobIs(i, "parse", "running", job[i]["parse"].n, "settle", "done")
  BY <1>0, <1>1, <1>2, EndsIs
<1>7. Named(items[i], objs'[i]) /\ FileAt("settle", items[i], objs'[i])
  BY <1>1 DEF Named, FileAt
<1>8. ~Waiting(items[i])
  BY <1>1, <1>3 DEF ToParse
<1>9. ~(items[i].cand # "blocked" /\ items[i].st \in {"parsing", "queued"})
  BY <1>1, <1>8 DEF Waiting
<1> QED
  BY <1>0, <1>1, <1>2, <1>3, <1>4, <1>5, <1>6, <1>7, <1>9, MoveGood

LEMMA SwitchKeyGood ==
  ASSUME ScreeningInv, NEW i \in Item, SwitchKey(i)
  PROVE  Good(i)
<1>0. "parse" \in Kinds /\ {"copied", "switched"} \subseteq Points \ {"none"}
  BY DEF Kinds, Points
<1>1. /\ Free(i) /\ job[i]["parse"].st = "running" /\ run.st # "queued" /\ items[i].st # "absent" /\ run \in Run
      /\ items[i] \in ItemRow /\ job \in [Item -> Slots] /\ ScreeningTypeOK /\ (UNCHANGED <<fin, late, tally>> => RestTyped)
      /\ FileAt("copied", items[i], objs[i])
  BY <1>0, HandlerAt DEF SwitchKey
<1> DEFINE r == [items[i] EXCEPT !.key = "clean", !.scan = "clean", !.cleanup = TRUE]
<1>2. /\ UNCHANGED <<run, objs, fin, held, late, tally>> /\ Go(i, "parse", "switched")
      /\ items' = [items EXCEPT ![i] = r]
  BY DEF SwitchKey
<1>3. r \in ItemRow /\ r.st = items[i].st /\ r.key = "clean" /\ SamePlace(r, items[i])
  BY <1>1, SwitchedRow
<1> HIDE DEF r
<1>4. RouteOK(items[i])
  BY <1>0, ItemFacts
<1>5. RowIs(i, r) /\ ObjsIs(i)
  BY <1>1, <1>2, <1>3, RowPut, RestKept DEF ObjsIs
<1>6. RouteOK(r) /\ FinalAt(i)
  BY <1>3, <1>4, <1>5 DEF SamePlace, RouteOK, FinalAt, RowIs
<1>7. Named(r, objs'[i]) /\ FileAt("switched", r, objs'[i])
  BY <1>1, <1>2, <1>3 DEF Named, FileAt
<1> QED
  BY <1>1, <1>2, <1>3, <1>5, <1>6, <1>7, ParseGoes

LEMMA DeleteQuarantinedGood ==
  ASSUME ScreeningInv, NEW i \in Item, DeleteQuarantined(i)
  PROVE  Good(i)
<1>0. "parse" \in Kinds /\ {"read", "switched"} \subseteq Points \ {"none", "settle", "infected"}
  BY DEF Kinds, Points
<1>1. /\ Free(i) /\ job[i]["parse"].st = "running" /\ run.st # "queued" /\ items[i].st # "absent" /\ run \in Run
      /\ items[i] \in ItemRow /\ job \in [Item -> Slots] /\ ScreeningTypeOK /\ (UNCHANGED <<fin, late, tally>> => RestTyped)
      /\ FileAt("switched", items[i], objs[i])
  BY <1>0, HandlerAt DEF DeleteQuarantined
<1>2. /\ UNCHANGED <<run, fin, held, late, tally>> /\ Go(i, "parse", "read")
      /\ \/ UNCHANGED <<objs, items>>
         \/ /\ objs' = [objs EXCEPT ![i] = @ \ {"quarantine"}]
            /\ items' = [items EXCEPT ![i].cleanup = FALSE]
  BY DEF DeleteQuarantined
<1>3. CASE UNCHANGED <<objs, items>>
  <2>1. FileAt("read", items[i], objs[i])
    BY DEF FileAt
  <2> QED
    BY <1>0, <1>1, <1>2, <1>3, <2>1, GoGood
<1>4. CASE /\ objs' = [objs EXCEPT ![i] = @ \ {"quarantine"}]
           /\ items' = [items EXCEPT ![i].cleanup = FALSE]
  <2> DEFINE r == [items[i] EXCEPT !.cleanup = FALSE]
  <2>1. r \in ItemRow /\ r.st = items[i].st /\ Same(r, items[i])
    BY <1>1, CleanedRow
  <2>2. items' = [items EXCEPT ![i] = r]
    BY <1>4
  <2> HIDE DEF r
  <2>3. /\ objs \in [Item -> SUBSET {"quarantine", "clean"}] /\ Named(items[i], objs[i]) /\ RouteOK(items[i])
    BY <1>0, <1>1, RestKept, ItemFacts
  <2>4. ObjsIs(i) /\ objs'[i] = objs[i] \ {"quarantine"}
    BY <1>4, <2>3 DEF ObjsIs
  <2>5. RowIs(i, r) /\ Unharmed(i, r)
    BY <1>1, <2>1, <2>2, RowPut DEF Unharmed
  <2>6. r.key = "clean" /\ r.scan = items[i].scan /\ RouteOK(r) /\ FinalAt(i)
    BY <1>1, <2>3, <2>5, SameIsKept DEF FileAt
  <2>7. Named(r, objs'[i]) /\ FileAt("read", r, objs'[i])
    BY <1>1, <2>1, <2>3, <2>4, <2>6 DEF Named, FileAt
  <2> QED
    BY <1>1, <1>2, <2>1, <2>4, <2>5, <2>6, <2>7, ParseGoes
<1> QED
  BY <1>2, <1>3, <1>4

LEMMA ReadFileGood ==
  ASSUME ScreeningInv, NEW i \in Item, ReadFile(i)
  PROVE  Good(i)
<1>0. "parse" \in Kinds /\ {"read", "store"} \subseteq Points \ {"none", "settle", "infected"}
  BY DEF Kinds, Points
<1>1. /\ Free(i) /\ job[i]["parse"].st = "running" /\ items[i] \in ItemRow
      /\ UNCHANGED <<objs, fin, late, tally>>
  BY <1>0, HandlerAt DEF ReadFile
<1>2. CASE Go(i, "parse", "store") /\ UNCHANGED <<run, items, held>>
  <2>1. FileAt("store", items[i], objs[i])
    BY DEF FileAt
  <2> QED
    BY <1>0, <1>1, <1>2, <2>1, GoGood
<1>3. CASE RetryOrFinish(i, "parse", "transient")
  BY <1>1, <1>3, RetryOrFinishGood
<1>4. ASSUME NEW code \in {"recoverable", "permanent"}, FailTerminal(i, "parse", code, items[i].scan, "done")
      PROVE  Good(i)
  <2>1. items[i].scan \in {"pending", "clean", "rejected"}
    BY <1>1 DEF ItemRow
  <2> QED
    BY <1>1, <1>4, <2>1, FailTerminalGood
<1> QED
  BY <1>2, <1>3, <1>4 DEF ReadFile

(* A handler ends and leaves the next job.                                  *)
LEMMA ChainGood ==
  ASSUME ScreeningInv, NEW i \in Item, NEW k \in Kinds, NEW next \in {"score", "llm"},
         next # k, job[i][k].st = "running", Free(i), held' = held,
         job' = Settled(Enqueued(job, i, next), i, k, "done"),
         NEW r \in ItemRow, RowIs(i, r), UNCHANGED <<objs, fin, late, tally>>, run' \in Run, run'.st # "queued",
         r.st \notin {"absent", "queued", "parsing"}, r.key = items[i].key, r.scan = items[i].scan,
         RouteOK(r), FinalAt(i)
  PROVE  Good(i)
<1> DEFINE fresh == [st |-> "queued", n |-> 0, pc |-> "none", out |-> "none"]
           done == [st |-> job[i][k].st, n |-> job[i][k].n, pc |-> "settle", out |-> "done"]
<1>1. /\ job \in [Item -> Slots] /\ ScreeningTypeOK /\ Named(items[i], objs[i]) /\ FileAt(job[i]["parse"].pc, items[i], objs[i])
      /\ \A l \in Kinds : JobFine(l, job[i][l])
  BY ItemFacts
<1>2. run.st # "queued" /\ items[i].st # "absent"
  BY Started
<1>3. next \in Kinds \ {k} /\ next # "parse" /\ "parse" \in Kinds
  BY DEF Kinds
<1>4. /\ job' \in [Item -> Slots] /\ \A j \in Item \ {i} : job'[j] = job[j]
      /\ \A l \in Kinds \ {k, next} : job'[i][l] = job[i][l]
      /\ job'[i][k] = done
      /\ job'[i][next] \in {job[i][next], fresh}
  BY <1>1, <1>3, ChainIs
<1>5. JobFine(next, fresh)
  BY ScreeningAssumption DEF JobFine
<1>6. JobFine(k, done)
  BY DEF JobFine
<1> HIDE DEF fresh
<1>7. \A l \in Kinds : JobFine(l, job'[i][l])
  BY <1>1, <1>3, <1>4, <1>5, <1>6
<1>8. FileAt(job'[i]["parse"].pc, r, objs'[i]) /\ Named(r, objs'[i])
  <2>1. k = "parse" => job'[i]["parse"].pc = "settle"
    BY <1>4
  <2>2. k # "parse" => job'[i]["parse"] = job[i]["parse"]
    BY <1>3, <1>4
  <2> QED
    BY <1>1, <1>2, <2>1, <2>2 DEF FileAt, Named
<1>9. ScreeningTypeOK'
  BY <1>1, <1>4, RestKept, TypesNext DEF RowIs
<1>10. Elsewhere(i)
  BY <1>4 DEF Elsewhere, RowIs
<1>11. ~held'[i].open
  BY DEF Free
<1>12. \A j \in Item : j = i \/ (late'[j] = late[j] /\ fin'[j] = fin[j])
  OBVIOUS
<1>13. items'[i] = r
  BY DEF RowIs
<1> QED
  BY <1>2, <1>7, <1>8, <1>9, <1>10, <1>11, <1>12, <1>13, FreeGood

LEMMA CancelledGood ==
  ASSUME ScreeningInv, NEW i \in Item, NEW k \in {"parse", "score"}, NEW out \in {"done", "permanent"},
         Free(i), job[i][k].st = "running", Locked(i, Cancelled(items[i])), Ends(i, k, out),
         UNCHANGED <<objs, fin, late, tally>>
  PROVE  Good(i)
<1>1. ScreeningTypeOK /\ job \in [Item -> Slots] /\ k \in Kinds /\ out \in Outs /\ "settle" \in Points
  BY ItemFacts DEF Kinds, Outs, Points
<1> DEFINE r == Cancelled(items[i])
<1>2. Unharmed(i, r) /\ r.st = "cancelled"
  BY <1>1, UnharmedMarked DEF States, Codes
<1> HIDE DEF r
<1>3. RowIs(i, r) /\ run' \in Run /\ run'.st # "queued" /\ held' = held
  BY <1>1, <1>2, LockedIs DEF r, Unharmed
<1>4. JobIs(i, k, "running", job[i][k].n, "settle", out)
  BY <1>1, EndsIs
<1>5. FileAt("settle", r, objs[i]) /\ out # "none" /\ out \notin IF k = "llm" THEN {"recoverable", "permanent"} ELSE {"technical"}
  BY DEF FileAt
<1> QED
  BY <1>1, <1>2, <1>3, <1>4, <1>5, WroteGood

LEMMA StoreParsedGood ==
  ASSUME ScreeningInv, NEW i \in Item, StoreParsed(i)
  PROVE  Good(i)
<1>0. "parse" \in Kinds /\ "store" \in Points \ {"none"} /\ "done" \in Outs
  BY DEF Kinds, Points, Outs
<1>1. /\ Free(i) /\ job[i]["parse"].st = "running" /\ items[i] \in ItemRow /\ ScreeningTypeOK /\ run \in Run
      /\ UNCHANGED <<objs, fin, late, tally>> /\ RestTyped
  BY <1>0, HandlerAt DEF StoreParsed
<1> DEFINE r == [items[i] EXCEPT !.st = "parsed", !.code = "none", !.cand = "live",
                          !.stage = IF @ = "none" THEN "new" ELSE @]
<1>2. CASE items[i].st \in {"parsed", "scored", "cancelled"} /\ Ends(i, "parse", "done") /\ UNCHANGED <<run, items, held>>
  <2>1. ~Waiting(items[i])
    BY <1>2 DEF Waiting
  <2> QED
    BY <1>0, <1>1, <1>2, <2>1, EndGood
<1>3. CASE Locked(i, Cancelled(items[i])) /\ Ends(i, "parse", "done")
  BY <1>1, <1>3, CancelledGood
<1>4. CASE /\ ~Blocked(i)
           /\ items' = [items EXCEPT ![i] = r]
           /\ job' = Settled(Enqueued(job, i, "score"), i, "parse", "done")
           /\ run' = [run EXCEPT !.st = "rule_scoring"] /\ UNCHANGED held
  <2>1. /\ r \in ItemRow /\ r.st = "parsed" /\ r.cand = "live" /\ SameFile(r, items[i])
        /\ r.stage = (IF items[i].stage = "none" THEN "new" ELSE items[i].stage)
        /\ r.bulk = items[i].bulk /\ r.route = items[i].route /\ r.task = items[i].task /\ r.pool = items[i].pool /\ r.eval = items[i].eval
    BY <1>1, ParsedRow
  <2> HIDE DEF r
  <2>2. RouteOK(items[i])
    BY ItemFacts
  <2>3. RowIs(i, r)
    BY <1>1, <1>4, <2>1, RowPut
  <2>4. RouteOK(r) /\ FinalAt(i)
    BY <2>1, <2>2, <2>3 DEF RouteOK, FinalAt, RowIs
  <2>5. run' \in Run /\ run'.st # "queued"
    BY <1>1, <1>4 DEF Run
  <2>6. r.key = items[i].key /\ r.scan = items[i].scan
    BY <2>1 DEF SameFile
  <2> QED
    BY <1>0, <1>1, <1>4, <2>1, <2>3, <2>4, <2>5, <2>6, ChainGood
<1> QED
  BY <1>2, <1>3, <1>4 DEF StoreParsed

-----------------------------------------------------------------------------
(* The handlers of the score job.                                           *)

(* A score or an evaluation goes on, having written its item.               *)
LEMMA RuleGoes ==
  ASSUME ScreeningInv, NEW i \in Item, NEW k \in {"score", "llm"}, NEW pc \in {"score", "call"}, NEW r, Unharmed(i, r),
         Free(i), job[i][k].st = "running", Go(i, k, pc), RowIs(i, r),
         UNCHANGED <<run, objs, fin, held, late, tally>>, r.st # "absent", r.st \in {"parsing", "queued"} => r.st = items[i].st
  PROVE  Good(i)
<1> DEFINE out == job[i][k].out
<1>1. k \in Kinds /\ k # "parse" /\ pc \in Points /\ pc # "none" /\ pc # "settle"
  BY DEF Kinds, Points
<1>2. /\ job \in [Item -> Slots] /\ JobFine(k, job[i][k]) /\ run \in Run
  BY <1>1, ItemFacts
<1>3. JobIs(i, k, "running", job[i][k].n, pc, out)
  BY <1>1, <1>2, GoIs
<1>4. run.st # "queued"
  BY <1>1, Started
<1>5. out \notin IF k = "llm" THEN {"recoverable", "permanent"} ELSE {"technical"}
  BY <1>2 DEF JobFine
<1> HIDE DEF out
<1> QED
  BY <1>1, <1>2, <1>3, <1>4, <1>5, WroteGood

LEMMA ScoreBeginGood ==
  ASSUME ScreeningInv, NEW i \in Item, ScoreBegin(i)
  PROVE  Good(i)
<1>0. "score" \in Kinds /\ {"begin", "score"} \subseteq Points \ {"none", "settle", "infected"}
      /\ {"done", "permanent"} \subseteq Outs /\ "scoring" \in States
  BY DEF Kinds, Points, Outs, States
<1>1. /\ Free(i) /\ job[i]["score"].st = "running" /\ items[i] \in ItemRow /\ ScreeningTypeOK /\ run \in Run
      /\ UNCHANGED <<run, objs, fin, held, late, tally>> /\ RestTyped /\ run.st # "queued"
  BY <1>0, HandlerAt DEF ScoreBegin
<1>2. CASE Ends(i, "score", "permanent") /\ UNCHANGED items
  BY <1>0, <1>1, <1>2, EndGood
<1>3. CASE Ends(i, "score", "done") /\ UNCHANGED items
  BY <1>0, <1>1, <1>3, EndGood
<1>4. CASE Go(i, "score", "score") /\ items' = [items EXCEPT ![i].st = "scoring"]
  <2> DEFINE r == [items[i] EXCEPT !.st = "scoring"]
  <2>1. r \in ItemRow /\ r.st = "scoring" /\ Same(r, items[i])
    BY <1>0, <1>1, StatedRow
  <2>2. items' = [items EXCEPT ![i] = r]
    BY <1>4
  <2> HIDE DEF r
  <2>3. RowIs(i, r) /\ Unharmed(i, r)
    BY <1>1, <2>1, <2>2, RowPut DEF Unharmed
  <2> QED
    BY <1>1, <1>4, <2>1, <2>3, RuleGoes
<1> QED
  BY <1>2, <1>3, <1>4 DEF ScoreBegin

LEMMA ScoreFailsGood ==
  ASSUME ScreeningInv, NEW i \in Item, ScoreFails(i)
  PROVE  Good(i)
<1>0. "score" \in Kinds /\ "score" \in Points \ {"none"}
  BY DEF Kinds, Points
<1>1. /\ Free(i) /\ job[i]["score"].st = "running" /\ items[i] \in ItemRow /\ UNCHANGED <<objs, fin, late, tally>>
  BY <1>0, HandlerAt DEF ScoreFails
<1>2. items[i].scan \in {"pending", "clean", "rejected"}
  BY <1>1 DEF ItemRow
<1>3. CASE RetryOrFinish(i, "score", "recoverable")
  BY <1>1, <1>3, RetryOrFinishGood
<1>4. CASE FailTerminal(i, "score", "permanent", items[i].scan, "permanent")
  BY <1>1, <1>2, <1>4, FailTerminalGood
<1> QED
  BY <1>3, <1>4 DEF ScoreFails

(* A row as a handler is about to route it: the item's own, with another    *)
(* state, or an evaluation added.                                           *)
Drafted(i, s) ==
  /\ s \in ItemRow /\ SameFile(s, items[i]) /\ s.stage = items[i].stage /\ s.bulk = items[i].bulk /\ s.route = items[i].route
  /\ s.task = items[i].task /\ s.pool = items[i].pool /\ s.cand = items[i].cand
  /\ s.eval = items[i].eval \/ s.eval \in {"high", "low"}

LEMMA RoutedItem ==
  ASSUME NEW i \in Item, NEW s, Drafted(i, s), RouteOK(items[i]), NEW ai \in {"failed", "high", "low"},
         ai # "failed" => s.eval # "none"
  PROVE  LET q == Routed(s, ai)
         IN /\ q \in ItemRow /\ RouteOK(q) /\ Kept(q, items[i]) /\ q.key = items[i].key /\ q.scan = items[i].scan
            /\ q.st = s.st /\ q.cand = items[i].cand /\ q.eval = s.eval
<1>1. RouteOK(s)
  BY DEF Drafted, RouteOK
<1> DEFINE q == Routed(s, ai)
<1>2. q \in ItemRow /\ RouteOK(q) /\ Kept(q, s) /\ SameFile(q, s) /\ q.st = s.st /\ q.cand = s.cand /\ q.eval = s.eval
  BY <1>1, RoutedRow DEF Drafted
<1> HIDE DEF q
<1>3. Kept(q, items[i]) /\ q.key = items[i].key /\ q.scan = items[i].scan /\ q.cand = items[i].cand
  BY <1>2 DEF Drafted, Kept, SameFile
<1> QED
  BY <1>2, <1>3 DEF q

Evaluated(r, llm, again) == [r EXCEPT !.llm = llm, !.again = again]

LEMMA EvaluatedFields ==
  ASSUME NEW r \in ItemRow, NEW llm \in Evaluations, NEW again \in BOOLEAN
  PROVE  /\ Evaluated(r, llm, again) \in ItemRow /\ Evaluated(r, llm, again).st = r.st
         /\ Evaluated(r, llm, again).llm = llm /\ Same(Evaluated(r, llm, again), r)
  BY EvaluatedRow DEF Evaluated

Called(r, llm) == [r EXCEPT !.llm = llm]

LEMMA CalledFields ==
  ASSUME NEW r \in ItemRow, NEW llm \in Evaluations
  PROVE  Called(r, llm) \in ItemRow /\ Called(r, llm).st = r.st /\ Called(r, llm).llm = llm /\ Same(Called(r, llm), r)
  BY EvaluatedRow DEF Called

Answered(r, res) == [r EXCEPT !.llm = "succeeded", !.again = FALSE, !.eval = res]

LEMMA AnsweredFields ==
  ASSUME NEW r \in ItemRow, NEW res \in {"high", "low"}
  PROVE  LET q == Answered(r, res)
         IN /\ q \in ItemRow /\ q.st = r.st /\ q.llm = "succeeded" /\ q.eval = res /\ SameFile(q, r)
            /\ q.stage = r.stage /\ q.bulk = r.bulk /\ q.route = r.route /\ q.task = r.task /\ q.pool = r.pool /\ q.cand = r.cand
  BY AnsweredRow DEF Answered

LEMMA UnharmedIsDrafted == ASSUME NEW i \in Item, NEW s, Unharmed(i, s) PROVE Drafted(i, s) /\ s.eval = items[i].eval
  BY DEF Unharmed, Drafted, Same, SamePlace

LEMMA StoreScoreGood ==
  ASSUME ScreeningInv, NEW i \in Item, NEW on \in BOOLEAN, StoreScore(i, on)
  PROVE  Good(i)
<1>0. "score" \in Kinds /\ {"settle", "score"} \subseteq Points \ {"none"} /\ "score" # "parse" /\ "score" # "llm"
      /\ "done" \in Outs /\ "scored" \in States /\ "none" \in Codes /\ {"skipped", "queued"} \subseteq Evaluations
  BY DEF Kinds, Points, Outs, States, Codes, Evaluations
<1>1. /\ Free(i) /\ job[i]["score"].st = "running" /\ items[i] \in ItemRow /\ ScreeningTypeOK /\ run \in Run
      /\ UNCHANGED <<objs, fin, late, tally>> /\ RestTyped /\ job \in [Item -> Slots] /\ run.st # "queued" /\ items[i].st # "absent"
  BY <1>0, HandlerAt DEF StoreScore
<1>2. RouteOK(items[i]) /\ Named(items[i], objs[i]) /\ FileAt(job[i]["parse"].pc, items[i], objs[i])
  BY ItemFacts
<1> DEFINE r == Marked(items[i], "scored", "none")
           skipped == Called(r, "skipped")
           queued == Called(r, "queued")
<1>3. Unharmed(i, r) /\ r.st = "scored"
  BY <1>0, <1>1, UnharmedMarked
<1>4. Unharmed(i, skipped) /\ skipped.st = "scored" /\ Unharmed(i, queued) /\ queued.st = "scored"
  <2>1. r \in ItemRow /\ Same(r, items[i])
    BY <1>3 DEF Unharmed
  <2> HIDE DEF r
  <2>2. skipped \in ItemRow /\ skipped.st = r.st /\ Same(skipped, r)
    BY <1>0, <2>1, CalledFields
  <2>3. queued \in ItemRow /\ queued.st = r.st /\ Same(queued, r)
    BY <1>0, <2>1, CalledFields
  <2> QED
    BY <1>3, <2>1, <2>2, <2>3 DEF Unharmed, Same, SameFile, SamePlace
<1>5. \/ Locked(i, Cancelled(items[i])) /\ Ends(i, "score", "permanent")
      \/ Locked(i, skipped) /\ Ends(i, "score", "done")
      \/ Locked(i, queued) /\ job' = Settled(Enqueued(job, i, "llm"), i, "score", "done")
      \/ Locked(i, Routed(skipped, "failed")) /\ Ends(i, "score", "done")
  BY DEF StoreScore, Marked, Called
<1> HIDE DEF r, skipped, queued
<1>6. ASSUME NEW s \in ItemRow, s.st = "scored", Locked(i, s), Ends(i, "score", "done"),
             s.key = items[i].key, s.scan = items[i].scan, s.cand = items[i].cand, s.eval = items[i].eval, Kept(s, items[i]), RouteOK(s)
      PROVE  Good(i)
  <2>1. RowIs(i, s) /\ run' \in Run /\ run'.st # "queued" /\ held' = held
    BY <1>1, <1>6, LockedIs
  <2>2. JobIs(i, "score", "running", job[i]["score"].n, "settle", "done")
    BY <1>0, <1>1, <1>6, EndsIs
  <2>3. ObjsIs(i) /\ objs'[i] = objs[i]
    BY <1>1, RestKept DEF ObjsIs
  <2>4. FinalAt(i)
    BY <1>6, <2>1 DEF FinalAt, Kept, RowIs
  <2>5. Named(s, objs'[i]) /\ FileAt(IF "score" = "parse" THEN "settle" ELSE job[i]["parse"].pc, s, objs'[i])
    BY <1>1, <1>2, <1>6, <2>3 DEF Named, FileAt
  <2>6. ~(s.cand # "blocked" /\ s.st \in {"parsing", "queued"}) /\ s.st # "absent"
    BY <1>6
  <2> QED
    BY <1>0, <1>1, <1>6, <2>1, <2>2, <2>3, <2>4, <2>5, <2>6, MoveGood
<1>7. CASE Locked(i, Cancelled(items[i])) /\ Ends(i, "score", "permanent")
  BY <1>1, <1>7, CancelledGood
<1>8. CASE Locked(i, skipped) /\ Ends(i, "score", "done")
  <2>1. skipped \in ItemRow /\ skipped.key = items[i].key /\ skipped.scan = items[i].scan /\ skipped.cand = items[i].cand
        /\ skipped.eval = items[i].eval /\ Kept(skipped, items[i]) /\ RouteOK(skipped)
    BY <1>2, <1>4, SameIsKept DEF Unharmed
  <2> QED
    BY <1>4, <1>6, <1>8, <2>1
<1>9. CASE Locked(i, queued) /\ job' = Settled(Enqueued(job, i, "llm"), i, "score", "done")
  <2>1. queued \in ItemRow /\ queued.key = items[i].key /\ queued.scan = items[i].scan /\ RouteOK(queued) /\ (RowIs(i, queued) => FinalAt(i))
    BY <1>2, <1>4, SameIsKept DEF Unharmed
  <2>2. RowIs(i, queued) /\ run' \in Run /\ run'.st # "queued" /\ held' = held
    BY <1>1, <1>9, <2>1, LockedIs
  <2> QED
    BY <1>0, <1>1, <1>4, <1>9, <2>1, <2>2, ChainGood
<1>10. CASE Locked(i, Routed(skipped, "failed")) /\ Ends(i, "score", "done")
  <2> DEFINE q == Routed(skipped, "failed")
  <2>1. Drafted(i, skipped) /\ skipped.eval = items[i].eval
    BY <1>4, UnharmedIsDrafted
  <2>2. /\ q \in ItemRow /\ RouteOK(q) /\ Kept(q, items[i]) /\ q.key = items[i].key /\ q.scan = items[i].scan
        /\ q.st = skipped.st /\ q.cand = items[i].cand /\ q.eval = skipped.eval
    BY <1>2, <2>1, RoutedItem
  <2> QED
    BY <1>4, <1>6, <1>10, <2>1, <2>2
<1> QED
  BY <1>5, <1>7, <1>8, <1>9, <1>10

-----------------------------------------------------------------------------
(* The evaluation by the LLM.                                               *)

(* A transaction of an evaluation: a job's own, or one of a call that has   *)
(* lost its lease.                                                          *)
LEMMA LlmUnlocked ==
  ASSUME ScreeningInv, NEW i \in Item, NEW k \in {"llm", "late"},
         NEW r \in ItemRow, NEW out \in {"done", "retry", "owner", "transient", "technical"}, Unlocked(i, k, r, out),
         Free(i), IF k = "late" THEN late[i] # 0 ELSE job[i]["llm"].st = "running",
         objs' = objs, fin' = fin, RestTyped, \A j \in Item : j = i \/ late'[j] = late[j],
         r.key = items[i].key, r.scan = items[i].scan, r.st = items[i].st, r.cand = items[i].cand,
         RouteOK(r), Kept(r, items[i]), items[i].cand = "blocked" => r.eval = items[i].eval
  PROVE  Good(i)
<1>1. k \in Kinds \cup {"late"} /\ "llm" \in Kinds /\ out \in Outs \cup {"infected"} /\ out # "infected" /\ k # "parse"
  BY DEF Kinds, Outs
<1>2. run.st # "queued" /\ items[i].st # "absent"
  BY <1>1, Started
<1>3. out \notin IF k \in {"llm", "late"} THEN {"none", "recoverable", "permanent", "infected"} ELSE {"none", "technical"}
  OBVIOUS
<1>4. k # "late" => job[i][k].st = "running"
  OBVIOUS
<1> QED
  BY <1>1, <1>2, <1>3, <1>4, UnlockedGood

LEMMA LlmSame ==
  ASSUME ScreeningInv, NEW i \in Item, NEW k \in {"llm", "late"},
         NEW r, Unharmed(i, r), NEW out \in {"done", "retry", "owner", "transient", "technical"}, Unlocked(i, k, r, out),
         Free(i), IF k = "late" THEN late[i] # 0 ELSE job[i]["llm"].st = "running",
         objs' = objs, fin' = fin, RestTyped, \A j \in Item : j = i \/ late'[j] = late[j], r.st = items[i].st
  PROVE  Good(i)
<1>1. RouteOK(items[i])
  BY ItemFacts
<1>2. /\ r \in ItemRow /\ r.key = items[i].key /\ r.scan = items[i].scan /\ r.cand = items[i].cand /\ r.eval = items[i].eval
      /\ Kept(r, items[i]) /\ RouteOK(r)
  BY <1>1, SameIsKept DEF Unharmed
<1> QED
  BY <1>2, LlmUnlocked

LEMMA LlmRouted ==
  ASSUME ScreeningInv, NEW i \in Item, NEW k \in {"llm", "late"},
         NEW s, Drafted(i, s), NEW ai \in {"failed", "high", "low"}, ai # "failed" => s.eval # "none",
         NEW out \in {"done", "retry", "owner", "transient", "technical"}, Unlocked(i, k, Routed(s, ai), out),
         Free(i), IF k = "late" THEN late[i] # 0 ELSE job[i]["llm"].st = "running",
         objs' = objs, fin' = fin, RestTyped, \A j \in Item : j = i \/ late'[j] = late[j],
         s.st = items[i].st, items[i].cand = "blocked" => s.eval = items[i].eval
  PROVE  Good(i)
<1> DEFINE q == Routed(s, ai)
<1>1. RouteOK(items[i])
  BY ItemFacts
<1>2. /\ q \in ItemRow /\ RouteOK(q) /\ Kept(q, items[i]) /\ q.key = items[i].key /\ q.scan = items[i].scan
      /\ q.st = s.st /\ q.cand = items[i].cand /\ q.eval = s.eval
  BY <1>1, RoutedItem
<1> QED
  BY <1>2, LlmUnlocked

LEMMA SkippedItem ==
  ASSUME ScreeningTypeOK, NEW i \in Item
  PROVE  Unharmed(i, Skipped(items[i])) /\ Skipped(items[i]).st = items[i].st
<1>1. items[i] \in ItemRow /\ "skipped" \in Evaluations
  BY ScreenTypes DEF Evaluations
<1>2. Skipped(items[i]) = Evaluated(items[i], "skipped", FALSE)
  BY DEF Skipped, Evaluated
<1>3. \A again \in BOOLEAN : /\ Evaluated(items[i], "skipped", again) \in ItemRow
                             /\ Evaluated(items[i], "skipped", again).st = items[i].st /\ Same(Evaluated(items[i], "skipped", again), items[i])
  BY <1>1, EvaluatedFields
<1>4. FALSE \in BOOLEAN
  OBVIOUS
<1> QED
  BY <1>2, <1>3, <1>4 DEF Unharmed

LEMMA LlmBeginGood ==
  ASSUME ScreeningInv, NEW i \in Item, LlmBegin(i)
  PROVE  Good(i)
<1>0. "llm" \in Kinds /\ {"begin", "call"} \subseteq Points \ {"none", "settle", "infected"}
      /\ {"done", "technical"} \subseteq Outs /\ "running" \in Evaluations
  BY DEF Kinds, Points, Outs, Evaluations
<1>1. /\ Free(i) /\ job[i]["llm"].st = "running" /\ items[i] \in ItemRow /\ ScreeningTypeOK /\ items[i].st # "absent"
      /\ UNCHANGED <<objs, fin, late, tally>> /\ RestTyped
  BY <1>0, HandlerAt DEF LlmBegin
<1> DEFINE s == Skipped(items[i])
<1>2. Unharmed(i, s) /\ s.st = items[i].st /\ Drafted(i, s) /\ s.eval = items[i].eval
  BY <1>1, SkippedItem, UnharmedIsDrafted
<1>3. ASSUME NEW out \in {"done", "technical"}, Ends(i, "llm", out), UNCHANGED <<run, items, held>>
      PROVE  Good(i)
  <2>1. out \in Outs /\ out # "none" /\ out \notin {"recoverable", "permanent"}
    BY <1>0, <1>3
  <2> QED
    BY <1>0, <1>1, <1>3, <2>1, EndGood
<1>4. CASE Unlocked(i, "llm", s, "done")
  BY <1>1, <1>2, <1>4, LlmSame
<1>5. CASE Unlocked(i, "llm", Routed(s, "failed"), "done")
  BY <1>1, <1>2, <1>5, LlmRouted
<1>6. CASE items' = [items EXCEPT ![i].llm = "running"] /\ Go(i, "llm", "call") /\ UNCHANGED <<run, held>>
  <2> DEFINE r == Called(items[i], "running")
  <2>1. r \in ItemRow /\ r.st = items[i].st /\ Same(r, items[i])
    BY <1>0, <1>1, CalledFields
  <2>2. items' = [items EXCEPT ![i] = r]
    BY <1>6 DEF Called
  <2> HIDE DEF r
  <2>3. RowIs(i, r) /\ Unharmed(i, r)
    BY <1>1, <2>1, <2>2, RowPut DEF Unharmed
  <2> QED
    BY <1>1, <1>6, <2>1, <2>3, RuleGoes
<1> HIDE DEF s
<1>7. \/ \E out \in {"done", "technical"} : Ends(i, "llm", out) /\ UNCHANGED <<run, items, held>>
      \/ Unlocked(i, "llm", s, "done")
      \/ Unlocked(i, "llm", Routed(s, "failed"), "done")
      \/ items' = [items EXCEPT ![i].llm = "running"] /\ Go(i, "llm", "call") /\ UNCHANGED <<run, held>>
  BY DEF LlmBegin, s
<1> QED
  BY <1>3, <1>4, <1>5, <1>6, <1>7

LEMMA CallingFacts ==
  ASSUME ScreeningInv, NEW i \in Item, NEW k \in {"llm", "late"}, Calling(i, k), CallOver(i, k),
         UNCHANGED <<objs, fin, tally>>
  PROVE  /\ Free(i) /\ (IF k = "late" THEN late[i] # 0 ELSE job[i]["llm"].st = "running")
         /\ RestTyped /\ \A j \in Item : j = i \/ late'[j] = late[j]
         /\ ScreeningTypeOK /\ items[i] \in ItemRow /\ run.st # "queued" /\ items[i].st # "absent"
<1>1. ScreeningTypeOK /\ items[i] \in ItemRow /\ "llm" \in Kinds
  BY ItemFacts DEF Kinds
<1>2. Free(i) /\ (IF k = "late" THEN late[i] # 0 ELSE job[i]["llm"].st = "running")
  BY DEF Calling, At
<1>3. late' \in {late, [late EXCEPT ![i] = 0]}
  BY DEF CallOver
<1>4. late \in [Item -> 0..MaxTry]
  BY <1>1, RestKept
<1>5. job[i]["llm"].st = "running" \/ late[i] # 0
  BY <1>2
<1>6. run.st # "queued" /\ items[i].st # "absent"
  BY <1>1, <1>5, Started
<1>7. 0 \in 0..MaxTry
  BY ScreeningAssumption
<1>8. late' \in [Item -> 0..MaxTry] /\ \A j \in Item : j = i \/ late'[j] = late[j]
  BY <1>3, <1>4, <1>7
<1> QED
  BY <1>1, <1>2, <1>6, <1>8, RestKept DEF RestTyped

(* The transaction of a call that writes nothing.                           *)
LEMMA DroppedGood ==
  ASSUME ScreeningInv, NEW i \in Item, NEW k \in {"llm", "late"},
         Calling(i, k), CallOver(i, k), UNCHANGED <<objs, fin, tally>>, Dropped(i, k)
  PROVE  Good(i)
<1>1. /\ Free(i) /\ (IF k = "late" THEN late[i] # 0 ELSE job[i]["llm"].st = "running")
      /\ RestTyped /\ \A j \in Item : j = i \/ late'[j] = late[j]
      /\ ScreeningTypeOK /\ items[i] \in ItemRow /\ run.st # "queued" /\ items[i].st # "absent"
  BY CallingFacts
<1>2. CASE k = "llm"
  <2>1. "llm" \in Kinds /\ "done" \in Outs /\ Ends(i, "llm", "done") /\ UNCHANGED <<run, items, held>>
    BY <1>2 DEF Kinds, Outs, Dropped
  <2> QED
    BY <1>1, <1>2, <2>1, EndGood
<1>3. CASE k = "late"
  <2>1. UNCHANGED <<run, items, job, held>>
    BY <1>3 DEF Dropped
  <2>2. /\ Named(items[i], objs[i]) /\ FileAt(job[i]["parse"].pc, items[i], objs[i]) /\ RouteOK(items[i])
        /\ (Waiting(items[i]) => ToParse(i)) /\ \A l \in Kinds : JobFine(l, job[i][l])
    BY ItemFacts
  <2>3. ScreeningTypeOK'
    BY <1>1, <2>1, RestKept, TypesNext
  <2>4. Elsewhere(i) /\ FinalAt(i) /\ ~held'[i].open
    BY <1>1, <2>1 DEF Elsewhere, FinalAt, Free
  <2>5. items'[i].cand # "blocked" /\ items'[i].st \in {"parsing", "queued"} => ToParse(i)'
    BY <1>1, <2>1, <2>2 DEF Waiting, ToParse, Working
  <2> QED
    BY <1>1, <2>1, <2>2, <2>3, <2>4, <2>5, FreeGood
<1> QED
  BY <1>2, <1>3

LEMMA DiscardGood ==
  ASSUME ScreeningInv, NEW i \in Item, NEW k \in {"llm", "late"},
         Calling(i, k), CallOver(i, k), UNCHANGED <<objs, fin, tally>>, Discard(i, k)
  PROVE  Good(i)
<1>1. /\ Free(i) /\ (IF k = "late" THEN late[i] # 0 ELSE job[i]["llm"].st = "running")
      /\ RestTyped /\ \A j \in Item : j = i \/ late'[j] = late[j]
      /\ ScreeningTypeOK
  BY CallingFacts
<1>2. CASE Dropped(i, k)
  BY <1>2, DroppedGood
<1>3. CASE Unlocked(i, k, Skipped(items[i]), "done")
  BY <1>1, <1>3, SkippedItem, LlmSame
<1> QED
  BY <1>2, <1>3 DEF Discard

LEMMA LlmAnswerGood ==
  ASSUME ScreeningInv, NEW i \in Item, NEW k \in {"llm", "late"}, NEW res \in {"high", "low"},
         LlmAnswer(i, k, res)
  PROVE  Good(i)
<1> DEFINE s == Answered(items[i], res)
<1>1. /\ Calling(i, k) /\ CallOver(i, k) /\ UNCHANGED <<objs, fin, tally>>
      /\ \/ Discard(i, k)
         \/ ~Blocked(i) /\ Unlocked(i, k, Routed(s, res), "done")
  BY DEF LlmAnswer, Answered
<1>2. /\ Free(i) /\ (IF k = "late" THEN late[i] # 0 ELSE job[i]["llm"].st = "running")
      /\ RestTyped /\ \A j \in Item : j = i \/ late'[j] = late[j]
      /\ ScreeningTypeOK /\ items[i] \in ItemRow
  BY <1>1, CallingFacts
<1>3. /\ s \in ItemRow /\ s.st = items[i].st /\ s.eval = res /\ SameFile(s, items[i])
      /\ s.stage = items[i].stage /\ s.bulk = items[i].bulk /\ s.route = items[i].route /\ s.task = items[i].task
      /\ s.pool = items[i].pool /\ s.cand = items[i].cand
  BY <1>2, AnsweredFields
<1> HIDE DEF s
<1>4. Drafted(i, s) /\ s.eval # "none"
  BY <1>3 DEF Drafted
<1>5. CASE Discard(i, k)
  BY <1>1, <1>5, DiscardGood
<1>6. CASE ~Blocked(i) /\ Unlocked(i, k, Routed(s, res), "done")
  <2>1. items[i].cand # "blocked"
    BY <1>6 DEF Blocked
  <2> QED
    BY <1>1, <1>2, <1>3, <1>4, <1>6, <2>1, LlmRouted
<1> QED
  BY <1>1, <1>5, <1>6

LEMMA LlmErrorGood ==
  ASSUME ScreeningInv, NEW i \in Item, NEW k \in {"llm", "late"}, NEW transient \in BOOLEAN,
         LlmError(i, k, transient)
  PROVE  Good(i)
<1> DEFINE n == IF k = "late" THEN late[i] ELSE job[i]["llm"].n
           retryable == transient /\ n < MaxTry /\ items[i].stage # "ended"
           llm == IF retryable THEN "queued" ELSE "failed"
           again == transient /\ ~retryable
           out == IF transient THEN "transient" ELSE "technical"
           s == Evaluated(items[i], llm, again)
<1>1. /\ Calling(i, k) /\ CallOver(i, k) /\ UNCHANGED <<objs, fin, tally>>
      /\ \/ Discard(i, k)
         \/ Unlocked(i, k, s, "retry")
         \/ Unlocked(i, k, Routed(s, "failed"), out)
  BY DEF LlmError, Evaluated
<1>2. /\ Free(i) /\ (IF k = "late" THEN late[i] # 0 ELSE job[i]["llm"].st = "running")
      /\ RestTyped /\ \A j \in Item : j = i \/ late'[j] = late[j]
      /\ ScreeningTypeOK /\ items[i] \in ItemRow
  BY <1>1, CallingFacts
<1>3. llm \in Evaluations /\ again \in BOOLEAN /\ out \in {"transient", "technical"}
  BY DEF Evaluations
<1> HIDE DEF llm, again, out
<1>4. Unharmed(i, s) /\ s.st = items[i].st
  BY <1>2, <1>3, EvaluatedFields DEF Unharmed
<1> HIDE DEF s
<1>5. Drafted(i, s) /\ s.eval = items[i].eval
  BY <1>4, UnharmedIsDrafted
<1>6. CASE Discard(i, k)
  BY <1>1, <1>6, DiscardGood
<1>7. CASE Unlocked(i, k, s, "retry")
  BY <1>1, <1>2, <1>4, <1>7, LlmSame
<1>8. CASE Unlocked(i, k, Routed(s, "failed"), out)
  BY <1>1, <1>2, <1>3, <1>4, <1>5, <1>8, LlmRouted
<1> QED
  BY <1>1, <1>6, <1>7, <1>8

LEMMA LostTally ==
  ASSUME ScreeningTypeOK, tally.lost < MaxLost, tally' = [tally EXCEPT !.lost = @ + 1]
  PROVE  tally' \in [gen : [Item -> Gens], lost : 0..MaxLost]
  BY RestKept, ScreeningAssumption

LEMMA OwnerUnavailableGood ==
  ASSUME ScreeningInv, NEW i \in Item, NEW k \in Kinds, OwnerUnavailable(i, k)
  PROVE  Good(i)
<1>0. Kinds = {"parse", "score", "llm"} /\ {"store", "score", "call"} \subseteq Points \ {"none"} /\ "owner" \in Outs
      /\ "queued" \in Evaluations
  BY DEF Kinds, Points, Outs, Evaluations
<1>1. ScreeningTypeOK /\ items[i] \in ItemRow
  BY ItemFacts
<1>2. UNCHANGED <<objs, fin, late>> /\ tally.lost < MaxLost /\ tally' = [tally EXCEPT !.lost = @ + 1]
  BY DEF OwnerUnavailable
<1>3. RestTyped
  BY <1>1, <1>2, LostTally, RestKept DEF RestTyped
<1> DEFINE r == Called(items[i], "queued")
<1>4. \/ (\E pc \in {"store", "score", "call"} : At(i, k, pc)) /\ Ends(i, k, "owner") /\ UNCHANGED <<run, items, held>>
      \/ k = "llm" /\ At(i, "llm", "call") /\ Unlocked(i, "llm", r, "owner")
  BY DEF OwnerUnavailable, Called
<1>5. CASE (\E pc \in {"store", "score", "call"} : At(i, k, pc)) /\ Ends(i, k, "owner") /\ UNCHANGED <<run, items, held>>
  <2>1. Free(i) /\ job[i][k].st = "running"
    BY <1>5 DEF At
  <2> QED
    BY <1>0, <1>2, <1>3, <1>5, <2>1, EndGood
<1>6. CASE k = "llm" /\ At(i, "llm", "call") /\ Unlocked(i, "llm", r, "owner")
  <2>1. Free(i) /\ job[i]["llm"].st = "running"
    BY <1>6 DEF At
  <2>2. Unharmed(i, r) /\ r.st = items[i].st
    BY <1>0, <1>1, CalledFields DEF Unharmed
  <2> QED
    BY <1>2, <1>3, <1>6, <2>1, <2>2, LlmSame
<1> QED
  BY <1>4, <1>5, <1>6

(* A transaction that touches no job.                                       *)
LEMMA RowGood ==
  ASSUME ScreeningInv, NEW i \in Item, NEW s \in ItemRow, RowIs(i, s), Free(i), items[i].st # "absent", run.st # "queued",
         UNCHANGED <<objs, job, held>>, run' \in Run, run'.st # "queued", RestTyped,
         \A j \in Item : j = i \/ (late'[j] = late[j] /\ fin'[j] = fin[j]),
         s.st = items[i].st, s.cand = items[i].cand, s.key = items[i].key, s.scan = items[i].scan, s.eval = items[i].eval,
         Kept(s, items[i]), RouteOK(s)
  PROVE  Good(i)
<1>1. /\ Named(items[i], objs[i]) /\ FileAt(job[i]["parse"].pc, items[i], objs[i]) /\ ScreeningTypeOK
      /\ (Waiting(items[i]) => ToParse(i)) /\ \A l \in Kinds : JobFine(l, job[i][l])
  BY ItemFacts
<1>2. ScreeningTypeOK'
  BY <1>1, RestKept, TypesNext DEF RowIs
<1>3. Elsewhere(i) /\ FinalAt(i) /\ ~held'[i].open /\ items'[i] = s
  BY DEF Elsewhere, FinalAt, Kept, RowIs, Free
<1>4. s.cand # "blocked" /\ s.st \in {"parsing", "queued"} => ToParse(i)'
  BY <1>1 DEF Waiting, ToParse, Working
<1>5. Named(s, objs[i]) /\ FileAt(job[i]["parse"].pc, s, objs[i])
  BY <1>1 DEF Named, FileAt
<1> QED
  BY <1>1, <1>2, <1>3, <1>4, <1>5, FreeGood

LEMMA FinSet ==
  ASSUME ScreeningTypeOK, NEW i \in Item, NEW g \in Gens, NEW v \in {"done", "lost"}, fin' = [fin EXCEPT ![i][g] = v],
         late' = late, tally' \in [gen : [Item -> Gens], lost : 0..MaxLost]
  PROVE  RestTyped /\ \A j \in Item : j = i \/ (late'[j] = late[j] /\ fin'[j] = fin[j])
<1>1. fin \in [Item -> [Gens -> {"none", "route", "transient", "technical", "done", "lost"}]] /\ late \in [Item -> 0..MaxTry]
  BY RestKept
<1> QED
  BY <1>1 DEF RestTyped

LEMMA FinalizeLlmGood ==
  ASSUME ScreeningInv, NEW i \in Item, NEW g \in Gens, FinalizeLlm(i, g)
  PROVE  Good(i)
<1>1. ScreeningTypeOK /\ items[i] \in ItemRow /\ RouteOK(items[i]) /\ run \in Run
  BY ItemFacts
<1> DEFINE again == fin[i][g] = "transient"
           r == Evaluated(items[i], "failed", again)
<1>2. /\ Free(i) /\ fin[i][g] # "none" /\ fin' = [fin EXCEPT ![i][g] = "done"] /\ UNCHANGED <<objs, job, late, tally>>
      /\ \/ UNCHANGED <<run, items, held>>
         \/ Locked(i, r)
         \/ Locked(i, Routed(r, "failed"))
  BY DEF FinalizeLlm, Evaluated
<1>3. RestTyped /\ \A j \in Item : j = i \/ (late'[j] = late[j] /\ fin'[j] = fin[j])
  BY <1>1, <1>2, FinSet, RestKept
<1>4. run.st # "queued" /\ items[i].st # "absent"
  BY <1>2, Started
<1>5. again \in BOOLEAN /\ "failed" \in Evaluations
  BY DEF Evaluations
<1> HIDE DEF again
<1>6. Unharmed(i, r) /\ r.st = items[i].st
  BY <1>1, <1>5, EvaluatedFields DEF Unharmed
<1> HIDE DEF r
<1>7. CASE UNCHANGED <<run, items, held>>
  <2>1. RowIs(i, items[i]) /\ Kept(items[i], items[i])
    BY <1>1, <1>7, RowPut DEF Kept
  <2> QED
    BY <1>1, <1>2, <1>3, <1>4, <1>7, <2>1, RowGood
<1>8. ASSUME NEW s \in ItemRow, Locked(i, s), s.st = items[i].st, s.cand = items[i].cand, s.key = items[i].key,
             s.scan = items[i].scan, s.eval = items[i].eval, Kept(s, items[i]), RouteOK(s)
      PROVE  Good(i)
  <2>1. RowIs(i, s) /\ run' \in Run /\ run'.st # "queued" /\ held' = held
    BY <1>1, <1>8, LockedIs
  <2> QED
    BY <1>2, <1>3, <1>4, <1>8, <2>1, RowGood
<1>9. CASE Locked(i, r)
  <2>1. r \in ItemRow /\ r.cand = items[i].cand /\ r.key = items[i].key /\ r.scan = items[i].scan /\ r.eval = items[i].eval
        /\ Kept(r, items[i]) /\ RouteOK(r)
    BY <1>1, <1>6, SameIsKept DEF Unharmed
  <2> QED
    BY <1>6, <1>8, <1>9, <2>1
<1>10. CASE Locked(i, Routed(r, "failed"))
  <2> DEFINE q == Routed(r, "failed")
  <2>1. Drafted(i, r) /\ r.eval = items[i].eval
    BY <1>6, UnharmedIsDrafted
  <2>2. /\ q \in ItemRow /\ RouteOK(q) /\ Kept(q, items[i]) /\ q.key = items[i].key /\ q.scan = items[i].scan
        /\ q.st = r.st /\ q.cand = items[i].cand /\ q.eval = r.eval
    BY <1>1, <2>1, RoutedItem
  <2> QED
    BY <1>6, <1>8, <1>10, <2>1, <2>2
<1> QED
  BY <1>2, <1>7, <1>9, <1>10

LEMMA FinalizerDiesGood ==
  ASSUME ScreeningInv, NEW i \in Item, NEW g \in Gens, FinalizerDies(i, g)
  PROVE  Good(i)
<1>1. ScreeningTypeOK /\ items[i] \in ItemRow /\ RouteOK(items[i]) /\ run \in Run
  BY ItemFacts
<1>2. /\ Free(i) /\ fin[i][g] \in {"route", "transient"} /\ fin' = [fin EXCEPT ![i][g] = "lost"]
      /\ UNCHANGED <<run, items, objs, job, held, late>> /\ tally.lost < MaxLost /\ tally' = [tally EXCEPT !.lost = @ + 1]
  BY DEF FinalizerDies, Disposition
<1>3. RestTyped /\ \A j \in Item : j = i \/ (late'[j] = late[j] /\ fin'[j] = fin[j])
  BY <1>1, <1>2, FinSet, LostTally
<1>4. run.st # "queued" /\ items[i].st # "absent"
  BY <1>2, Started
<1>5. RowIs(i, items[i]) /\ Kept(items[i], items[i])
  BY <1>1, <1>2, RowPut DEF Kept
<1> QED
  BY <1>1, <1>2, <1>3, <1>4, <1>5, RowGood

(* A user asks for another attempt.                                         *)
LEMMA AgainGood ==
  ASSUME ScreeningInv, NEW i \in Item, NEW k \in Kinds, NEW r, Unharmed(i, r),
         Free(i), tally.gen[i] <= MaxRetry, Locked(i, r),
         job' = [job EXCEPT ![i][k] = Fresh], tally' = [tally EXCEPT !.gen[i] = @ + 1],
         UNCHANGED <<objs, fin, late>>, items[i].st \notin {"absent", "queued"}, r.st # "absent",
         r.st \in {"parsing", "queued"} => k = "parse"
  PROVE  Good(i)
<1>1. /\ ScreeningTypeOK /\ job \in [Item -> Slots] /\ RouteOK(items[i]) /\ Named(items[i], objs[i])
      /\ FileAt(job[i]["parse"].pc, items[i], objs[i])
  BY ItemFacts
<1>2. run.st # "queued"
  BY Started
<1>3. r \in ItemRow
  BY DEF Unharmed
<1>4. RowIs(i, r) /\ run' \in Run /\ run'.st # "queued" /\ held' = held
  BY <1>1, <1>3, LockedIs
<1>5. JobIs(i, k, "queued", 0, "none", "none")
  <2>1. 0 \in 0..MaxTry
    BY ScreeningAssumption
  <2> QED
    BY <1>1, <2>1, FreshIs
<1>6. tally' \in [gen : [Item -> Gens], lost : 0..MaxLost]
  <2>1. tally \in [gen : [Item -> Gens], lost : 0..MaxLost]
    BY <1>1, RestKept
  <2>2. tally.gen[i] + 1 \in Gens
    BY <2>1, ScreeningAssumption DEF Gens
  <2> QED
    BY <2>1, <2>2
<1>7. RestTyped /\ ObjsIs(i) /\ objs'[i] = objs[i]
  BY <1>1, <1>6, RestKept DEF RestTyped, ObjsIs
<1>8. /\ Named(r, objs'[i]) /\ RouteOK(r) /\ FinalAt(i)
      /\ FileAt(IF k = "parse" THEN "none" ELSE job[i]["parse"].pc, r, objs'[i])
  <2>1. /\ Named(r, objs'[i]) /\ RouteOK(r) /\ FinalAt(i) /\ FileAt(job[i]["parse"].pc, r, objs'[i])
    BY <1>1, <1>4, <1>7, SameIsKept
  <2>2. FileAt("none", r, objs'[i])
    BY DEF FileAt
  <2> QED
    BY <2>1, <2>2
<1>9. 0 < MaxTry
  BY ScreeningAssumption
<1> QED
  BY <1>2, <1>3, <1>4, <1>5, <1>7, <1>8, <1>9, MoveGood

LEMMA RetryLlmGood ==
  ASSUME ScreeningInv, NEW i \in Item, RetryLlm(i)
  PROVE  Good(i)
<1>1. ScreeningTypeOK /\ items[i] \in ItemRow /\ "llm" \in Kinds /\ "queued" \in Evaluations
  BY ItemFacts DEF Kinds, Evaluations
<1> DEFINE r(again) == Evaluated(items[i], "queued", again)
<1>2. \A again \in BOOLEAN : Unharmed(i, r(again)) /\ r(again).st = items[i].st
  BY <1>1, EvaluatedFields DEF Unharmed
<1>3. FALSE \in BOOLEAN /\ Locked(i, r(FALSE))
  BY DEF RetryLlm, Evaluated
<1>4. PICK again \in BOOLEAN : Locked(i, r(again))
  BY <1>3
<1>5. /\ Free(i) /\ tally.gen[i] <= MaxRetry /\ items[i].st = "scored" /\ UNCHANGED <<objs, fin, late>>
      /\ job' = [job EXCEPT ![i]["llm"] = Fresh] /\ tally' = [tally EXCEPT !.gen[i] = @ + 1]
  BY DEF RetryLlm
<1> HIDE DEF r
<1> QED
  BY <1>1, <1>2, <1>4, <1>5, AgainGood

LEMMA RetryRuleGood ==
  ASSUME ScreeningInv, NEW i \in Item, RetryRule(i)
  PROVE  Good(i)
<1> DEFINE k == IF items[i].stage # "none" THEN "score" ELSE "parse"
           st == IF k = "score" THEN "parsed" ELSE "queued"
           r == Marked(items[i], st, "none")
<1>1. ScreeningTypeOK /\ k \in Kinds /\ st \in States /\ "none" \in Codes
  BY ItemFacts DEF Kinds, States, Codes
<1>2. Unharmed(i, r) /\ r.st = st
  BY <1>1, UnharmedMarked
<1>3. /\ Free(i) /\ tally.gen[i] <= MaxRetry /\ items[i].st = "failed" /\ UNCHANGED <<objs, fin, late>>
      /\ job' = [job EXCEPT ![i][k] = Fresh] /\ tally' = [tally EXCEPT !.gen[i] = @ + 1]
      /\ Locked(i, r)
  BY DEF RetryRule, Marked
<1> HIDE DEF r
<1> QED
  BY <1>1, <1>2, <1>3, AgainGood


-----------------------------------------------------------------------------
(* The steps of a run that need not have started, and those about many      *)
(* items.                                                                   *)

Settles == ScreeningInv' /\ \A j \in Item : FinalAt(j)

LEMMA Unmoved ==
  ASSUME items' = items
  PROVE  \A j \in Item : FinalAt(j)
  BY DEF FinalAt

LEMMA ObjectSettles ==
  ASSUME ScreeningInv, NEW i \in Item, items[i].st = "absent", NEW S \in SUBSET {"quarantine"},
         objs' = [objs EXCEPT ![i] = S], UNCHANGED <<run, items, job, fin, held, late, tally>>
  PROVE  Settles
<1>1. ScreeningTypeOK /\ RunOK /\ RestTyped
  BY RestKept DEF ScreeningInv
<1>2. objs' \in [Item -> SUBSET {"quarantine", "clean"}] /\ objs'[i] = S /\ \A j \in Item \ {i} : objs'[j] = objs[j]
  <2>1. objs \in [Item -> SUBSET {"quarantine", "clean"}]
    BY <1>1, RestKept
  <2> QED
    BY <2>1
<1>3. ScreeningTypeOK'
  <2>1. /\ run \in Run /\ items \in [Item -> ItemRow] /\ job \in [Item -> Slots]
        /\ held \in [Item -> Tx \cup {NotHeld}]
    BY <1>1, RestKept
  <2> QED
    BY <1>1, <1>2, <2>1, TypesNext
<1>4. RunOK'
  BY <1>1 DEF RunOK
<1>5. ASSUME NEW j \in Item PROVE ItemOK(j)'
  <2>1. ItemOK(j)
    BY DEF ScreeningInv
  <2>2. ItemJobOK(j)' /\ DrivenOK(j)' /\ RouteHolds(j)'
    BY <2>1 DEF ItemOK, ItemJobOK, DrivenOK, Waiting, ToParse, Working,
                RouteHolds, RouteOK
  <2>3. CASE j # i
    BY <1>2, <2>1, <2>2, <2>3 DEF ItemOK, FileOK, Named
  <2>4. CASE j = i
    <3>1. job[i]["parse"].pc = "none" /\ ~held[i].open
      BY <2>1, <2>4 DEF ItemOK, FileOK, Kinds, NoJob
    <3>2. FileOK(i)'
      BY <1>2, <2>1, <2>4, <3>1 DEF ItemOK, FileOK, Named
    <3> QED
      BY <2>2, <2>4, <3>2 DEF ItemOK
  <2> QED
    BY <2>3, <2>4
<1> QED
  BY <1>3, <1>4, <1>5, Unmoved DEF Settles, ScreeningInv

LEMMA PutObjectSettles ==
  ASSUME ScreeningInv, NEW i \in Item, PutObject(i)
  PROVE  Settles
  BY ObjectSettles DEF PutObject

LEMMA RefuseItemSettles ==
  ASSUME ScreeningInv, NEW i \in Item, RefuseItem(i)
  PROVE  Settles
  BY ObjectSettles DEF RefuseItem

(* The item is stored where its object was put.                             *)
LEMMA AcceptItemSettles ==
  ASSUME ScreeningInv, NEW i \in Item, AcceptItem(i)
  PROVE  Settles
<1>1. /\ ScreeningTypeOK /\ RunOK /\ ItemOK(i) /\ items[i] \in ItemRow /\ run \in Run
  BY ItemFacts DEF ScreeningInv
<1> DEFINE r == [items[i] EXCEPT !.st = "queued"]
           started == [run EXCEPT !.total = @ + 1]
<1>2. /\ items[i].st = "absent" /\ objs[i] # {} /\ run.st = "queued" /\ items' = [items EXCEPT ![i] = r] /\ run' = started
      /\ UNCHANGED <<objs, job, fin, held, late, tally>>
  BY DEF AcceptItem
<1>3. r \in ItemRow /\ r.st = "queued" /\ Same(r, items[i])
  BY <1>1, StatedRow DEF States
<1> HIDE DEF r
<1>4. /\ items[i] = NoItemRow /\ objs[i] \subseteq {"quarantine"} /\ ~held[i].open
      /\ job[i] = [k \in Kinds |-> NoJob]
  BY <1>1, <1>2 DEF ItemOK, FileOK
<1>5. started \in Run /\ started.st = "queued" /\ started.total # 0
  BY <1>1, <1>2 DEF Run
<1> HIDE DEF started
<1>6. items' \in [Item -> ItemRow] /\ items'[i] = r /\ \A j \in Item \ {i} : items'[j] = items[j]
  <2>1. items \in [Item -> ItemRow]
    BY <1>1, RestKept
  <2> QED
    BY <1>2, <1>3, <2>1
<1>7. ScreeningTypeOK'
  <2>1. /\ objs \in [Item -> SUBSET {"quarantine", "clean"}] /\ job \in [Item -> Slots]
        /\ held \in [Item -> Tx \cup {NotHeld}] /\ RestTyped
    BY <1>1, <1>2, RestKept
  <2> QED
    BY <1>2, <1>5, <1>6, <2>1, TypesNext
<1>8. RunOK'
  BY <1>1, <1>2, <1>3, <1>5, <1>6 DEF RunOK
<1>9. ASSUME NEW j \in Item PROVE ItemOK(j)' /\ FinalAt(j)
  <2>1. ItemOK(j)
    BY DEF ScreeningInv
  <2>2. ItemJobOK(j)'
    BY <1>2, <2>1 DEF ItemOK, ItemJobOK
  <2>3. CASE j # i
    <3>1. FileOK(j)' /\ DrivenOK(j)' /\ RouteHolds(j)'
      BY <1>2, <1>5, <1>6, <2>1, <2>3 DEF ItemOK, FileOK, Named, DrivenOK, Waiting,
           ToParse, Working, RouteHolds, RouteOK
    <3> QED
      BY <1>6, <2>2, <2>3, <3>1 DEF ItemOK, FinalAt
  <2>4. CASE j = i
    <3>1. job[i]["parse"].pc = "none"
      BY <1>4 DEF Kinds, NoJob
    <3>2. r.key = "quarantine" /\ RouteOK(r) /\ r.cand = "absent"
      BY <1>3, <1>4 DEF Same, SameFile, SamePlace, NoItemRow, RouteOK
    <3>3. FileOK(i)'
      BY <1>2, <1>3, <1>4, <1>6, <3>1, <3>2 DEF FileOK, Named
    <3>4. DrivenOK(i)' /\ RouteHolds(i)'
      BY <1>2, <1>3, <1>4, <1>5, <1>6, <3>2 DEF DrivenOK, Waiting, RouteHolds
    <3>5. FinalAt(i)
      BY <1>4 DEF FinalAt, NoItemRow
    <3> QED
      BY <2>2, <2>4, <3>3, <3>4, <3>5 DEF ItemOK
  <2> QED
    BY <2>3, <2>4
<1> QED
  BY <1>7, <1>8, <1>9 DEF Settles, ScreeningInv

(* Every item of a run that starts is given its parse job.                  *)
LEMMA StartRunSettles ==
  ASSUME ScreeningInv, StartRun
  PROVE  Settles
<1>1. ScreeningTypeOK /\ RunOK /\ run \in Run /\ job \in [Item -> Slots]
  BY RestKept DEF ScreeningInv
<1> DEFINE started == [run EXCEPT !.st = "parsing"]
           fresh == [st |-> "queued", n |-> 0, pc |-> "none", out |-> "none"]
<1>2. /\ run.st = "queued" /\ run' = started /\ UNCHANGED <<items, objs, fin, held, late, tally>>
      /\ job' = [i \in Item |-> IF items[i].st = "queued" THEN [job[i] EXCEPT !["parse"] = Fresh] ELSE job[i]]
  BY DEF StartRun
<1>3. started \in Run /\ started.st = "parsing"
  BY <1>1 DEF Run
<1> HIDE DEF started
<1>4. Fresh = fresh /\ fresh \in Job /\ 0 < MaxTry
  BY ScreeningAssumption DEF Fresh, NoJob, Job, Outs
<1> HIDE DEF fresh
<1>5. /\ job' \in [Item -> Slots]
      /\ \A j \in Item : /\ \A k \in Kinds : k # "parse" => job'[j][k] = job[j][k]
                         /\ IF items[j].st = "queued" THEN job'[j]["parse"] = fresh ELSE job'[j] = job[j]
  BY <1>1, <1>2, <1>4 DEF Slots, Kinds
<1>6. ScreeningTypeOK'
  <2>1. /\ objs \in [Item -> SUBSET {"quarantine", "clean"}] /\ items \in [Item -> ItemRow]
        /\ held \in [Item -> Tx \cup {NotHeld}] /\ RestTyped
    BY <1>1, <1>2, RestKept
  <2> QED
    BY <1>2, <1>3, <1>5, <2>1, TypesNext
<1>7. RunOK'
  BY <1>1, <1>2, <1>3 DEF RunOK
<1>8. ASSUME NEW j \in Item PROVE ItemOK(j)'
  <2>1. ItemOK(j) /\ ~held[j].open /\ items[j].st \in {"absent", "queued"}
    BY <1>1, <1>2 DEF ScreeningInv, RunOK
  <2>2. JobFine("parse", fresh) /\ fresh.pc = "none" /\ fresh.st = "queued"
    BY <1>4 DEF JobFine, fresh
  <2>3. "parse" \in Kinds /\ \A k \in Kinds : JobFine(k, job'[j][k])
    BY <1>5, <2>1, <2>2, JobParts DEF ItemOK, Kinds
  <2>4. ItemJobOK(j)'
    BY <1>2, <2>1, <2>3 DEF ItemJobOK, JobFine
  <2>5. FileOK(j)'
    BY <1>2, <1>5, <2>1, <2>2 DEF ItemOK, FileOK, Named
  <2>6. DrivenOK(j)'
    BY <1>2, <1>5, <2>1, <2>2 DEF DrivenOK, Waiting, ToParse, Working
  <2>7. RouteHolds(j)'
    BY <1>2, <2>1 DEF ItemOK, RouteHolds, RouteOK
  <2> QED
    BY <2>4, <2>5, <2>6, <2>7 DEF ItemOK
<1> QED
  BY <1>2, <1>6, <1>7, <1>8, Unmoved DEF Settles, ScreeningInv

LEMMA CancelRunSettles ==
  ASSUME ScreeningInv, CancelRun
  PROVE  Settles
<1>1. ScreeningTypeOK /\ RunOK /\ run \in Run
  BY RestKept DEF ScreeningInv
<1> DEFINE ended == [run EXCEPT !.st = "cancelled"]
<1>2. /\ run.st = "queued" /\ run.total = 0 /\ run' = ended /\ UNCHANGED <<items, objs, job, fin, held, late, tally>>
  BY DEF CancelRun
<1>3. ended \in Run /\ ended.st = "cancelled"
  BY <1>1 DEF Run, RunEnds
<1> HIDE DEF ended
<1>4. ScreeningTypeOK'
  <2>1. /\ objs \in [Item -> SUBSET {"quarantine", "clean"}] /\ items \in [Item -> ItemRow] /\ job \in [Item -> Slots]
        /\ held \in [Item -> Tx \cup {NotHeld}] /\ RestTyped
    BY <1>1, <1>2, RestKept
  <2> QED
    BY <1>2, <1>3, <2>1, TypesNext
<1>5. RunOK'
  BY <1>1, <1>2, <1>3 DEF RunOK
<1>6. ASSUME NEW j \in Item PROVE ItemOK(j)'
  <2>1. ItemOK(j) /\ items[j].st = "absent" /\ ~held[j].open
    BY <1>1, <1>2 DEF ScreeningInv, RunOK
  <2> QED
    BY <1>2, <2>1 DEF ItemOK, ItemJobOK, FileOK, Named, DrivenOK, Waiting,
                      RouteHolds, RouteOK
<1> QED
  BY <1>2, <1>4, <1>5, <1>6, Unmoved DEF Settles, ScreeningInv

(* Commands that move applications and leave the pipeline alone.            *)
OnlyMoved(j) ==
  /\ ~held[j].open /\ items[j].st # "absent" /\ SameFile(items'[j], items[j]) /\ items'[j].st = items[j].st
  /\ items[j].cand = "blocked" => items'[j].cand = "blocked"
  /\ RouteOK(items'[j]) /\ FinalAt(j)

LEMMA RowsSettle ==
  ASSUME ScreeningInv, items' \in [Item -> ItemRow], UNCHANGED <<run, objs, job, fin, held, late, tally>>,
         \A j \in Item : items'[j] = items[j] \/ OnlyMoved(j)
  PROVE  Settles
<1>1. ScreeningTypeOK /\ RunOK
  BY DEF ScreeningInv
<1>2. ScreeningTypeOK'
  <2>1. /\ objs \in [Item -> SUBSET {"quarantine", "clean"}] /\ run \in Run /\ job \in [Item -> Slots]
        /\ held \in [Item -> Tx \cup {NotHeld}] /\ RestTyped
    BY <1>1, RestKept
  <2> QED
    BY <2>1, TypesNext
<1>3. \A j \in Item : items'[j].st = items[j].st
  BY DEF OnlyMoved
<1>4. RunOK'
  BY <1>1, <1>3 DEF RunOK
<1>5. ASSUME NEW j \in Item PROVE ItemOK(j)' /\ FinalAt(j)
  <2>1. ItemOK(j)
    BY DEF ScreeningInv
  <2>2. ItemJobOK(j)'
    BY <2>1 DEF ItemOK, ItemJobOK
  <2>3. CASE items'[j] = items[j]
    BY <2>1, <2>2, <2>3 DEF ItemOK, FileOK, Named, DrivenOK, Waiting,
           ToParse, Working, RouteHolds, RouteOK, FinalAt
  <2>4. CASE items'[j] # items[j]
    <3>1. /\ ~held[j].open /\ items[j].st # "absent" /\ SameFile(items'[j], items[j]) /\ items'[j].st = items[j].st
          /\ items[j].cand = "blocked" => items'[j].cand = "blocked"
          /\ RouteOK(items'[j]) /\ FinalAt(j)
      BY <2>4 DEF OnlyMoved
    <3>2. FileOK(j)'
      BY <2>1, <3>1 DEF ItemOK, FileOK, Named, SameFile
    <3>3. DrivenOK(j)'
      BY <2>1, <3>1 DEF ItemOK, DrivenOK, Waiting, ToParse, Working
    <3>4. RouteHolds(j)'
      BY <3>1 DEF RouteHolds, RouteOK
    <3> QED
      BY <2>2, <3>1, <3>2, <3>3, <3>4 DEF ItemOK
  <2> QED
    BY <2>3, <2>4
<1> QED
  BY <1>2, <1>4, <1>5 DEF Settles, ScreeningInv

LEMMA BulkSettles ==
  ASSUME ScreeningInv, NEW S \in SUBSET Item, NEW cmd \in {"advance", "undo", "reject"}, Bulk(S, cmd)
  PROVE  Settles
<1> DEFINE Moved(r) == CASE cmd = "advance" -> [r EXCEPT !.stage = "review", !.bulk = r.stage = "new"]
                         [] cmd = "undo" -> [r EXCEPT !.stage = "new", !.bulk = FALSE]
                         [] cmd = "reject" -> [r EXCEPT !.stage = "ended"]
           Fits(i) == CASE cmd = "advance" -> items[i].stage \in {"new", "review"}
                        [] cmd = "undo" -> items[i].stage = "review" /\ items[i].bulk
                        [] cmd = "reject" -> items[i].stage # "ended"
<1>1. /\ \A i \in S : ~held[i].open /\ items[i].st = "scored" /\ Fits(i)
      /\ items' = [i \in Item |-> IF i \in S THEN Moved(items[i]) ELSE items[i]]
      /\ UNCHANGED <<run, objs, job, fin, held, late, tally>>
  BY DEF Bulk, Free
<1>2. ASSUME NEW r \in ItemRow, RouteOK(r),
             CASE cmd = "advance" -> r.stage \in {"new", "review"}
               [] cmd = "undo" -> r.stage = "review" /\ r.bulk
               [] cmd = "reject" -> r.stage # "ended"
      PROVE  /\ Moved(r) \in ItemRow /\ SameFile(Moved(r), r) /\ Moved(r).st = r.st /\ Moved(r).cand = r.cand
             /\ Moved(r).eval = r.eval /\ RouteOK(Moved(r)) /\ r.stage # "ended"
  <2>1. CASE cmd = "advance"
    <3> DEFINE q(b) == Placed(r, "review", b)
    <3>1. (r.stage = "new" => r.task = "none") /\ r.stage \in {"new", "review"}
      BY <1>2, <2>1 DEF RouteOK
    <3>2. Moved(r) = q(r.stage = "new") /\ (r.stage = "new") \in BOOLEAN
      BY <2>1 DEF Placed
    <3>3. \A b \in BOOLEAN : /\ q(b) \in ItemRow /\ SameFile(q(b), r) /\ q(b).st = r.st /\ q(b).route = r.route
                            /\ q(b).task = r.task /\ q(b).pool = r.pool /\ q(b).eval = r.eval /\ q(b).cand = r.cand
                            /\ q(b).stage = "review" /\ q(b).bulk = b
      BY PlacedFields
    <3>4. PICK b \in BOOLEAN : Moved(r) = q(b) /\ (b => r.task = "none")
      <4> HIDE DEF q, Moved
      <4> QED
        BY <3>1, <3>2
    <3> HIDE DEF q, Moved
    <3> QED
      BY <1>2, <3>1, <3>3, <3>4 DEF RouteOK
  <2>2. CASE cmd = "undo"
    <3> DEFINE q == Placed(r, "new", FALSE)
    <3>1. Moved(r) = q /\ r.stage = "review" /\ r.bulk
      BY <1>2, <2>2 DEF Placed
    <3>2. /\ q \in ItemRow /\ SameFile(q, r) /\ q.st = r.st /\ q.route = r.route /\ q.task = r.task
          /\ q.pool = r.pool /\ q.eval = r.eval /\ q.cand = r.cand /\ q.stage = "new" /\ q.bulk = FALSE
      BY PlacedFields
    <3> HIDE DEF q, Moved
    <3> QED
      BY <1>2, <3>1, <3>2 DEF RouteOK
  <2>3. CASE cmd = "reject"
    <3> DEFINE q == [r EXCEPT !.stage = "ended"]
    <3>1. Moved(r) = q /\ r.stage # "ended"
      BY <1>2, <2>3
    <3>2. /\ q \in ItemRow /\ SameFile(q, r) /\ q.st = r.st /\ q.route = r.route /\ q.task = r.task
          /\ q.pool = r.pool /\ q.eval = r.eval /\ q.cand = r.cand /\ q.stage = "ended" /\ q.bulk = r.bulk
      BY RejectedRow
    <3> HIDE DEF q, Moved
    <3> QED
      BY <1>2, <3>1, <3>2 DEF RouteOK
  <2> QED
    BY <2>1, <2>2, <2>3
<1> HIDE DEF Moved
<1>3. items \in [Item -> ItemRow]
  BY RestKept DEF ScreeningInv
<1>4. \A i \in S : /\ Moved(items[i]) \in ItemRow /\ SameFile(Moved(items[i]), items[i]) /\ Moved(items[i]).st = items[i].st
                   /\ Moved(items[i]).cand = items[i].cand /\ Moved(items[i]).eval = items[i].eval
                   /\ RouteOK(Moved(items[i])) /\ items[i].stage # "ended"
  <2> SUFFICES ASSUME NEW i \in S
               PROVE  /\ Moved(items[i]) \in ItemRow /\ SameFile(Moved(items[i]), items[i]) /\ Moved(items[i]).st = items[i].st
                      /\ Moved(items[i]).cand = items[i].cand /\ Moved(items[i]).eval = items[i].eval
                      /\ RouteOK(Moved(items[i])) /\ items[i].stage # "ended"
    OBVIOUS
  <2>1. i \in Item /\ items[i] \in ItemRow /\ RouteOK(items[i])
    BY ItemFacts
  <2>2. Fits(i)
    BY <1>1
  <2> QED
    BY <1>2, <2>1, <2>2
<1>5. items' \in [Item -> ItemRow] /\ \A j \in Item : items'[j] = IF j \in S THEN Moved(items[j]) ELSE items[j]
  BY <1>1, <1>3, <1>4
<1> HIDE DEF Fits
<1>6. ASSUME NEW j \in S PROVE OnlyMoved(j)
  <2>1. j \in Item /\ items'[j] = Moved(items[j]) /\ ~held[j].open /\ items[j].st = "scored"
    BY <1>1, <1>5
  <2>2. /\ SameFile(Moved(items[j]), items[j]) /\ Moved(items[j]).st = items[j].st /\ Moved(items[j]).cand = items[j].cand
        /\ Moved(items[j]).eval = items[j].eval /\ RouteOK(Moved(items[j])) /\ items[j].stage # "ended"
    BY <1>4
  <2> QED
    BY <2>1, <2>2 DEF FinalAt, OnlyMoved
<1>7. \A j \in Item : items'[j] = items[j] \/ OnlyMoved(j)
  BY <1>5, <1>6
<1> QED
  BY <1>1, <1>5, <1>7, RowsSettle

LEMMA HumanMoveSettles ==
  ASSUME ScreeningInv, NEW i \in Item, HumanMove(i)
  PROVE  Settles
<1> DEFINE r == items[i]
<1>1. items \in [Item -> ItemRow] /\ r \in ItemRow /\ RouteOK(r) /\ FileOK(i)
  BY ItemFacts, RestKept DEF ScreeningInv
<1>2. /\ OnlyEnds(Gone(r), r, "ended", r.cand) /\ OnlyEnds(Taken(r), r, "moved", r.cand)
      /\ OnlyEnds(Barred(r), r, "ended", "blocked")
  BY <1>1, EndedRow
<1>3. UNCHANGED <<run, objs, job, fin, held, late, tally>> /\ ~held[i].open
  BY DEF HumanMove, Free
<1>4. ASSUME NEW q, NEW stage, NEW cand, OnlyEnds(q, r, stage, cand), items' = [items EXCEPT ![i] = q],
             stage \in {"ended", "moved"}, stage = "moved" => r.stage = "review",
             r.cand = "blocked" => cand = "blocked", r.stage # "none" \/ r.cand = "live"
      PROVE  Settles
  <2>1. /\ q \in ItemRow /\ SameFile(q, r) /\ q.st = r.st /\ q.route = r.route /\ q.pool = r.pool
        /\ q.eval = r.eval /\ q.task = "none" /\ q.stage = stage /\ q.cand = cand
    BY <1>4 DEF OnlyEnds
  <2>2. items' \in [Item -> ItemRow] /\ items'[i] = q /\ \A j \in Item \ {i} : items'[j] = items[j]
    BY <1>1, <1>4, <2>1
  <2>3. r.st # "absent"
    BY <1>1, <1>4 DEF FileOK, NoItemRow
  <2>4. RouteOK(q) /\ FinalAt(i)
    BY <1>1, <1>4, <2>1, <2>2 DEF RouteOK, FinalAt
  <2>5. OnlyMoved(i)
    BY <1>3, <1>4, <2>1, <2>2, <2>3, <2>4 DEF OnlyMoved
  <2>6. \A j \in Item : items'[j] = items[j] \/ OnlyMoved(j)
    BY <2>2, <2>5
  <2> QED
    BY <1>3, <2>2, <2>6, RowsSettle
<1>5. \/ r.stage = "review" /\ items' = [items EXCEPT ![i] = Taken(r)]
      \/ r.stage # "none" /\ items' = [items EXCEPT ![i] = Gone(r)]
      \/ r.cand = "live" /\ items' = [items EXCEPT ![i] = Barred(r)]
  BY DEF HumanMove, Gone, Taken, Barred
<1> QED
  BY <1>2, <1>4, <1>5

-----------------------------------------------------------------------------
(* The invariant, and what follows.                                         *)

LEMMA FirstScreening ==
  ASSUME ScreeningInit
  PROVE  ScreeningInv
<1> DEFINE none == [st |-> "none", n |-> 0, pc |-> "none", out |-> "none"]
           first == [st |-> "queued", total |-> 0, done |-> 0, ok |-> 0, bad |-> 0]
<1>1. NoJob = none /\ none \in Job /\ \A k \in Kinds : JobFine(k, none)
  BY ScreeningAssumption DEF NoJob, Job, Outs, JobFine, Kinds
<1>2. first \in Run /\ first.st = "queued"
  BY DEF Run, RunEnds
<1>3. NoItemRow \in ItemRow
  BY DEF NoItemRow, ItemRow, LlmTerminal
<1>4. /\ NoItemRow.st = "absent" /\ RouteOK(NoItemRow)
  BY DEF NoItemRow, RouteOK
<1>5. 1 \in Gens /\ 0 \in 0..MaxTry /\ 0 \in 0..MaxLost
  BY ScreeningAssumption DEF Gens
<1>6. /\ run = first /\ items = [i \in Item |-> NoItemRow] /\ objs = [i \in Item |-> {}]
      /\ job = [i \in Item |-> [k \in Kinds |-> NoJob]]
      /\ fin = [i \in Item |-> [g \in Gens |-> "none"]] /\ held = [i \in Item |-> NotHeld]
      /\ late = [i \in Item |-> 0] /\ tally = [gen |-> [i \in Item |-> 1], lost |-> 0]
  BY DEF ScreeningInit
<1>7. NotHeld.open = FALSE
  BY DEF NotHeld
<1> HIDE DEF none, first
<1>8. job \in [Item -> Slots]
  BY <1>1, <1>6 DEF Slots
<1>9. ScreeningTypeOK
  BY <1>2, <1>3, <1>5, <1>6, <1>8 DEF ScreeningTypeOK, Slots
<1>10. RunOK
  BY <1>4, <1>6, <1>7 DEF RunOK
<1>11. ASSUME NEW i \in Item PROVE ItemOK(i)
  <2>1. ~held[i].open /\ "parse" \in Kinds /\ job[i] = [k \in Kinds |-> NoJob] /\ items[i] = NoItemRow
    BY <1>6, <1>7 DEF Kinds
  <2>2. \A k \in Kinds : job[i][k] = none
    BY <1>1, <2>1
  <2>3. ItemJobOK(i)
    BY <1>1, <2>1, <2>2, JobParts
  <2>4. none.pc = "none"
    BY DEF none
  <2>5. FileOK(i)
    BY <1>4, <1>6, <2>1, <2>2, <2>4 DEF FileOK, Named
  <2>6. DrivenOK(i) /\ RouteHolds(i)
    BY <1>4, <2>1 DEF DrivenOK, Waiting, RouteHolds
  <2> QED
    BY <2>3, <2>5, <2>6 DEF ItemOK
<1> QED
  BY <1>9, <1>10, <1>11 DEF ScreeningInv

LEMMA ScreeningSettles ==
  ASSUME ScreeningInv, ScreeningNext
  PROVE  Settles
<1>1. CASE StartRun
  BY <1>1, StartRunSettles
<1>2. CASE CancelRun
  BY <1>2, CancelRunSettles
<1>3. ASSUME NEW S \in SUBSET Item, NEW cmd \in {"advance", "undo", "reject"}, Bulk(S, cmd)
      PROVE  Settles
  BY <1>3, BulkSettles
<1>4. ASSUME NEW i \in Item, PutObject(i) \/ AcceptItem(i) \/ RefuseItem(i) \/ HumanMove(i)
      PROVE  Settles
  BY <1>4, PutObjectSettles, AcceptItemSettles, RefuseItemSettles, HumanMoveSettles
<1>5. ASSUME NEW i \in Item,
             Commit(i) \/ ParseBegin(i) \/ ScanFile(i) \/ DeleteInfected(i) \/ SwitchKey(i)
      PROVE  Good(i)
  BY <1>5, CommitGood, ParseBeginGood, ScanFileGood, DeleteInfectedGood, SwitchKeyGood
<1>6. ASSUME NEW i \in Item,
             DeleteQuarantined(i) \/ ReadFile(i) \/ StoreParsed(i) \/ ScoreBegin(i) \/ ScoreFails(i)
      PROVE  Good(i)
  BY <1>6, DeleteQuarantinedGood, ReadFileGood, StoreParsedGood, ScoreBeginGood, ScoreFailsGood
<1>7. ASSUME NEW i \in Item, NEW on \in BOOLEAN, StoreScore(i, on)
      PROVE  Good(i)
  BY <1>7, StoreScoreGood
<1>8. ASSUME NEW i \in Item, LlmBegin(i) \/ RetryLlm(i) \/ RetryRule(i)
      PROVE  Good(i)
  BY <1>8, LlmBeginGood, RetryLlmGood, RetryRuleGood
<1>9. ASSUME NEW i \in Item, NEW k \in {"llm", "late"}, NEW res \in {"high", "low"}, LlmAnswer(i, k, res)
      PROVE  Good(i)
  BY <1>9, LlmAnswerGood
<1>10. ASSUME NEW i \in Item, NEW k \in {"llm", "late"}, NEW transient \in BOOLEAN, LlmError(i, k, transient)
       PROVE  Good(i)
  BY <1>10, LlmErrorGood
<1>11. ASSUME NEW i \in Item, NEW k \in Kinds,
              Claim(i, k) \/ Settle(i, k) \/ Lost(i, k) \/ OwnerUnavailable(i, k)
       PROVE  Good(i)
  BY <1>11, ClaimGood, SettleGood, LostGood, OwnerUnavailableGood
<1>12. ASSUME NEW i \in Item, NEW g \in Gens, FinalizeLlm(i, g) \/ FinalizerDies(i, g)
       PROVE  Good(i)
  BY <1>12, FinalizeLlmGood, FinalizerDiesGood
<1>13. ASSUME NEW i \in Item, Good(i) PROVE Settles
  BY <1>13, GoodStep DEF Settles
<1> QED
  BY <1>1, <1>2, <1>3, <1>4, <1>5, <1>6, <1>7, <1>8, <1>9, <1>10, <1>11, <1>12, <1>13 DEF ScreeningNext

LEMMA ScreeningHolds ==
  ASSUME ScreeningInv, [ScreeningNext]_ScreeningVars
  PROVE  Settles
<1>1. CASE ScreeningNext
  BY <1>1, ScreeningSettles
<1>2. CASE UNCHANGED ScreeningVars
  <2>1. UNCHANGED <<run, items, objs, job, fin, held, late, tally>>
    BY <1>2 DEF ScreeningVars
  <2>2. items' \in [Item -> ItemRow]
    BY <2>1, RestKept DEF ScreeningInv
  <2> QED
    BY <2>1, <2>2, RowsSettle
<1> QED
  BY <1>1, <1>2

(* What the database says of an item's file names an object that is there,  *)
(* and the item waits for nobody's parser in vain.                          *)
LEMMA InvariantIsSafe ==
  ASSUME ScreeningInv
  PROVE  ItemSafety
<1>1. ASSUME NEW i \in Item
      PROVE  LET r == Committed[i]
             IN /\ r.st # "absent" /\ r.scan # "rejected" => r.key \in objs[i]
                /\ Waiting(r) => Driven(i)
  <2>1. ItemOK(i) /\ Committed[i] = IF held[i].open THEN held[i].old ELSE items[i]
    BY DEF ScreeningInv, Committed
  <2>2. CASE held[i].open
    BY <2>1, <2>2 DEF ItemOK, FileOK, Named, Driven
  <2>3. CASE ~held[i].open
    <3>1. "parse" \in Kinds /\ (Waiting(items[i]) => ToParse(i))
      BY <2>1 DEF ItemOK, DrivenOK, Kinds
    <3> QED
      BY <2>1, <2>3, <3>1 DEF ItemOK, FileOK, Named, Driven, ToParse, NoActiveJob
  <2> QED
    BY <2>2, <2>3
<1>2. RouteAgrees
  BY DEF ScreeningInv, ItemOK, RouteHolds, RouteOK, RouteAgrees
<1> QED
  BY <1>1, <1>2 DEF ItemSafety, RowNamesObject, WaitingIsDriven

(* Every reachable state of the screening pipeline satisfies its inductive  *)
(* invariant, for any number of files, attempts, retries and losses.        *)
THEOREM ScreeningInvariant == ScreeningSpec => []ScreeningInv
<1>1. ScreeningInit => ScreeningInv
  BY FirstScreening
<1>2. ScreeningInv /\ [ScreeningNext]_ScreeningVars => ScreeningInv'
  BY ScreeningHolds DEF Settles
<1> QED
  BY <1>1, <1>2, PTL DEF ScreeningSpec

(* A crash at any point of scan and promotion leaves the file's row naming  *)
(* an object that is there, and an item of a started run that waits for the *)
(* parser always has something that will act on it (_scan_and_promote,      *)
(* retry_or_finish, finalize_screening_dead_letter). An application is      *)
(* deferred only by a low score and with its membership of the pool, routed *)
(* by a score only with an evaluation on file, and its review task speaks   *)
(* of a failure only while no score has routed it, whoever moves it in      *)
(* between (route_llm_screening_terminal, ensure_review_task).              *)
THEOREM ItemCorrect == ScreeningSpec => []ItemSafety
<1>1. ScreeningSpec => []ScreeningInv
  BY ScreeningInvariant
<1>2. ScreeningInv => ItemSafety
  BY InvariantIsSafe
<1> QED
  BY <1>1, <1>2, PTL

(* No late answer, finalizer or retry routes an application that a person   *)
(* has ended, and nothing new is stored of a blocked candidate              *)
(* (route_llm_screening_terminal, _discard_for_deletion).                   *)
THEOREM EndedCorrect == ScreeningSpec => EndedIsFinal
<1> DEFINE Final == \A i \in Item :
       /\ items[i].stage = "ended" =>
            /\ items'[i].stage = "ended" /\ items'[i].route = items[i].route
            /\ items'[i].task \in {items[i].task, "none"} /\ items'[i].pool = items[i].pool
       /\ items[i].cand = "blocked" => items'[i].eval = items[i].eval \/ held[i].open
<1>1. ScreeningSpec => []ScreeningInv
  BY ScreeningInvariant
<1>2. ScreeningInv /\ [ScreeningNext]_ScreeningVars => [Final]_ScreeningVars
  BY ScreeningHolds DEF Settles, FinalAt
<1>3. ScreeningSpec => [][Final]_ScreeningVars
  <2> HIDE DEF Final
  <2> QED
    BY <1>1, <1>2, PTL DEF ScreeningSpec
<1> QED
  BY <1>3 DEF EndedIsFinal

=============================================================================
