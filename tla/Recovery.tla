------------------------------ MODULE Recovery ------------------------------
(***************************************************************************)
(* Restore and re-deletion: the composition of the backups with what is    *)
(* done with them.  A restore (deploy/backup/backupctl.py) puts the newest *)
(* ledger archive and a group into an empty plane with traffic closed; the *)
(* recovery (server/app/governance/recovery.py) then deletes again whoever *)
(* the ledger says was deleted after the cutoff, one checkpoint and one    *)
(* queue job for each; the drill's protocol asks for it, waits for         *)
(* evidence and writes that the plane is verified.  Traffic stays closed.  *)
(*                                                                         *)
(* The jobs are leased (JobQueue), so a handler whose lease is lost goes   *)
(* on in its thread while another one works at the same checkpoint; each   *)
(* checkpoint has two threads for that.  A restore is the end of the plane *)
(* that was backed up; one that fails starts again with new volumes.       *)
(***************************************************************************)
EXTENDS Backup

CONSTANTS
  JobAttempts,  \* max_attempts of a job
  MaxCalls      \* bound on the calls of the recovery command

ASSUME RecoveryAssumption == {JobAttempts, MaxCalls} \subseteq Nat \ {0}

VARIABLES
  restore,  \* the restore evidence
  drill,    \* what the protocol has been told and has written
  asked,    \* recovery commands past their first look at the database
  calls,
  run,      \* deletion_recovery_runs, Nothing until prepared
  point,    \* deletion_recovery_checkpoints, with their jobs
  redone,   \* deletion_requests, from when the recovery rewrites them
  thread    \* handlers: what each does next

planeVars == <<restore, drill, asked, calls>>
recoveryVars == <<planeVars, run, point, redone, thread>>
RecoveryVars == <<backupVars, recoveryVars>>

RestoreEvidence == [step : {"none", "ledger", "database", "objects", "done"},
                    of : Runs \cup {Nothing}, cutoff : Times]
DrillEvidence == [prepared : 0..Cardinality(Applicants), attested : 0..Cardinality(Applicants),
                  verdict : {"none", "verified", "failed"}]
Threads == {1, 2}
RecoveryRun == [status : {"queued", "running", "completed", "failed"},
                count : 0..Cardinality(Applicants)]
Checkpoint == [status : {"none", "pending", "running", "completed", "failed"},
               target : 0..3, job : {"none", "queued", "leased", "done", "dead"},
               owner : Threads \cup {Nothing}, attempts : 0..JobAttempts]
Redeletion == [status : {"restored", "executing", "completed"},
               generation : 0..3, file : {"none", "pending", "deleted"}]
Thread == [pc : {"idle", "read", "remove", "mark", "redact", "count", "commit", "end"},
           others : 0..Cardinality(Applicants)]
Idle == [pc |-> "idle", others |-> 0]

(* Nor is a run none. *)
ASSUME NoneAssumption == Nothing \notin RecoveryRun

RecoveryInit ==
  /\ BackupInit
  /\ restore = [step |-> "none", of |-> Nothing, cutoff |-> 0]
  /\ drill = [prepared |-> 0, attested |-> 0, verdict |-> "none"]
  /\ asked = 0 /\ calls = 0 /\ run = Nothing
  /\ point = [c \in Applicants |-> [status |-> "none", target |-> 0, job |-> "none",
                                    owner |-> Nothing, attempts |-> 0]]
  /\ redone = [c \in Applicants |->
                 [status |-> "restored", generation |-> 0, file |-> "none"]]
  /\ thread = [c \in Applicants |-> [t \in Threads |-> Idle]]

-----------------------------------------------------------------------------
(* The restore: ledger, database, objects.  Each step may fail, which      *)
(* leaves the evidence at "started".                                       *)

NewestArchive == Max(Archived)

Selected(r) ==
  r \in Points /\ Archived # {} /\ ValidArchive(NewestArchive, groups[r].cutoff)

BeginRestore(r) ==
  /\ restore.step # "done" /\ r \in Points
  /\ restore' = [step |-> "ledger", of |-> r, cutoff |-> groups[r].cutoff]
  /\ row' = [c \in Applicants |-> NewRow] /\ objects' = {}
  /\ ledger' = [c \in Applicants |-> Nothing]
  /\ clock' = LastTime /\ sched' = Nothing /\ fresh' = Nothing /\ plan' = {}
  /\ UNCHANGED <<key, stores, drill, asked, calls, run, point, redone, thread>>

Restoring(step, next) ==
  /\ restore.step = step /\ restore' = [restore EXCEPT !.step = next]
  /\ UNCHANGED <<clock, key, sched, fresh, plan, drill, asked, calls, run, point, redone, thread>>

RestoreLedger ==
  /\ Restoring("ledger", "database") /\ Selected(restore.of)
  /\ ledger' = archives[NewestArchive].entries
  /\ UNCHANGED <<row, objects, stores>>

LedgerProven == ledger = archives[NewestArchive].entries

RestoreDatabase ==
  /\ Restoring("database", "objects") /\ LedgerProven
  /\ row' = groups[restore.of].rows
  /\ UNCHANGED <<objects, ledger, stores>>

(* What the stores hold is of no more interest. *)
RestoreObjects ==
  /\ Restoring("objects", "done")
  /\ objects' = groups[restore.of].objects
  /\ archives' = [q \in Runs |-> Nothing] /\ groups' = [q \in Runs |-> Nothing]
  /\ UNCHANGED <<row, ledger>>

-----------------------------------------------------------------------------
(* The recovery command, and the protocol around it.                       *)

RestoreBinding == restore.step = "done"

Applicable == {c \in Applicants : ledger[c] # Nothing /\ ledger[c].at > restore.cutoff}

Present == {c \in Applicants : row[c].kind # "none"}

(* Old evidence is unlinked first. *)
Ask ==
  /\ RestoreBinding /\ calls < MaxCalls
  /\ calls' = calls + 1
  /\ drill' = [drill EXCEPT !.attested = 0, !.verdict = IF run = Nothing THEN @ ELSE "failed"]
  /\ asked' = IF run = Nothing THEN asked + 1 ELSE asked
  /\ UNCHANGED <<backupVars, restore, run, point, redone, thread>>

Prepared(c) ==
  [point[c] EXCEPT !.status = "pending", !.target = redone[c].generation + 1, !.job = "queued"]

(* Whoever of two commands is second finds the run and prepares nothing; a *)
(* candidate the restored database does not know refuses the whole run.    *)
(* A command that prepares nothing fails its drill.                        *)
Prepare ==
  /\ asked > 0 /\ asked' = asked - 1
  /\ IF run = Nothing /\ Applicable \subseteq Present
     THEN /\ run' = [status |-> IF Applicable = {} THEN "completed" ELSE "queued", count |-> 0]
          /\ point' = [c \in Applicants |-> IF c \in Applicable THEN Prepared(c) ELSE point[c]]
          /\ drill' = IF Applicable = {} THEN [drill EXCEPT !.verdict = "failed"]
                      ELSE [drill EXCEPT !.prepared = Cardinality(Applicable)]
     ELSE /\ drill' = [drill EXCEPT !.verdict = "failed"]
          /\ UNCHANGED <<run, point>>
  /\ UNCHANGED <<backupVars, restore, calls, redone, thread>>

(* The released worker command attests what the run has come to. *)
Attest ==
  /\ run # Nothing /\ run.status = "completed" /\ drill.prepared > 0 /\ drill.attested = 0
  /\ drill' = [drill EXCEPT !.attested = run.count]
  /\ UNCHANGED <<backupVars, restore, asked, calls, run, point, redone, thread>>

EvidenceHolds == RestoreBinding /\ drill.attested > 0

Verdict(verified) ==
  /\ drill' = [drill EXCEPT !.verdict = IF verified THEN "verified" ELSE "failed"]
  /\ UNCHANGED <<backupVars, restore, asked, calls, run, point, redone, thread>>

(* The protocol's end, with evidence or for the want of it. *)
Accept == drill.prepared > 0 /\ drill.verdict = "none"
          /\ Verdict(EvidenceHolds /\ drill.attested = drill.prepared)

(* The gate can be asked again, of the evidence alone; it writes nothing   *)
(* when that does not hold.                                                *)
TrafficGate == drill.verdict # "verified" /\ EvidenceHolds /\ Verdict(TRUE)

Protocol == Ask \/ Prepare \/ Attest \/ Accept \/ TrafficGate

-----------------------------------------------------------------------------
(* The queue's side of a checkpoint's job.                                 *)

Owns(c, t) == point[c].job = "leased" /\ point[c].owner = t
RunLocked(c) == \E t \in Threads : thread[c][t].pc = "commit"

Claim(c, t) ==
  /\ point[c].job = "queued" /\ thread[c][t] = Idle
  /\ point' = [point EXCEPT ![c].job = "leased", ![c].owner = t, ![c].attempts = @ + 1]
  /\ thread' = [thread EXCEPT ![c][t].pc = "read"]
  /\ UNCHANGED <<backupVars, planeVars, run, redone>>

(* Mutant: the finalizer leaves the checkpoint as the attempt left it. *)
FinalizedRunOnly(c) == UNCHANGED run /\ point' = [point EXCEPT ![c].job = "dead", ![c].owner = Nothing]

(* The dead letter fails the checkpoint and its run. *)
Finalized(c) ==
  LET open == point[c].status # "completed" IN
  /\ point' = [point EXCEPT ![c].job = "dead", ![c].owner = Nothing,
                            ![c].status = IF open THEN "failed" ELSE @]
  /\ run' = IF open THEN [run EXCEPT !.status = "failed"] ELSE run

Retried(c) ==
  IF point[c].attempts < JobAttempts
  THEN point' = [point EXCEPT ![c].job = "queued", ![c].owner = Nothing] /\ UNCHANGED run
  ELSE ~RunLocked(c) /\ Finalized(c)

LoseLease(c) ==
  /\ point[c].job = "leased" /\ Retried(c)
  /\ UNCHANGED <<backupVars, planeVars, redone, thread>>

(* An attempt that ends: the queue hears of it only from the lease's owner. *)
EndAttempt(c, t, outcome) ==
  /\ thread' = [thread EXCEPT ![c][t] = Idle]
  /\ IF ~Owns(c, t) THEN UNCHANGED <<point, run>>
     ELSE CASE outcome = "retry" -> Retried(c)
            [] outcome = "fail"  -> ~RunLocked(c) /\ Finalized(c)
            [] outcome = "done"  -> /\ point' = [point EXCEPT ![c].job = "done", ![c].owner = Nothing]
                                    /\ UNCHANGED run
  /\ UNCHANGED <<backupVars, planeVars, redone>>

(* The ledger, a store or the database does not answer. *)
Outage(c, t) ==
  thread[c][t].pc \in {"read", "remove", "mark", "redact", "count"} /\ EndAttempt(c, t, "retry")

-----------------------------------------------------------------------------
(* The handler.                                                            *)

Go(c, t, pc) == thread' = [thread EXCEPT ![c][t] = [pc |-> pc, others |-> 0]]

Resumable(c) ==
  redone[c].status = "executing" /\ redone[c].generation = point[c].target

(* Deviation: a new generation takes the restored artifacts as deleted.     *)
RewrittenAsDeleted(c) ==
  IF Resumable(c) THEN redone[c]
  ELSE [status |-> "executing", generation |-> point[c].target, file |-> "deleted"]

Rewritten(c) ==
  IF Resumable(c) THEN redone[c]
  ELSE [status |-> "executing", generation |-> point[c].target, file |-> "pending"]

BeginDeletion(c, t) ==
  /\ thread[c][t].pc = "read" /\ ~RunLocked(c)
  /\ IF point[c].status = "completed" THEN EndAttempt(c, t, "done")
     ELSE /\ redone' = [redone EXCEPT ![c] = Rewritten(c)]
          /\ point' = [point EXCEPT ![c].status = "running"]
          /\ run' = [run EXCEPT !.status = "running"]
          /\ Go(c, t, "remove")
          /\ UNCHANGED <<backupVars, planeVars>>

RemoveFile(c, t) ==
  /\ thread[c][t].pc = "remove"
  /\ IF redone[c].file = "deleted" THEN Go(c, t, "redact") /\ UNCHANGED objects
     ELSE Go(c, t, "mark") /\ objects' = objects \ {c}
  /\ UNCHANGED <<clock, row, ledger, key, stores, sched, fresh, plan>>
  /\ UNCHANGED <<planeVars, run, point, redone>>

MarkDeleted(c, t) ==
  /\ thread[c][t].pc = "mark"
  /\ redone' = [redone EXCEPT ![c].file = "deleted"]
  /\ Go(c, t, "redact")
  /\ UNCHANGED <<backupVars, planeVars, run, point>>

(* The frozen routine takes the candidate at the version the manifest names, *)
(* or at the next one when it is redacted already.                           *)
Redactable(c) ==
  /\ redone[c].status = "executing"
  /\ row[c].version = ledger[c].approved + (IF row[c].kind = "redacted" THEN 1 ELSE 0)

RedactAgain(c, t) ==
  /\ thread[c][t].pc = "redact"
  /\ IF Redactable(c)
     THEN /\ row' = [row EXCEPT ![c] = Redacted(@, ledger[c].approved, clock)]
          /\ Go(c, t, "count")
          /\ UNCHANGED <<clock, objects, ledger, key, stores, sched, fresh, plan>>
          /\ UNCHANGED <<planeVars, run, point, redone>>
     ELSE EndAttempt(c, t, "fail")

(* The completing transaction counts the other checkpoints as they are     *)
(* committed; it holds its own checkpoint's lock from here, not the run's. *)
Count(c, t) ==
  /\ thread[c][t].pc = "count" /\ ~RunLocked(c)
  /\ thread' = [thread EXCEPT ![c][t] =
       [pc |-> "commit",
        others |-> Cardinality({d \in Applicants \ {c} : point[d].status = "completed"})]]
  /\ UNCHANGED <<backupVars, planeVars, run, point, redone>>

Total == Cardinality({c \in Applicants : point[c].status # "none"})

Complete(c, t) ==
  /\ thread[c][t].pc = "commit"
  /\ LET done == thread[c][t].others + 1 IN
       run' = [status |-> IF done = Total THEN "completed" ELSE run.status, count |-> done]
  /\ redone' = [redone EXCEPT ![c].status = "completed"]
  /\ point' = [point EXCEPT ![c].status = "completed"]
  /\ Go(c, t, "end")
  /\ UNCHANGED <<backupVars, planeVars>>

(* The queue hears of the end in a transaction of its own. *)
Finish(c, t) == thread[c][t].pc = "end" /\ EndAttempt(c, t, "done")

Handle(c, t) ==
  \/ BeginDeletion(c, t) \/ RemoveFile(c, t) \/ MarkDeleted(c, t) \/ RedactAgain(c, t)
  \/ Count(c, t) \/ Complete(c, t) \/ Finish(c, t)

(* A thread whose process dies; if it held a transaction, that is undone. *)
Die(c, t) ==
  /\ thread[c][t] # Idle
  /\ thread' = [thread EXCEPT ![c][t] = Idle]
  /\ UNCHANGED <<backupVars, planeVars, run, point, redone>>

Produce == restore.step = "none" /\ BackupNext /\ UNCHANGED recoveryVars

Job(c) ==
  LoseLease(c) \/ \E t \in Threads : Claim(c, t) \/ Handle(c, t) \/ Outage(c, t) \/ Die(c, t)

RecoveryNext ==
  \/ Produce \/ \E r \in Runs : BeginRestore(r)
  \/ RestoreLedger \/ RestoreDatabase \/ RestoreObjects
  \/ Protocol \/ \E c \in Applicants : Job(c)

(* Workers run, the queue takes back what is not renewed, and a command    *)
(* that was begun goes on.                                                 *)
RecoveryFairness ==
  /\ WF_RecoveryVars(Prepare)
  /\ \A c \in Applicants :
       /\ WF_RecoveryVars(\E t \in Threads : Claim(c, t))
       /\ WF_RecoveryVars(point[c].job = "leased" /\ thread[c][1] = Idle /\ thread[c][2] = Idle /\ LoseLease(c))
       /\ \A t \in Threads : WF_RecoveryVars(Handle(c, t))

RecoverySpec == RecoveryInit /\ [][RecoveryNext]_RecoveryVars /\ RecoveryFairness

-----------------------------------------------------------------------------
RecoveryTypeOK ==
  /\ BackupTypeOK
  /\ restore \in RestoreEvidence /\ drill \in DrillEvidence
  /\ asked \in 0..MaxCalls /\ calls \in 0..MaxCalls
  /\ run \in RecoveryRun \cup {Nothing}
  /\ point \in [Applicants -> Checkpoint] /\ redone \in [Applicants -> Redeletion]
  /\ thread \in [Applicants -> [Threads -> Thread]]

(* A recovery run that says "completed", and a drill that says "verified", *)
(* have left nothing of anybody the restored ledger names: neither         *)
(* personal data in the database nor a file (recovery.py:466-508 and       *)
(* backupctl.py:1655-1738 over everything from the cutoff on).             *)
RecoveredIsClean ==
  ((run # Nothing /\ run.status = "completed") \/ drill.verdict = "verified") =>
    \A c \in Applicants : ledger[c] # Nothing => row[c].kind = "redacted" /\ c \notin objects

(* However often the command is called and a job is tried, one restore     *)
(* raises the generation of a request once (server/README.md).             *)
GenerationOnce ==
  \A c \in Applicants :
    /\ redone[c].generation <= 1
    /\ point[c].status = "completed" => redone[c].generation = point[c].target

(* What a recovery says it did, it did, and once.                          *)
RecoverySafety == RecoveredIsClean /\ GenerationOnce

(* Every prepared checkpoint ends, completed or failed. *)
RedeletionEnds ==
  \A c \in Applicants :
    (point[c].status = "pending") ~> (point[c].status \in {"completed", "failed"})

(* The deletions a backup is taken beside, and the redeletions after it,    *)
(* keep the order that CandidateDeletion keeps (recovery.py:440-466); but   *)
(* for the restore itself, nothing sets a candidate back.                   *)
Order == INSTANCE Erasure
  WITH People <- Applicants, held <- objects, erased <- {c \in Applicants : row[c].kind = "redacted"},
       version <- [c \in Applicants |-> row[c].version],
       proof <- [c \in Applicants |-> IF ledger[c] = Nothing THEN Nothing ELSE ledger[c].approved]
KeepsOrder ==
  Order!ErasureInit
  /\ [][restore'.step = restore.step => [Order!ErasureNext]_(Order!stores)]_RecoveryVars

(* Not so, and checked by no run (see the README): a recovery run all of   *)
(* whose checkpoints are completed, with no handler left, is completed.    *)
CompletionIsTold ==
  (/\ run # Nothing /\ \A c \in Applicants : point[c].status \in {"none", "completed"}
   /\ \A c \in Applicants, t \in Threads : thread[c][t] = Idle)
    => run.status = "completed"
-----------------------------------------------------------------------------
(* The inductive invariant.                                                *)

Clean(c) == row[c].kind = "redacted" /\ c \notin objects

(* A copy taken after its cutoff knows the deletions up to the cutoff.     *)
RowsReflect(rows, cutoff) ==
  \A c \in Applicants : row[c].kind = "redacted" /\ row[c].at <= cutoff => rows[c].kind = "redacted"
FilesReflect(files, cutoff) ==
  \A c \in Applicants : row[c].kind = "redacted" /\ row[c].at <= cutoff => c \notin files
Recorded(entries) ==
  \A c \in Applicants : entries[c] # Nothing => row[c].kind = "redacted" /\ row[c].at = entries[c].at

(* The candidates, while people work: a deletion takes the file first.     *)
WorkOK ==
  \A c \in Applicants :
    /\ c \in objects => row[c].kind = "live"
    /\ row[c].kind # "redacted" => row[c].version <= 2
    /\ row[c].kind = "erasing" => row[c].approved = row[c].version
    /\ row[c].kind = "redacted" => row[c].approved \in 1..2

CopiesOK ==
  /\ clock >= 1 /\ Recorded(ledger)
  /\ \A q \in Archived : Recorded(archives[q].entries)
  /\ \A r \in Points : /\ groups[r].cutoff < clock
                       /\ RowsReflect(groups[r].rows, groups[r].cutoff)
                       /\ FilesReflect(groups[r].objects, groups[r].cutoff)
  /\ Alive => /\ sched.cutoff < clock /\ FilesReflect(sched.objects, sched.cutoff)
              /\ sched.stage \notin {"ledger_publish", "dump"} =>
                   sched.rows \in Rows /\ RowsReflect(sched.rows, sched.cutoff)

(* Whatever archive and group are restored together: whom the archive says *)
(* was deleted before the cutoff, the group does not bring back.           *)
CopiesAgree ==
  \A q \in Archived, r \in Points, c \in Applicants :
    archives[q].entries[c] # Nothing /\ archives[q].entries[c].at <= groups[r].cutoff =>
      groups[r].rows[c].kind = "redacted" /\ c \notin groups[r].objects

RestoreOK ==
  /\ restore.step \in {"ledger", "database", "objects"} =>
       restore.of \in Points /\ restore.cutoff = groups[restore.of].cutoff
  /\ restore.step \in {"database", "objects"} => \E q \in Archived : ledger = archives[q].entries
  /\ restore.step = "objects" => row = groups[restore.of].rows
  /\ restore.step = "done" =>
       \A c \in Applicants : ledger[c] # Nothing /\ ledger[c].at <= restore.cutoff => Clean(c)
  /\ restore.step # "done" => run = Nothing /\ asked = 0

Others(c) == {d \in Applicants \ {c} : point[d].status = "completed"}

ThreadOK(c, t) ==
  /\ thread[c][t].pc \notin {"idle", "read"} => redone[c].generation = 1
  /\ thread[c][t].pc \in {"mark", "redact"} => c \notin objects
  /\ thread[c][t].pc \in {"count", "commit", "end"} => Clean(c)
  /\ thread[c][t].pc = "commit" => thread[c][t].others <= Cardinality(Others(c))

Untouched(c) ==
  /\ point[c].status = "none" /\ point[c].job = "none" /\ point[c].attempts = 0
  /\ redone[c].generation = 0 /\ redone[c].file = "none" /\ \A t \in Threads : thread[c][t] = Idle

PointOK(c) ==
  /\ point[c].status # "none" /\ point[c].target = 1 /\ redone[c].generation \in {0, 1}
  /\ point[c].job = "queued" => point[c].attempts < JobAttempts
  /\ redone[c].file = "deleted" => c \notin objects
  /\ point[c].status = "completed" => Clean(c) /\ redone[c].generation = 1
  /\ \A t \in Threads : ThreadOK(c, t)

Claimed ==
  (run # Nothing /\ run.status = "completed") \/ drill.attested > 0 \/ drill.verdict = "verified"

RedeletionOK ==
  /\ \A c \in Applicants : IF run # Nothing /\ c \in Applicable THEN PointOK(c) ELSE Untouched(c)
  /\ Claimed => run # Nothing /\ \A c \in Applicable : point[c].status = "completed"
  /\ asked <= calls

RecoveryInv ==
  /\ RecoveryTypeOK /\ CopiesAgree /\ RestoreOK /\ RedeletionOK
  /\ restore.step = "none" => WorkOK /\ CopiesOK

(* A tombstone is of the version after the approved one, and a restore      *)
(* begins with nobody.                                                      *)
OrderOK ==
  \A c \in Applicants :
    /\ restore.step = "none" /\ row[c].kind = "redacted" => row[c].version = row[c].approved + 1
    /\ restore.step = "ledger" => row[c] = NewRow /\ c \notin objects /\ ledger[c] = Nothing

(* The stores, until a restore ends the plane they were filled from. *)
StoresInv == RecoveryInv /\ IF restore.step = "none" THEN CatalogOK ELSE fresh = Nothing
=============================================================================
