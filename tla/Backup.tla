------------------------------- MODULE Backup -------------------------------
(***************************************************************************)
(* The scheduled backup (deploy/backup): a ledger archive and a dump with  *)
(* its object snapshot are published under one cutoff, fetched again and   *)
(* checked before the freshness state names them; the prune command takes  *)
(* old groups away.  Meanwhile people work, and candidates are deleted:    *)
(* the file goes, then the personal data, then the signed ledger entry is  *)
(* written, each a step (CandidateDeletion has the steps in full).         *)
(*                                                                         *)
(* A published group exists when its COMPLETE does.  The scheduler is the  *)
(* only publisher, so groups are ordered by the number of their run.       *)
(* Clock readings matter only relative to the cutoffs: a run takes the     *)
(* time it starts at, cut down to the second, so the instant before is     *)
(* possible too, and whatever happens later is stamped later.              *)
(***************************************************************************)
EXTENDS Integers, FiniteSets, FiniteSetsExt

CONSTANTS
  Applicants, Nothing,
  Stopped,    \* what pending-run.json says of a run whose process has ended
  Window,     \* backup_window_days
  PageAfter,  \* BACKUP_RPO_PAGE_SECONDS
  LastTime,   \* bound on the clock
  MaxRuns,    \* bound on the scheduled runs
  MaxKeys     \* bound on the versions of the ledger's signing key

ASSUME BackupAssumption ==
  /\ {Window, PageAfter, LastTime, MaxRuns, MaxKeys} \subseteq Nat \ {0}
  /\ PageAfter <= Window /\ Nothing \notin Nat /\ IsFiniteSet(Applicants)

VARIABLES
  clock,
  row,       \* the candidate and its deletion request in the database
  objects,   \* candidates whose file is in the business bucket
  ledger,    \* the entry of the candidate in the ledger bucket
  key,       \* the active version of the ledger's signing key
  archives,  \* complete ledger archives, by run
  groups,    \* complete backup groups, by run
  sched,     \* pending-run.json and what the process of that run holds
  fresh,     \* last-success.json
  plan       \* groups a running prune command is about to delete

data == <<row, objects, ledger>>
stores == <<archives, groups>>
backupVars == <<clock, data, key, stores, sched, fresh, plan>>

Times == 0..LastTime
Runs == 1..MaxRuns

PersonRow == [kind : {"none", "live", "erasing", "redacted"}, version : 1..3,
              approved : 0..2, at : Times]
LedgerEntry == [approved : 1..2, at : Times]
Rows == [Applicants -> PersonRow]
Entries == [Applicants -> LedgerEntry \cup {Nothing}]
LedgerManifest == [cutoff : Times, key : 1..MaxKeys, entries : Entries]
BackupManifest == [cutoff : Times, rows : Rows, objects : SUBSET Applicants]
PendingRun == [run : Runs, cutoff : Times,
               stage : {"ledger_publish", "dump", "snapshot", "business_publish",
                        "business_catalog"},
               rows : Rows \cup {Nothing}, objects : SUBSET Applicants]
FreshnessState == [run : Runs, cutoff : Times, points : 2..MaxRuns]

(* No manifest is none, as no stored file is. *)
ASSUME ManifestAssumption == Nothing \notin LedgerManifest \cup BackupManifest

NewRow == [kind |-> "none", version |-> 1, approved |-> 0, at |-> 0]

BackupInit ==
  /\ clock = 1 /\ key = 1
  /\ \E there \in SUBSET Applicants :
       /\ row = [c \in Applicants |->
                   IF c \in there THEN [NewRow EXCEPT !.kind = "live"] ELSE NewRow]
       /\ objects = there
  /\ ledger = [c \in Applicants |-> Nothing]
  /\ archives = [r \in Runs |-> Nothing] /\ groups = [r \in Runs |-> Nothing]
  /\ sched = Nothing /\ fresh = Nothing /\ plan = {}

-----------------------------------------------------------------------------
(* People, and the worker that deletes candidates.                         *)

Enrol(c) ==
  /\ row[c].kind = "none"
  /\ row' = [row EXCEPT ![c].kind = "live"] /\ objects' = objects \cup {c}
  /\ UNCHANGED ledger

(* Bound: a candidate is corrected once. *)
Correct(c) ==
  /\ row[c].kind = "live" /\ row[c].version = 1
  /\ row' = [row EXCEPT ![c].version = 2]
  /\ UNCHANGED <<objects, ledger>>

EraseFile(c) ==
  /\ row[c].kind = "live"
  /\ row' = [row EXCEPT ![c].kind = "erasing", ![c].approved = row[c].version]
  /\ objects' = objects \ {c}
  /\ UNCHANGED ledger

Redacted(r, approved, now) ==
  IF r.kind = "redacted" THEN r
  ELSE [r EXCEPT !.kind = "redacted", !.version = @ + 1, !.approved = approved, !.at = now]

Redact(c) ==
  /\ row[c].kind = "erasing"
  /\ row' = [row EXCEPT ![c] = Redacted(@, @.approved, clock)]
  /\ UNCHANGED <<objects, ledger>>

Prove(c) ==
  /\ row[c].kind = "redacted" /\ ledger[c] = Nothing
  /\ ledger' = [ledger EXCEPT ![c] = [approved |-> row[c].approved, at |-> row[c].at]]
  /\ UNCHANGED <<row, objects>>

Work(c) == Enrol(c) \/ Correct(c) \/ EraseFile(c) \/ Redact(c) \/ Prove(c)

-----------------------------------------------------------------------------
(* The scheduled run.  A pending run, whatever became of it, refuses the   *)
(* next one.                                                               *)

Alive == sched \notin {Nothing, Stopped}
Running(stage) == Alive /\ sched.stage = stage

Archived == {r \in Runs : archives[r] # Nothing}
Points == {r \in Runs : groups[r] # Nothing}

(* Mutant: the cutoff is read when the manifest is written. *)
LateCutoff == clock

CutoffOfRun == sched.cutoff

Start ==
  /\ sched = Nothing /\ clock < LastTime /\ Archived # Runs
  /\ \E cutoff \in {clock - 1, clock} :
       sched' = [run |-> Cardinality(Archived) + 1, cutoff |-> cutoff, stage |-> "ledger_publish",
                 rows |-> Nothing, objects |-> {}]
  /\ clock' = clock + 1
  /\ UNCHANGED <<data, key, stores, fresh, plan>>

NextStage(stage) == sched' = [sched EXCEPT !.stage = stage]

(* The file keeps one of three states, running, failed and reconciliation  *)
(* required, and all three do the same: no run starts while it is there.   *)
Ended == sched' = Stopped

(* The publisher puts COMPLETE last.  A failure before that commits        *)
(* nothing; from then on its exit code says "unknown" either way; and the  *)
(* process may die before or after.                                        *)
Published(committed, next) == Ended \/ (committed /\ NextStage(next))

(* The archive is taken of the whole ledger bucket, later than the cutoff  *)
(* it carries.                                                             *)
LedgerPublish ==
  /\ Running("ledger_publish")
  /\ \E committed \in BOOLEAN :
       /\ archives' = IF committed
            THEN [archives EXCEPT ![sched.run] =
                    [cutoff |-> CutoffOfRun, key |-> key, entries |-> ledger]]
            ELSE archives
       /\ Published(committed, "dump")
  /\ UNCHANGED <<clock, data, key, groups, fresh, plan>>

(* A ledger group that a reader accepts: signed with the active key and    *)
(* not older than asked for.                                               *)
ValidArchive(r, minimum) ==
  r \in Archived /\ archives[r].key = key /\ archives[r].cutoff >= minimum

(* The run fetches the archive it has just published, and pairs with it.   *)
Dump ==
  /\ Running("dump")
  /\ ValidArchive(sched.run, sched.cutoff)
  /\ sched' = [sched EXCEPT !.stage = "snapshot", !.rows = row]
  /\ UNCHANGED <<clock, data, key, stores, fresh, plan>>

Snapshot ==
  /\ Running("snapshot")
  /\ sched' = [sched EXCEPT !.stage = "business_publish", !.objects = objects]
  /\ UNCHANGED <<clock, data, key, stores, fresh, plan>>

(* The keys the database names now are those of the files in the snapshot. *)
References == {c \in Applicants : row[c].kind \in {"live", "erasing"}}
ReferencesAgree == References = sched.objects

BusinessPublish ==
  /\ Running("business_publish") /\ ReferencesAgree
  /\ \E committed \in BOOLEAN :
       /\ groups' = IF committed
            THEN [groups EXCEPT ![sched.run] =
                    [cutoff |-> CutoffOfRun, rows |-> sched.rows, objects |-> sched.objects]]
            ELSE groups
       /\ Published(committed, "business_catalog")
  /\ UNCHANGED <<clock, data, key, archives, fresh, plan>>

(* Mutant: the newest point alone is kept. *)
NewestPoint == {Max(Points)}

NewestTwo == {r \in Points : Cardinality({q \in Points : q > r}) < 2}

(* What a prune would delete; planning fails with fewer than two points.   *)
Prunable == {r \in Points \ NewestTwo : groups[r].cutoff < clock - Window}

(* Each point's own archive is fetched and validated again. *)
PointsHold ==
  /\ Cardinality(Points) >= 2
  /\ \A r \in Points : ValidArchive(r, groups[r].cutoff)
                      /\ archives[r].cutoff = groups[r].cutoff
  /\ Max(Points) = sched.run

Catalog ==
  /\ PointsHold
  /\ sched' = Nothing
  /\ fresh' = [run |-> sched.run, cutoff |-> groups[sched.run].cutoff,
               points |-> Cardinality(Points)]

Succeed ==
  /\ Running("business_catalog") /\ Catalog
  /\ UNCHANGED <<clock, data, key, stores, plan>>

(* Any stage may fail or die with its process, and must where its check    *)
(* does not hold.                                                          *)
StageFails ==
  /\ Alive /\ Ended
  /\ UNCHANGED <<clock, data, key, stores, fresh, plan>>

(* The operator reconciles the run and removes its pending file. *)
Reconcile ==
  /\ sched = Stopped /\ sched' = Nothing
  /\ UNCHANGED <<clock, data, key, stores, fresh, plan>>

Schedule ==
  Start \/ LedgerPublish \/ Dump \/ Snapshot \/ BusinessPublish \/ Succeed
  \/ StageFails \/ Reconcile

-----------------------------------------------------------------------------
(* Prune, freshness and the keys.                                          *)

PlanPrune ==
  /\ plan = {} /\ Cardinality(Points) >= 2
  /\ plan' = Prunable /\ plan' # {}
  /\ UNCHANGED <<clock, data, key, stores, sched, fresh>>

DeleteGroup(r) ==
  /\ r \in plan
  /\ plan' = plan \ {r} /\ groups' = [groups EXCEPT ![r] = Nothing]
  /\ UNCHANGED <<clock, data, key, archives, sched, fresh>>

PruneStops ==
  /\ plan # {} /\ plan' = {}
  /\ UNCHANGED <<clock, data, key, stores, sched, fresh>>

RotateKey ==
  /\ key < MaxKeys /\ key' = key + 1
  /\ UNCHANGED <<clock, data, stores, sched, fresh, plan>>

CheckFreshness == fresh # Nothing /\ clock - fresh.cutoff <= PageAfter

BackupNext ==
  \/ Schedule
  \/ \E c \in Applicants : Work(c) /\ UNCHANGED <<clock, key, stores, sched, fresh, plan>>
  \/ PlanPrune \/ PruneStops \/ \E r \in Runs : DeleteGroup(r)
  \/ RotateKey

BackupTypeOK ==
  /\ clock \in Times /\ key \in 1..MaxKeys
  /\ row \in Rows /\ objects \in SUBSET Applicants /\ ledger \in Entries
  /\ archives \in [Runs -> LedgerManifest \cup {Nothing}]
  /\ groups \in [Runs -> BackupManifest \cup {Nothing}]
  /\ sched \in PendingRun \cup {Nothing, Stopped} /\ fresh \in FreshnessState \cup {Nothing}
  /\ plan \subseteq Runs

(* The page does not lie: while the freshness check passes, the restore    *)
(* point it names is there, complete, with an archive of its own that is   *)
(* as old as it, and there is a second one to fall back to.                *)
FreshIsRestorable ==
  CheckFreshness =>
    /\ Cardinality(Points) >= 2 /\ fresh.run \in Points
    /\ groups[fresh.run].cutoff = fresh.cutoff
    /\ \A r \in Points : r \in Archived /\ archives[r].cutoff = groups[r].cutoff
-----------------------------------------------------------------------------
(* What keeps that so: archives are numbered in turn, a point is not       *)
(* published before its archive, and no prune takes one of the last two.   *)
CatalogOK ==
  /\ \E n \in 0..MaxRuns : Archived = 1..n
  /\ \A r \in Points : r \in Archived /\ archives[r].cutoff = groups[r].cutoff
  /\ Running("ledger_publish") => sched.run = Cardinality(Archived) + 1
  /\ Alive /\ sched.stage # "ledger_publish" =>
       sched.run \in Archived /\ archives[sched.run].cutoff = sched.cutoff
  /\ Alive /\ sched.stage \in {"dump", "snapshot", "business_publish"} => sched.run \notin Points
  /\ \A r \in plan : r \in Points /\ groups[r].cutoff < clock - Window
  /\ fresh # Nothing \/ plan # {} => Cardinality(Points \ plan) >= 2
  /\ CheckFreshness => fresh.run \in Points /\ groups[fresh.run].cutoff = fresh.cutoff
=============================================================================
