--------------------------- MODULE DeletionProofs ---------------------------
(* Proofs about CandidateDeletion, for every value of its constants.        *)
EXTENDS CandidateDeletion, FiniteSetTheorems, TLAPS

(* The types, table by table.                                               *)
Cands == [version : 1..MaxEdits + 1, deleted : BOOLEAN]
Owned == Rows \cup Objects \cup {AppRow}
Reqs == [status : Open \cup {"none", "completed"}, version : Versions, by : Users \cup {None}, manifest : Manifest]
JobRows == [st : Active \cup {"none", "succeeded", "cancelled", "dead"}, n : 0..MaxAttempts]
CkptRows == [st : {"none", "pending", "deleted"}, tried : BOOLEAN, v : 0..MaxVersion]
Handlers == [pc : Steps, v : Versions, n : 0..MaxAttempts, obj : Objects \cup {None}, cv : 0..MaxVersion,
             entry : Evidence]
Exps == [st : {"none", "queued", "running", "succeeded", "failed"}, job : Active \cup {"none", "ended"},
         writer : {"none", "prepared", "written"}]

PeopleTypes == cand \in Cands /\ rows \subseteq Owned /\ app \in BOOLEAN /\ hold \in BOOLEAN /\ req \in Reqs
BesideTypes == exp \in Exps /\ screen \in {"idle", "queued", "running", "expired"}
DataTypes   == ckpt \in [Objects -> CkptRows] /\ store \subseteq Objects /\ ledger \in Evidence
WorkTypes   == job \in [Versions -> JobRows] /\ proc \in [Procs -> Handlers]

LEMMA Types ==
  /\ TypeOK <=> PeopleTypes /\ BesideTypes /\ DataTypes /\ WorkTypes
  /\ TypeOK' <=> PeopleTypes' /\ BesideTypes' /\ DataTypes' /\ WorkTypes'
  BY DEF TypeOK, PeopleTypes, BesideTypes, DataTypes, WorkTypes, Cands, Owned, Reqs, JobRows, CkptRows, Handlers, Exps

LEMMA CurrentIsManifest == TypeOK => Current \in Manifest /\ Current.rows = rows /\ Current.version = cand.version
  BY Types DEF Current, Manifest, PeopleTypes, Cands, Owned

LEMMA IdleIs == Idle \in Handlers /\ NoCkpt \in CkptRows /\ NoCkpt.st = "none" /\ NoEvidence \in Evidence
<1>1. NoEvidence \in Evidence
  BY ConstantsAssumption DEF NoEvidence, Evidence, Manifest, Versions
<1> QED
  BY <1>1, ConstantsAssumption DEF Idle, Handlers, Steps, Versions, NoCkpt, CkptRows

-----------------------------------------------------------------------------
(* What every step respects, and what a handler knows because of it.        *)
Grows ==
  /\ req' \in Reqs /\ req'.version >= req.version
  /\ rows \subseteq rows' /\ store' \cap rows \cap Files \subseteq store
  /\ cand.deleted => cand'.deleted
  /\ ledger # NoEvidence => ledger' = ledger
  /\ (req'.version = req.version /\ req.status \in {"executing", "completed"}) =>
       /\ req'.manifest = req.manifest /\ req'.status \in {"executing", "completed"}
       /\ \A o \in Objects : ckpt'[o].st = "pending" => ckpt[o].st = "pending"

HandlerNext(h) ==
  /\ h.v <= req'.version
  /\ h.pc \in {"delete", "mark"} => h.obj \in Objects \cap rows'
  /\ (h.pc = "mark" /\ h.obj \in Files) => h.obj \notin store'
  /\ h.pc \in {"persist", "write", "complete"} => cand'.deleted
  /\ h.pc \in {"write", "complete"} => h.entry.v = h.v /\ h.v >= 2
  /\ h.pc = "complete" => ledger' = h.entry
  /\ h.v = req'.version =>
       /\ h.pc # "claim" => req'.status \in {"executing", "completed"}
       /\ h.pc \in {"redact", "persist", "write", "complete"} => \A o \in Objects : ckpt'[o].st # "pending"
       /\ h.pc \in {"write", "complete"} =>
            h.entry.manifest = req'.manifest /\ h.entry.objects = Objects \cap req'.manifest.rows

(* What the invariant says of one handler.                                  *)
LEMMA HandlerIs ==
  ASSUME IInv, NEW p \in Procs, proc[p].pc # "idle"
  PROVE  proc[p] \in Handlers /\ HandlerOK(proc[p]) /\ job[proc[p].v] \in JobRows
  BY Types DEF IInv, HandlersOK, WorkTypes, Handlers

LEMMA HandlerKept ==
  ASSUME IInv, Grows, NEW p \in Procs, proc[p].pc # "idle"
  PROVE  HandlerNext(proc[p])
<1> DEFINE h == proc[p]
<1>1. h \in Handlers /\ HandlerOK(h) /\ req \in Reqs
  BY HandlerIs, Types DEF IInv, PeopleTypes
<1> HIDE DEF h
<1>2. h.v \in Nat /\ req.version \in Nat
  BY <1>1 DEF Handlers, Reqs, Versions
<1>3. h.pc = "complete" => ledger # NoEvidence
  BY <1>1, <1>2 DEF HandlerOK, NoEvidence
<1>4. req'.version \in Int
  BY DEF Grows, Reqs, Versions
<1> QED
  BY <1>1, <1>2, <1>3, <1>4 DEF Grows, HandlerOK, HandlerNext, Written, NonePending, h

LEMMA HandlersKept ==
  ASSUME IInv, Grows,
         \A p \in Procs : proc'[p] = proc[p] \/ proc'[p].pc = "idle" \/ HandlerNext(proc'[p])
  PROVE  HandlersOK'
<1> SUFFICES ASSUME NEW p \in Procs, proc'[p].pc # "idle" PROVE HandlerNext(proc'[p])
  BY DEF HandlersOK, HandlerOK, HandlerNext, Written, NonePending
<1> QED
  BY HandlerKept

-----------------------------------------------------------------------------
(* Steps that leave the request, its jobs and its checkpoints alone.        *)
LEMMA QuietStep ==
  ASSUME IInv, UNCHANGED <<req, job, ckpt, ledger, proc>>,
         rows \subseteq rows', rows' \subseteq Owned, app' \in BOOLEAN, hold' \in BOOLEAN, hold' => hold,
         store' \cap rows \cap Files \subseteq store, store' \subseteq Objects,
         cand' \in Cands, cand.deleted => cand'.deleted, ~cand'.deleted => cand'.version <= MaxEdits,
         BesideTypes'
  PROVE  IInv'
<1>1. PeopleTypes /\ BesideTypes /\ DataTypes /\ WorkTypes
  BY Types DEF IInv
<1>2. TypeOK'
  BY <1>1, Types DEF PeopleTypes, DataTypes, WorkTypes
<1>3. RequestOK' /\ ActiveJobIsCurrent'
  BY DEF IInv, RequestOK, ActiveJobIsCurrent
<1>4. CheckpointsOK'
  BY DEF IInv, CheckpointsOK
<1>5. CompletedIsAttested'
  BY DEF IInv, CompletedIsAttested, NonePending, Written
<1>6. Grows
  BY <1>1 DEF Grows, PeopleTypes, Reqs, Versions
<1>7. HandlersOK'
  BY <1>6, HandlersKept
<1> QED
  BY <1>2, <1>3, <1>4, <1>5, <1>7 DEF IInv

LEMMA PeopleStep ==
  ASSUME IInv, \/ \E r \in Rows \cup Files \cup {AppRow} : AddRow(r)
               \/ EditCandidate \/ CloseApplication \/ ReleaseHold
  PROVE  IInv'
<1>1. PeopleTypes /\ BesideTypes /\ DataTypes
  BY Types DEF IInv
<1>2. BesideTypes'
  BY <1>1 DEF AddRow, EditCandidate, CloseApplication, ReleaseHold, beside, BesideTypes
<1>3. ~cand.deleted => cand.version <= MaxEdits
  BY DEF IInv, RequestOK
<1>4. ASSUME NEW r \in Rows \cup Files \cup {AppRow}, AddRow(r) PROVE IInv'
  <2>1. /\ r \notin rows /\ rows' = rows \cup {r} /\ store' \in {store, store \cup {r}} /\ (r \notin Files => store' = store)
        /\ app' \in {TRUE, app} /\ UNCHANGED <<req, job, ckpt, ledger, proc, cand, hold>>
    BY <1>4 DEF AddRow
  <2> QED
    BY <1>1, <1>2, <1>3, <2>1, QuietStep DEF PeopleTypes, DataTypes, Owned, Objects
<1>5. CASE EditCandidate
  <2>1. cand' = [cand EXCEPT !.version = @ + 1] /\ ~cand.deleted /\ cand.version < MaxEdits
        /\ UNCHANGED <<req, job, ckpt, ledger, proc, rows, app, hold, store>>
    BY <1>5 DEF EditCandidate, people
  <2>2. cand' \in Cands /\ cand'.version <= MaxEdits /\ ~cand'.deleted
    BY <1>1, <2>1, ConstantsAssumption DEF PeopleTypes, Cands
  <2> QED
    BY <1>1, <1>2, <2>1, <2>2, QuietStep DEF PeopleTypes, DataTypes
<1>6. CASE CloseApplication
  <2>1. app' = FALSE /\ UNCHANGED <<req, job, ckpt, ledger, proc, rows, hold, store, cand>>
    BY <1>6 DEF CloseApplication
  <2> QED
    BY <1>1, <1>2, <1>3, <2>1, QuietStep DEF PeopleTypes, DataTypes
<1>7. CASE ReleaseHold
  <2>1. hold' = FALSE /\ UNCHANGED <<req, job, ckpt, ledger, proc, rows, app, store, cand>>
    BY <1>7 DEF ReleaseHold
  <2> QED
    BY <1>1, <1>2, <1>3, <2>1, QuietStep DEF PeopleTypes, DataTypes
<1> QED
  BY <1>4, <1>5, <1>6, <1>7

LEMMA BesideStep ==
  ASSUME IInv, \/ CreateExport \/ TakeExport \/ PrepareExport \/ WriteExport \/ FinalizeExport
               \/ CrashExport \/ BuryExport \/ Screening
  PROVE  IInv'
<1>1. PeopleTypes /\ BesideTypes /\ DataTypes
  BY Types DEF IInv
<1>2. ~cand.deleted => cand.version <= MaxEdits
  BY DEF IInv, RequestOK
<1>3. /\ UNCHANGED <<req, job, ckpt, ledger, proc, cand, app, hold>>
      /\ rows' \in {rows, rows \cup {Export}} /\ store' \in {store, store \cup {Export}}
  BY DEF CreateExport, TakeExport, PrepareExport, WriteExport, FinalizeExport, CrashExport, BuryExport, Screening, people
<1>4. DeadExport \in Exps
  BY <1>1 DEF DeadExport, BesideTypes, Exps
<1>5. exp' \in Exps
  <2>1. CASE Screening
    BY <1>1, <2>1 DEF Screening, BesideTypes
  <2>2. CASE CreateExport
    BY <2>2 DEF CreateExport, Exps, Active
  <2>3. CASE TakeExport \/ WriteExport \/ CrashExport
    BY <1>1, <2>3 DEF TakeExport, WriteExport, CrashExport, BesideTypes, Exps, Active
  <2>4. CASE PrepareExport \/ BuryExport
    BY <1>1, <1>4, <2>4 DEF PrepareExport, BuryExport, BesideTypes, Exps, Active
  <2>5. CASE FinalizeExport
    BY <1>1, <2>5 DEF FinalizeExport, BesideTypes, Exps, Active
  <2> QED
    BY <2>1, <2>2, <2>3, <2>4, <2>5
<1>6. screen' \in {"idle", "queued", "running", "expired"}
  BY <1>1 DEF CreateExport, TakeExport, PrepareExport, WriteExport, FinalizeExport, CrashExport, BuryExport, Screening,
              QueueScreening, TakeScreening, ExpireScreening, FinishScreening, BesideTypes
<1>7. BesideTypes' /\ Export \in Objects /\ Export \notin Files
  BY <1>5, <1>6, ConstantsAssumption DEF BesideTypes, Objects
<1> QED
  BY <1>1, <1>2, <1>3, <1>7, QuietStep DEF PeopleTypes, DataTypes, Owned

-----------------------------------------------------------------------------
(* Decisions about the request.                                             *)
LEMMA DecisionStep ==
  ASSUME IInv, UNCHANGED <<cand, rows, store, ledger, proc, exp, screen>>,
         app' \in BOOLEAN, hold' \in BOOLEAN, req' \in Reqs, job' \in [Versions -> JobRows],
         ckpt' = ckpt \/ ckpt' = [o \in Objects |-> NoCkpt],
         \/ req' = req /\ ckpt' = ckpt
         \/ req'.status # "completed" /\ req.status \notin {"executing", "completed"} /\ req'.version >= req.version,
         RequestOK', ActiveJobIsCurrent',
         req'.status \notin {"executing", "completed"} \/ req' = req,
         req'.status \in Undecided => req.status \in Undecided \/ ckpt' = [o \in Objects |-> NoCkpt]
  PROVE  IInv'
<1>1. PeopleTypes /\ BesideTypes /\ DataTypes /\ WorkTypes
  BY Types DEF IInv
<1>2. ckpt' \in [Objects -> CkptRows]
  BY <1>1, IdleIs DEF DataTypes
<1>3. TypeOK'
  BY <1>1, <1>2, Types DEF PeopleTypes, BesideTypes, DataTypes, WorkTypes
<1>4. \A o \in Objects : ckpt'[o] = ckpt[o] \/ ckpt'[o] = NoCkpt
  OBVIOUS
<1>5. CheckpointsOK'
  BY <1>4, IdleIs DEF IInv, CheckpointsOK, Undecided, Objects
<1>6. CompletedIsAttested'
  BY DEF IInv, CompletedIsAttested, NonePending, Written
<1>7. Grows
  BY <1>1 DEF Grows, PeopleTypes, Reqs, Versions
<1>8. HandlersOK'
  BY <1>7, HandlersKept
<1> QED
  BY <1>3, <1>5, <1>6, <1>8 DEF IInv

LEMMA CreateRequestStep ==
  ASSUME IInv, NEW u \in Users, CreateRequest(u)
  PROVE  IInv'
<1>1. PeopleTypes /\ BesideTypes /\ DataTypes /\ WorkTypes
  BY Types DEF IInv
<1>2. /\ req.status = "none" /\ req' = [status |-> "requested", version |-> 1, by |-> u, manifest |-> Current]
      /\ UNCHANGED <<cand, rows, app, hold, job, ckpt, store, ledger, proc, exp, screen>>
  BY DEF CreateRequest, people, beside
<1>3. Current \in Manifest /\ Current.rows = rows
  BY CurrentIsManifest DEF IInv
<1>4. req' \in Reqs
  BY <1>2, <1>3, ConstantsAssumption DEF Reqs, Open, Versions
<1>5. req.version = 1
  BY <1>2 DEF IInv, RequestOK
<1>6. RequestOK' /\ ActiveJobIsCurrent'
  BY <1>2, <1>3 DEF IInv, RequestOK, ActiveJobIsCurrent
<1> QED
  BY <1>1, <1>2, <1>4, <1>5, <1>6, DecisionStep DEF PeopleTypes, WorkTypes, Undecided

LEMMA RefreshManifestStep ==
  ASSUME IInv, RefreshManifest
  PROVE  IInv'
<1>1. PeopleTypes /\ BesideTypes /\ DataTypes /\ WorkTypes
  BY Types DEF IInv
<1>2. /\ req.status = "requested" /\ req.version + 3 <= MaxVersion
      /\ req' = [req EXCEPT !.manifest = Current, !.version = @ + 1]
      /\ ckpt' = [o \in Objects |-> NoCkpt]
      /\ UNCHANGED <<cand, rows, app, hold, job, store, ledger, proc, exp, screen>>
  BY DEF RefreshManifest, people, beside
<1>3. Current \in Manifest /\ Current.rows = rows
  BY CurrentIsManifest DEF IInv
<1>4. /\ req' \in Reqs /\ req'.status = "requested" /\ req'.version = req.version + 1 /\ req'.manifest.rows = rows
      /\ req.version \in Nat
  <2>1. req.version \in Versions /\ req.version + 1 \in Versions /\ req.version \in Nat
    BY <1>1, <1>2, ConstantsAssumption DEF PeopleTypes, Reqs, Versions
  <2>2. req' = [status |-> req.status, version |-> req.version + 1, by |-> req.by, manifest |-> Current]
    BY <1>1, <1>2 DEF PeopleTypes, Reqs
  <2> QED
    BY <1>1, <1>2, <1>3, <2>1, <2>2 DEF PeopleTypes, Reqs
<1> HIDE DEF Current
<1>5. RequestOK' /\ ActiveJobIsCurrent'
  BY <1>2, <1>4 DEF IInv, RequestOK, ActiveJobIsCurrent
<1> QED
  BY <1>1, <1>2, <1>4, <1>5, DecisionStep DEF PeopleTypes, WorkTypes, Undecided

LEMMA ApproveStep ==
  ASSUME IInv, NEW u \in Users, NEW terminate \in BOOLEAN, Approve(u, terminate)
  PROVE  IInv'
<1>1. PeopleTypes /\ BesideTypes /\ DataTypes /\ WorkTypes
  BY Types DEF IInv
<1>2. /\ req.status \in {"requested", "failed"} /\ ~hold /\ req.version + 2 <= MaxVersion
      /\ req' = [req EXCEPT !.status = "approved", !.version = @ + 1, !.manifest = Current]
      /\ ckpt' = IF req.status = "failed" THEN [o \in Objects |-> NoCkpt] ELSE ckpt
      /\ app' = IF terminate THEN FALSE ELSE app
      /\ job' = [job EXCEPT ![req.version + 1].st = "queued"]
      /\ UNCHANGED <<cand, rows, hold, store, ledger, proc, exp, screen>>
  BY DEF Approve, Approvable, beside
<1>3. Current \in Manifest /\ Current.rows = rows
  BY CurrentIsManifest DEF IInv
<1>4. /\ req' \in Reqs /\ req'.status = "approved" /\ req'.version = req.version + 1 /\ req'.manifest.rows = rows
      /\ req.version \in Nat /\ req.version >= 1 /\ req.version + 1 \in Versions
  <2>1. req.version \in Nat /\ req.version >= 1 /\ req.version + 1 \in Versions
    BY <1>1, <1>2, ConstantsAssumption DEF PeopleTypes, Reqs, Versions
  <2>2. req' = [status |-> "approved", version |-> req.version + 1, by |-> req.by, manifest |-> Current]
    BY <1>1, <1>2 DEF PeopleTypes, Reqs
  <2> QED
    BY <1>1, <1>3, <2>1, <2>2 DEF PeopleTypes, Reqs, Open
<1>5. /\ job' \in [Versions -> JobRows]
      /\ \A v \in Versions \ {req.version + 1} : job'[v] = job[v]
  <2> DEFINE row == [job[req.version + 1] EXCEPT !.st = "queued"]
  <2>1. row \in JobRows
    BY <1>1, <1>4 DEF WorkTypes, JobRows, Active
  <2>2. job' = [job EXCEPT ![req.version + 1] = row]
    BY <1>2
  <2> HIDE DEF row
  <2> QED
    BY <1>1, <1>4, <2>1, <2>2 DEF WorkTypes
<1>6. RequestOK'
  BY <1>2, <1>4, ConstantsAssumption DEF IInv, RequestOK
<1>7. ActiveJobIsCurrent'
  BY <1>2, <1>4, <1>5 DEF IInv, ActiveJobIsCurrent
<1>8. app' \in BOOLEAN /\ hold' \in BOOLEAN
  BY <1>1, <1>2 DEF PeopleTypes
<1>9. req.status \in Undecided \/ ckpt' = [o \in Objects |-> NoCkpt]
  BY <1>2 DEF Undecided
<1>10. ckpt' = ckpt \/ ckpt' = [o \in Objects |-> NoCkpt]
  BY <1>2
<1> QED
  BY <1>2, <1>4, <1>5, <1>6, <1>7, <1>8, <1>9, <1>10, DecisionStep

LEMMA PlaceHoldStep ==
  ASSUME IInv, PlaceHold
  PROVE  IInv'
<1>1. PeopleTypes /\ BesideTypes /\ DataTypes /\ WorkTypes
  BY Types DEF IInv
<1>2. /\ req.status \notin {"executing", "failed"} /\ hold' = TRUE
      /\ UNCHANGED <<cand, rows, app, ckpt, store, ledger, proc, exp, screen>>
  BY DEF PlaceHold, beside
<1>3. CASE req.status = "approved"
  <2>1. /\ req' = [req EXCEPT !.status = "failed", !.version = @ + 1]
        /\ job' = IF job[req.version].st \in Active THEN [job EXCEPT ![req.version].st = "cancelled"] ELSE job
    BY <1>3 DEF PlaceHold
  <2>2. req.version \in Versions /\ req.version < MaxVersion /\ req.version >= 2
    BY <1>1, <1>3 DEF PeopleTypes, Reqs, IInv, RequestOK
  <2>3. /\ req' \in Reqs /\ req'.status = "failed" /\ req'.version = req.version + 1 /\ req'.manifest = req.manifest
    <3>1. req.version + 1 \in Versions
      BY <2>2, ConstantsAssumption DEF Versions
    <3>2. req' = [status |-> "failed", version |-> req.version + 1, by |-> req.by, manifest |-> req.manifest]
      BY <1>1, <2>1 DEF PeopleTypes, Reqs
    <3> QED
      BY <1>1, <3>1, <3>2 DEF PeopleTypes, Reqs, Open
  <2>4. /\ job' \in [Versions -> JobRows] /\ job'[req.version].st \notin Active
        /\ \A v \in Versions \ {req.version} : job'[v] = job[v]
    <3> DEFINE row == [job[req.version] EXCEPT !.st = "cancelled"]
    <3>1. row \in JobRows /\ row.st \notin Active
      BY <1>1, <2>2 DEF WorkTypes, JobRows, Active
    <3>2. (job' = job /\ job[req.version].st \notin Active) \/ job' = [job EXCEPT ![req.version] = row]
      BY <2>1
    <3> HIDE DEF row
    <3> QED
      BY <1>1, <2>2, <3>1, <3>2 DEF WorkTypes
  <2>5. RequestOK' /\ ActiveJobIsCurrent'
    BY <1>2, <1>3, <2>2, <2>3, <2>4 DEF IInv, RequestOK, ActiveJobIsCurrent, Versions
  <2> QED
    BY <1>1, <1>2, <1>3, <2>2, <2>3, <2>4, <2>5, DecisionStep DEF PeopleTypes, Undecided, Versions
<1>4. CASE req.status # "approved"
  <2>1. UNCHANGED <<req, job>>
    BY <1>4 DEF PlaceHold
  <2>2. RequestOK' /\ ActiveJobIsCurrent'
    BY <1>2, <1>4, <2>1 DEF IInv, RequestOK, ActiveJobIsCurrent
  <2>3. app' \in BOOLEAN /\ hold' \in BOOLEAN /\ req' \in Reqs /\ job' \in [Versions -> JobRows]
    BY <1>1, <1>2, <2>1 DEF PeopleTypes, WorkTypes
  <2>4. req'.status \in Undecided => req.status \in Undecided
    BY <2>1
  <2> QED
    BY <1>2, <2>1, <2>2, <2>3, <2>4, DecisionStep
<1> QED
  BY <1>3, <1>4

-----------------------------------------------------------------------------
(* Steps of the deletion job.                                               *)
HandlersMove ==
  /\ proc' \in [Procs -> Handlers]
  /\ \A p \in Procs : proc'[p] = proc[p] \/ proc'[p].pc = "idle" \/ HandlerNext(proc'[p])

(* A checkpoint is done once its object is gone.                            *)
CheckpointsMove ==
  /\ ckpt' \in [Objects -> CkptRows]
  /\ \A o \in Objects : \/ ckpt'[o] = ckpt[o]
                        \/ ckpt[o].st = "pending" /\ ckpt'[o].st = "pending"
                        \/ ckpt[o].st = "pending" /\ ckpt'[o].st = "deleted" /\ (o \in Files => o \notin store)

(* A step of a handler that leaves the request to itself.                   *)
LEMMA WorkStep ==
  ASSUME IInv, UNCHANGED <<rows, app, hold, req, job>>, BesideTypes', HandlersMove, CheckpointsMove,
         cand' \in Cands, cand.deleted => cand'.deleted, ~cand'.deleted => cand'.version <= MaxEdits,
         store' \subseteq store, ledger' \in Evidence, ledger # NoEvidence => ledger' = ledger
  PROVE  IInv'
<1>1. PeopleTypes /\ DataTypes /\ WorkTypes
  BY Types DEF IInv
<1>2. TypeOK'
  BY <1>1, Types DEF PeopleTypes, DataTypes, WorkTypes, HandlersMove, CheckpointsMove
<1>3. Grows
  BY <1>1 DEF Grows, PeopleTypes, Reqs, Versions, CheckpointsMove
<1>4. HandlersOK'
  BY <1>3, HandlersKept DEF HandlersMove
<1>5. RequestOK' /\ ActiveJobIsCurrent'
  BY DEF IInv, RequestOK, ActiveJobIsCurrent
<1>6. CheckpointsOK'
  BY IdleIs DEF IInv, CheckpointsOK, CheckpointsMove, Objects
<1>7. CompletedIsAttested'
  <2>1. req.status = "completed" => ledger # NoEvidence
    BY DEF IInv, CompletedIsAttested, RequestOK, NoEvidence
  <2> QED
    BY <2>1 DEF IInv, CompletedIsAttested, NonePending, Written, CheckpointsMove
<1> QED
  BY <1>2, <1>4, <1>5, <1>6, <1>7 DEF IInv

(* A handler that only looks, and perhaps cancels what runs beside it.      *)
LEMMA LookStep ==
  ASSUME IInv, UNCHANGED <<cand, rows, app, hold, req, job, ckpt, store, ledger>>, BesideTypes', HandlersMove
  PROVE  IInv'
<1>1. PeopleTypes /\ DataTypes /\ (~cand.deleted => cand.version <= MaxEdits)
  BY Types DEF IInv, RequestOK
<1>2. CheckpointsMove
  BY <1>1 DEF CheckpointsMove, DataTypes
<1> QED
  BY <1>1, <1>2, WorkStep DEF PeopleTypes, DataTypes

LEMMA DeadLetterIs ==
  ASSUME IInv, NEW v \in Versions
  PROVE  \/ DeadLetter(v) = req /\ ~(req.version = v /\ req.status = "executing")
         \/ /\ req.version = v /\ req.status = "executing"
            /\ DeadLetter(v) \in Reqs /\ DeadLetter(v).status = "failed" /\ DeadLetter(v).version = v + 1
            /\ DeadLetter(v).manifest = req.manifest
<1>1. req \in Reqs
  BY Types DEF IInv, PeopleTypes
<1>2. CASE req.version = v /\ req.status = "executing"
  <2>1. v + 1 \in Versions
    BY <1>2, ConstantsAssumption DEF IInv, RequestOK, Versions
  <2>2. DeadLetter(v) = [status |-> "failed", version |-> v + 1, by |-> req.by, manifest |-> req.manifest]
    BY <1>1, <1>2 DEF DeadLetter, Reqs
  <2> QED
    BY <1>1, <1>2, <2>1, <2>2 DEF Reqs, Open
<1> QED
  BY <1>2 DEF DeadLetter

(* An attempt is over: the job waits for another, or dies and its callback  *)
(* fails the request.                                                       *)
LEMMA AttemptEnds ==
  ASSUME IInv, NEW v \in Versions, job[v].st = "running", NEW st \in {"queued", "dead"},
         job' = [job EXCEPT ![v].st = st], req' = IF st = "dead" THEN DeadLetter(v) ELSE req,
         UNCHANGED <<cand, rows, app, hold, ckpt, store, ledger, exp, screen>>,
         proc' \in [Procs -> Handlers], \A p \in Procs : proc'[p] = proc[p] \/ proc'[p].pc = "idle"
  PROVE  IInv'
<1>1. PeopleTypes /\ BesideTypes /\ DataTypes /\ WorkTypes
  BY Types DEF IInv
<1>2. /\ job' \in [Versions -> JobRows] /\ job'[v].st = st
      /\ \A u \in Versions \ {v} : job'[u] = job[u]
  <2> DEFINE row == [job[v] EXCEPT !.st = st]
  <2>1. row \in JobRows /\ row.st = st
    BY <1>1 DEF WorkTypes, JobRows, Active
  <2>2. job' = [job EXCEPT ![v] = row]
    OBVIOUS
  <2> HIDE DEF row
  <2> QED
    BY <1>1, <2>1, <2>2 DEF WorkTypes
<1>3. \/ req' = req /\ ~(st = "dead" /\ req.version = v /\ req.status = "executing")
      \/ /\ req.version = v /\ req.status = "executing" /\ st = "dead"
         /\ req' \in Reqs /\ req'.status = "failed" /\ req'.version = v + 1 /\ req'.manifest = req.manifest
  BY DeadLetterIs
<1>4. v = req.version /\ req \in Reqs /\ v \in Nat
  BY <1>1 DEF IInv, ActiveJobIsCurrent, Active, PeopleTypes, Versions
<1>5. req' \in Reqs
  BY <1>3, <1>4
<1>6. TypeOK'
  BY <1>1, <1>2, <1>5, Types DEF PeopleTypes, BesideTypes, DataTypes, WorkTypes
<1>7. RequestOK'
  BY <1>3, <1>4 DEF IInv, RequestOK
<1>8. ActiveJobIsCurrent'
  BY <1>2, <1>3, <1>4 DEF IInv, ActiveJobIsCurrent, Active
<1>9. CheckpointsOK' /\ CompletedIsAttested'
  BY <1>3 DEF IInv, CheckpointsOK, CompletedIsAttested, NonePending, Written, Undecided
<1>10. Grows
  BY <1>1, <1>3, <1>4, <1>5 DEF Grows, Reqs, Versions
<1>11. HandlersOK'
  BY <1>10, HandlersKept
<1> QED
  BY <1>6, <1>7, <1>8, <1>9, <1>11 DEF IInv

LEMMA RaiseStep ==
  ASSUME IInv, NEW p \in Procs, proc[p].pc # "idle", NEW outcome, Raise(p, outcome)
  PROVE  IInv'
<1> DEFINE v == proc[p].v
<1>1. BesideTypes /\ WorkTypes /\ v \in Versions
  BY HandlerIs, Types DEF IInv, Handlers
<1>2. proc' = [proc EXCEPT ![p] = Idle] /\ UNCHANGED <<cand, rows, app, hold, ckpt, store, ledger, exp, screen>>
  BY DEF Raise, people, beside
<1>3. /\ proc' \in [Procs -> Handlers] /\ \A q \in Procs : proc'[q] = proc[q] \/ proc'[q].pc = "idle"
  BY <1>1, <1>2, IdleIs DEF WorkTypes, Idle
<1>4. CASE Holds(p)
  <2>1. \E st \in {"queued", "dead"} :
          job' = [job EXCEPT ![v].st = st] /\ req' = IF st = "dead" THEN DeadLetter(v) ELSE req
    BY <1>4 DEF Raise
  <2> QED
    BY <1>1, <1>2, <1>3, <1>4, <2>1, AttemptEnds DEF Holds
<1>5. CASE ~Holds(p)
  <2>1. UNCHANGED <<job, req>>
    BY <1>5 DEF Raise
  <2> QED
    BY <1>1, <1>2, <1>3, <2>1, LookStep DEF BesideTypes, HandlersMove
<1> QED
  BY <1>4, <1>5

LEMMA LoseLeaseStep ==
  ASSUME IInv, NEW v \in Versions, LoseLease(v)
  PROVE  IInv'
<1>1. \E st \in {"queued", "dead"} :
        job' = [job EXCEPT ![v].st = st] /\ req' = IF st = "dead" THEN DeadLetter(v) ELSE req
  BY DEF LoseLease
<1>2. job[v].st = "running" /\ UNCHANGED <<cand, rows, app, hold, ckpt, store, ledger, proc, exp, screen>>
  BY DEF LoseLease, people, beside
<1> QED
  BY <1>1, <1>2, AttemptEnds, Types DEF IInv, WorkTypes

LEMMA CrashStep ==
  ASSUME IInv, NEW p \in Procs, Crash(p)
  PROVE  IInv'
<1>1. /\ proc' = [proc EXCEPT ![p] = Idle] /\ BesideTypes /\ WorkTypes
      /\ UNCHANGED <<cand, rows, app, hold, req, job, ckpt, store, ledger, exp, screen>>
  BY Types DEF Crash, people, beside, IInv
<1>2. HandlersMove
  BY <1>1, IdleIs DEF WorkTypes, HandlersMove, Idle
<1> QED
  BY <1>1, <1>2, LookStep DEF BesideTypes

(* Where a handler may go next.                                             *)
LEMMA GotoIs ==
  ASSUME IInv, NEW p \in Procs, proc[p].pc # "idle", NEW pc \in Steps, Goto(p, pc)
  PROVE  /\ proc' \in [Procs -> Handlers] /\ \A q \in Procs \ {p} : proc'[q] = proc[q]
         /\ proc'[p].pc = pc /\ proc'[p].v = proc[p].v /\ proc'[p].n = proc[p].n /\ proc'[p].obj = proc[p].obj
         /\ proc'[p].cv = proc[p].cv /\ proc'[p].entry = proc[p].entry
<1> DEFINE row == [proc[p] EXCEPT !.pc = pc]
<1>1. proc \in [Procs -> Handlers] /\ proc[p] \in Handlers
  BY Types DEF IInv, WorkTypes
<1>2. /\ row \in Handlers /\ row.pc = pc /\ row.v = proc[p].v /\ row.n = proc[p].n /\ row.obj = proc[p].obj
      /\ row.cv = proc[p].cv /\ row.entry = proc[p].entry
  BY <1>1 DEF Handlers
<1>3. proc' = [proc EXCEPT ![p] = row]
  BY DEF Goto
<1> HIDE DEF row
<1> QED
  BY <1>1, <1>2, <1>3

LEMMA GotoMoves ==
  ASSUME IInv, NEW p \in Procs, proc[p].pc # "idle", NEW pc \in Steps, Goto(p, pc), HandlerNext(proc'[p])
  PROVE  HandlersMove
  BY GotoIs DEF HandlersMove

-----------------------------------------------------------------------------
(* The handler, step by step.                                               *)
LEMMA TakeJobStep ==
  ASSUME IInv, NEW p \in Procs, NEW v \in Versions, TakeJob(p, v)
  PROVE  IInv'
<1>1. PeopleTypes /\ BesideTypes /\ DataTypes /\ WorkTypes
  BY Types DEF IInv
<1>2. /\ job[v].st = "queued" /\ job[v].n < MaxAttempts /\ job' = [job EXCEPT ![v] = [st |-> "running", n |-> job[v].n + 1]]
      /\ proc' = [proc EXCEPT ![p] = [Idle EXCEPT !.pc = "claim", !.v = v, !.n = job[v].n + 1]]
      /\ UNCHANGED <<cand, rows, app, hold, req, ckpt, store, ledger, exp, screen>>
  BY DEF TakeJob, people, beside
<1> DEFINE row == [Idle EXCEPT !.pc = "claim", !.v = v, !.n = job[v].n + 1]
           new == [st |-> "running", n |-> job[v].n + 1]
<1>3. job[v].n + 1 \in 0..MaxAttempts /\ v = req.version
  BY <1>1, <1>2, ConstantsAssumption DEF WorkTypes, JobRows, IInv, ActiveJobIsCurrent, Active
<1>4. row \in Handlers /\ row.pc = "claim" /\ row.v = v
  BY <1>3, IdleIs DEF Handlers, Steps
<1>5. new \in JobRows /\ new.st = "running"
  BY <1>3 DEF JobRows, Active
<1>6. proc' = [proc EXCEPT ![p] = row] /\ job' = [job EXCEPT ![v] = new]
  BY <1>2
<1> HIDE DEF row, new
<1>7. /\ proc' \in [Procs -> Handlers] /\ proc'[p] = row /\ \A q \in Procs \ {p} : proc'[q] = proc[q]
      /\ job' \in [Versions -> JobRows] /\ job'[v] = new /\ \A u \in Versions \ {v} : job'[u] = job[u]
  BY <1>1, <1>4, <1>5, <1>6 DEF WorkTypes
<1>8. TypeOK'
  BY <1>1, <1>2, <1>7, Types DEF PeopleTypes, BesideTypes, DataTypes, WorkTypes
<1>9. Grows
  BY <1>1, <1>2 DEF Grows, PeopleTypes, Reqs, Versions
<1>10. HandlerNext(proc'[p])
  BY <1>1, <1>2, <1>3, <1>4, <1>7 DEF HandlerNext, PeopleTypes, Reqs, Versions
<1>11. HandlersOK'
  BY <1>7, <1>9, <1>10, HandlersKept
<1>12. ActiveJobIsCurrent'
  BY <1>2, <1>3, <1>5, <1>7 DEF IInv, ActiveJobIsCurrent, Active
<1>13. RequestOK' /\ CheckpointsOK' /\ CompletedIsAttested'
  BY <1>2 DEF IInv, RequestOK, CheckpointsOK, CompletedIsAttested, NonePending, Written
<1> QED
  BY <1>8, <1>11, <1>12, <1>13 DEF IInv

LEMMA SucceedStep ==
  ASSUME IInv, NEW p \in Procs, Succeed(p)
  PROVE  IInv'
<1> DEFINE v == proc[p].v
           row == [job[v] EXCEPT !.st = "succeeded"]
<1>1. PeopleTypes /\ BesideTypes /\ DataTypes /\ WorkTypes
  BY Types DEF IInv
<1>2. /\ proc[p].pc = "done" /\ proc' = [proc EXCEPT ![p] = Idle]
      /\ job' = job \/ job' = [job EXCEPT ![v] = row]
      /\ UNCHANGED <<cand, rows, app, hold, req, ckpt, store, ledger, exp, screen>>
  BY DEF Succeed, At, people, beside
<1>3. v \in Versions /\ row \in JobRows /\ row.st = "succeeded"
  BY <1>1 DEF WorkTypes, Handlers, JobRows
<1> HIDE DEF row, v
<1>4. /\ job' \in [Versions -> JobRows] /\ proc' \in [Procs -> Handlers]
      /\ \A u \in Versions : job'[u].st \in Active => job[u].st \in Active
      /\ \A q \in Procs : proc'[q] = proc[q] \/ proc'[q].pc = "idle"
  BY <1>1, <1>2, <1>3, IdleIs DEF WorkTypes, Active, Idle
<1>5. TypeOK'
  BY <1>1, <1>2, <1>4, Types DEF PeopleTypes, BesideTypes, DataTypes, WorkTypes
<1>6. Grows
  BY <1>1, <1>2 DEF Grows, PeopleTypes, Reqs, Versions
<1>7. HandlersOK'
  BY <1>4, <1>6, HandlersKept
<1>8. RequestOK' /\ CheckpointsOK' /\ CompletedIsAttested' /\ ActiveJobIsCurrent'
  BY <1>2, <1>4 DEF IInv, RequestOK, CheckpointsOK, CompletedIsAttested, NonePending, Written, ActiveJobIsCurrent
<1> QED
  BY <1>5, <1>7, <1>8 DEF IInv

(* The request begins to execute, with a checkpoint for every object.       *)
LEMMA BeginStep ==
  ASSUME IInv, NEW p \in Procs, proc[p].pc = "claim", req.version = proc[p].v, req.status = "approved",
         ~hold, req.manifest = Current, Goto(p, "exports"), BesideTypes',
         req' = [req EXCEPT !.status = "executing"],
         ckpt' = [o \in Objects |-> IF o \in rows THEN [st |-> "pending", tried |-> FALSE, v |-> req.version] ELSE ckpt[o]],
         UNCHANGED <<cand, rows, app, hold, job, store, ledger>>
  PROVE  IInv'
<1>1. PeopleTypes /\ DataTypes /\ WorkTypes
  BY Types DEF IInv
<1>2. req' \in Reqs /\ req'.status = "executing" /\ req'.version = req.version /\ req'.manifest = req.manifest
  BY <1>1 DEF PeopleTypes, Reqs, Open
<1>3. req.version \in Versions /\ req.version \in 0..MaxVersion
  BY <1>1, ConstantsAssumption DEF PeopleTypes, Reqs, Versions
<1>4. ckpt' \in [Objects -> CkptRows]
  BY <1>1, <1>3 DEF DataTypes, CkptRows
<1>5. \A o \in Objects : ckpt'[o].st = (IF o \in rows THEN "pending" ELSE "none")
  BY IdleIs DEF IInv, CheckpointsOK, Undecided
<1>6. req.manifest.rows = rows
  BY CurrentIsManifest DEF IInv
<1>7. /\ proc' \in [Procs -> Handlers] /\ proc'[p].pc = "exports" /\ proc'[p].v = proc[p].v
      /\ \A q \in Procs \ {p} : proc'[q] = proc[q]
  BY GotoIs DEF Steps
<1>8. TypeOK'
  BY <1>1, <1>2, <1>4, <1>7, Types DEF PeopleTypes, DataTypes, WorkTypes
<1>9. Grows
  BY <1>1, <1>2, <1>3 DEF Grows, Versions
<1>10. HandlerNext(proc'[p])
  BY <1>2, <1>3, <1>7 DEF HandlerNext, Versions
<1>11. HandlersOK'
  BY <1>7, <1>9, <1>10, HandlersKept
<1>12. RequestOK' /\ ActiveJobIsCurrent'
  BY <1>2 DEF IInv, RequestOK, ActiveJobIsCurrent
<1>13. CheckpointsOK' /\ CompletedIsAttested'
  BY <1>2, <1>5, <1>6 DEF CheckpointsOK, CompletedIsAttested, Undecided, Objects
<1> QED
  BY <1>8, <1>11, <1>12, <1>13 DEF IInv

LEMMA ClaimStep ==
  ASSUME IInv, NEW p \in Procs, Claim(p)
  PROVE  IInv'
<1>1. proc[p].pc = "claim" /\ req \in Reqs /\ BesideTypes
  BY Types DEF Claim, At, IInv, PeopleTypes
<1>2. CASE \E outcome : Raise(p, outcome)
  BY <1>1, <1>2, RaiseStep
<1>3. CASE \E pc \in {"verify", "exports"} :
             /\ ~Stale(p) /\ req.status \in {"executing", "completed"} /\ Goto(p, pc)
             /\ UNCHANGED <<cand, people, req, job, ckpt, store, ledger>> /\ BesideTypes'
  <2>1. HandlerNext(proc'[p])
    BY <1>1, <1>3, GotoIs DEF Stale, HandlerNext, Steps, Reqs, Versions
  <2>2. HandlersMove
    BY <1>1, <1>3, <2>1, GotoMoves DEF Steps
  <2> QED
    BY <1>3, <2>2, LookStep DEF people
<1>4. CASE /\ ~Stale(p) /\ req.status \in {"approved", "executing"} /\ ~Obstructed /\ req.manifest = Current
           /\ CancelScreening /\ Goto(p, "exports")
           /\ req' = [req EXCEPT !.status = "executing"]
           /\ ckpt' = IF req.status = "executing" THEN ckpt
                      ELSE [o \in Objects |-> IF o \in rows
                              THEN [st |-> "pending", tried |-> FALSE, v |-> req.version]
                              ELSE ckpt[o]]
           /\ UNCHANGED <<cand, people, job, store, ledger, exp>>
  <2>1. BesideTypes'
    BY <1>1, <1>4 DEF BesideTypes, CancelScreening
  <2>2. CASE req.status = "approved"
    BY <1>1, <1>4, <2>1, <2>2, BeginStep DEF Stale, Obstructed, people
  <2>3. CASE req.status = "executing"
    <3>1. UNCHANGED <<req, ckpt>>
      BY <1>1, <1>4, <2>3 DEF Reqs
    <3> QED
      BY <1>3, <1>4, <2>1, <2>3, <3>1
  <2> QED
    BY <1>4, <2>2, <2>3
<1>5. UNCHANGED beside => BesideTypes'
  BY <1>1 DEF beside, BesideTypes
<1> QED
  BY <1>2, <1>3, <1>4, <1>5 DEF Claim, Stale

LEMMA SettleExportsStep ==
  ASSUME IInv, NEW p \in Procs, SettleExports(p)
  PROVE  IInv'
<1>1. proc[p].pc = "exports" /\ BesideTypes
  BY Types DEF SettleExports, At, IInv
<1>2. CASE Raise(p, "permanent") \/ Raise(p, "retry")
  BY <1>1, <1>2, RaiseStep
<1>3. CASE /\ req.status = "executing" /\ Goto(p, "pick")
           /\ exp' = IF exp.st = "queued" THEN [exp EXCEPT !.st = "failed", !.job = "ended"] ELSE exp
           /\ IF cand.deleted THEN UNCHANGED screen ELSE CancelScreening
           /\ UNCHANGED <<cand, people, req, job, ckpt, store, ledger>>
  <2>1. BesideTypes'
    BY <1>1, <1>3 DEF BesideTypes, Exps, CancelScreening
  <2>2. HandlerNext(proc'[p])
    BY <1>1, <1>3, GotoIs, HandlerIs DEF HandlerOK, HandlerNext, Steps
  <2> QED
    BY <1>1, <1>3, <2>1, <2>2, GotoMoves, LookStep DEF Steps, people
<1> QED
  BY <1>2, <1>3 DEF SettleExports

LEMMA PickArtifactStep ==
  ASSUME IInv, NEW p \in Procs, PickArtifact(p)
  PROVE  IInv'
<1>1. /\ proc[p].pc = "pick" /\ UNCHANGED <<cand, rows, app, hold, req, job, ckpt, store, ledger, exp, screen>>
      /\ BesideTypes' /\ WorkTypes /\ DataTypes
  BY Types DEF PickArtifact, At, IInv, people, beside, BesideTypes
<1>2. ASSUME NEW o \in Objects, ckpt[o].st = "pending",
             proc' = [proc EXCEPT ![p] = [@ EXCEPT !.pc = "delete", !.obj = o, !.cv = ckpt[o].v]]
      PROVE  IInv'
  <2> DEFINE row == [proc[p] EXCEPT !.pc = "delete", !.obj = o, !.cv = ckpt[o].v]
  <2>1. proc[p] \in Handlers /\ HandlerOK(proc[p]) /\ ckpt[o] \in CkptRows /\ o \in rows
    BY <1>1, <1>2, HandlerIs DEF DataTypes, IInv, CheckpointsOK
  <2>2. row \in Handlers /\ row.pc = "delete" /\ row.obj = o /\ row.v = proc[p].v
    BY <2>1 DEF Handlers, Steps, CkptRows
  <2>3. proc' = [proc EXCEPT ![p] = row]
    BY <1>2
  <2> HIDE DEF row
  <2>4. HandlerNext(row)
    BY <1>1, <2>1, <2>2 DEF HandlerOK, HandlerNext
  <2>5. HandlersMove
    BY <1>1, <2>2, <2>3, <2>4 DEF HandlersMove, WorkTypes
  <2> QED
    BY <1>1, <2>5, LookStep
<1>3. CASE Goto(p, "check")
  <2>1. HandlerNext(proc'[p])
    BY <1>1, <1>3, GotoIs, HandlerIs DEF HandlerOK, HandlerNext, Steps
  <2> QED
    BY <1>1, <1>3, <2>1, GotoMoves, LookStep DEF Steps
<1> QED
  BY <1>2, <1>3 DEF PickArtifact

LEMMA DeleteObjectStep ==
  ASSUME IInv, NEW p \in Procs, DeleteObject(p)
  PROVE  IInv'
<1>1. /\ proc[p].pc = "delete" /\ store' = store \ {proc[p].obj} /\ Goto(p, "mark")
      /\ UNCHANGED <<cand, rows, app, hold, req, job, ckpt, ledger, exp, screen>>
      /\ PeopleTypes /\ BesideTypes' /\ DataTypes /\ (~cand.deleted => cand.version <= MaxEdits)
  BY Types DEF DeleteObject, At, IInv, RequestOK, people, beside, BesideTypes
<1>2. HandlerNext(proc'[p])
  BY <1>1, GotoIs, HandlerIs DEF HandlerOK, HandlerNext, Steps
<1>3. HandlersMove /\ CheckpointsMove
  BY <1>1, <1>2, GotoMoves DEF Steps, CheckpointsMove, DataTypes
<1> QED
  BY <1>1, <1>3, WorkStep DEF PeopleTypes, DataTypes

(* What a handler writes into the checkpoint it picked.                     *)
LEMMA CheckpointStep ==
  ASSUME IInv, NEW p \in Procs, DeleteFails(p) \/ MarkDeleted(p)
  PROVE  IInv'
<1> DEFINE o == proc[p].obj
<1>1. /\ UNCHANGED <<cand, rows, app, hold, req, job, store, ledger, exp, screen>>
      /\ PeopleTypes /\ BesideTypes' /\ DataTypes /\ (~cand.deleted => cand.version <= MaxEdits)
  BY Types DEF DeleteFails, MarkDeleted, IInv, RequestOK, people, beside, BesideTypes
<1>2. /\ proc[p].pc \in {"delete", "mark"} /\ \E pc \in {"giveup", "pick"} : Goto(p, pc)
      /\ \/ ckpt' = ckpt
         \/ ckpt[o].st = "pending" /\ ckpt' = [ckpt EXCEPT ![o].tried = TRUE]
         \/ /\ ckpt[o].st = "pending" /\ proc[p].pc = "mark"
            /\ ckpt' = [ckpt EXCEPT ![o] = [@ EXCEPT !.st = "deleted", !.tried = TRUE]]
  BY DEF DeleteFails, MarkDeleted, At, StillPending
<1>3. o \in Objects /\ (proc[p].pc = "mark" /\ o \in Files => o \notin store) /\ ckpt[o] \in CkptRows
  BY <1>1, <1>2, HandlerIs DEF HandlerOK, DataTypes
<1>4. CheckpointsMove
  <2> DEFINE tried == [ckpt[o] EXCEPT !.tried = TRUE]
             deleted == [ckpt[o] EXCEPT !.st = "deleted", !.tried = TRUE]
  <2>1. tried \in CkptRows /\ tried.st = ckpt[o].st /\ deleted \in CkptRows /\ deleted.st = "deleted"
    BY <1>3 DEF CkptRows
  <2>2. \/ ckpt' = ckpt
        \/ ckpt[o].st = "pending" /\ ckpt' = [ckpt EXCEPT ![o] = tried]
        \/ ckpt[o].st = "pending" /\ proc[p].pc = "mark" /\ ckpt' = [ckpt EXCEPT ![o] = deleted]
    BY <1>2
  <2> HIDE DEF tried, deleted, o
  <2> QED
    BY <1>1, <1>3, <2>1, <2>2 DEF CheckpointsMove, DataTypes
<1>5. HandlerNext(proc'[p])
  BY <1>1, <1>2, GotoIs, HandlerIs DEF HandlerOK, HandlerNext, Steps
<1>6. HandlersMove
  BY <1>2, <1>5, GotoMoves DEF Steps
<1> QED
  BY <1>1, <1>4, <1>6, WorkStep DEF PeopleTypes, DataTypes

LEMMA CheckRedactionStep ==
  ASSUME IInv, NEW p \in Procs, CheckRedaction(p)
  PROVE  IInv'
<1>1. proc[p].pc = "check" /\ BesideTypes
  BY Types DEF CheckRedaction, At, IInv
<1>2. CASE Raise(p, "permanent") \/ Raise(p, "retry")
  BY <1>1, <1>2, RaiseStep
<1>3. CASE /\ req.status = "executing" /\ NonePending /\ Goto(p, "redact")
           /\ IF cand.deleted THEN UNCHANGED screen ELSE CancelScreening
           /\ UNCHANGED <<cand, people, req, job, ckpt, store, ledger, exp>>
  <2>1. BesideTypes'
    BY <1>1, <1>3 DEF BesideTypes, CancelScreening
  <2>2. HandlerNext(proc'[p])
    BY <1>1, <1>3, GotoIs, HandlerIs DEF HandlerOK, HandlerNext, NonePending, Steps
  <2> QED
    BY <1>1, <1>3, <2>1, <2>2, GotoMoves, LookStep DEF Steps, people
<1> QED
  BY <1>2, <1>3 DEF CheckRedaction, NonePending

LEMMA RedactStep ==
  ASSUME IInv, NEW p \in Procs, Redact(p)
  PROVE  IInv'
<1>1. proc[p].pc = "redact" /\ PeopleTypes /\ BesideTypes /\ DataTypes /\ (~cand.deleted => cand.version <= MaxEdits)
  BY Types DEF Redact, At, IInv, RequestOK
<1>2. CASE Raise(p, "permanent") \/ Raise(p, "retry")
  BY <1>1, <1>2, RaiseStep
<1>3. CASE /\ cand' = IF cand.deleted THEN cand ELSE [version |-> cand.version + 1, deleted |-> TRUE]
           /\ Goto(p, "persist")
           /\ UNCHANGED <<people, req, job, ckpt, store, ledger, beside>>
  <2>1. cand' \in Cands /\ cand'.deleted
    BY <1>1, <1>3, ConstantsAssumption DEF PeopleTypes, Cands
  <2>2. BesideTypes' /\ UNCHANGED <<rows, app, hold, req, job, ckpt, store, ledger>>
    BY <1>1, <1>3 DEF BesideTypes, beside, people
  <2>3. HandlerNext(proc'[p])
    BY <1>1, <1>3, <2>1, <2>2, GotoIs, HandlerIs DEF HandlerOK, HandlerNext, NonePending, Steps
  <2>4. HandlersMove /\ CheckpointsMove
    BY <1>1, <1>3, <2>2, <2>3, GotoMoves DEF Steps, CheckpointsMove, DataTypes
  <2> QED
    BY <1>1, <2>1, <2>2, <2>4, WorkStep DEF DataTypes
<1> QED
  BY <1>2, <1>3 DEF Redact

(* Every object of the manifest is in the evidence, and nothing else.       *)
LEMMA PersistStep ==
  ASSUME IInv, NEW p \in Procs, Persist(p)
  PROVE  IInv'
<1> DEFINE deleted == {o \in Objects : ckpt[o].st = "deleted"}
           entry == [v |-> req.version, manifest |-> req.manifest, objects |-> deleted]
           row == [proc[p] EXCEPT !.pc = "write", !.entry = entry]
<1>1. proc[p].pc = "persist" /\ PeopleTypes /\ BesideTypes /\ DataTypes /\ WorkTypes
  BY Types DEF Persist, At, IInv
<1>2. CASE Raise(p, "permanent")
  BY <1>1, <1>2, RaiseStep
<1>3. CASE req.version = proc[p].v /\ req.status = "executing" /\ proc' = [proc EXCEPT ![p] = row]
           /\ UNCHANGED <<cand, people, req, job, ckpt, store, ledger, beside>>
  <2>1. proc[p] \in Handlers /\ HandlerOK(proc[p]) /\ NonePending /\ req.version >= 2
    BY <1>1, <1>3, HandlerIs DEF HandlerOK, IInv, RequestOK
  <2>2. deleted = Objects \cap req.manifest.rows
    <3>1. \A o \in Objects : ckpt[o].st = "deleted" <=> o \in req.manifest.rows
      BY <1>1, <1>3, <2>1 DEF IInv, CheckpointsOK, NonePending, DataTypes, CkptRows
    <3> QED
      BY <3>1
  <2>3. entry \in Evidence
    BY <1>1 DEF PeopleTypes, Reqs, Evidence
  <2>4. entry.v = req.version /\ entry.manifest = req.manifest /\ entry.objects = Objects \cap req.manifest.rows
    BY <2>2
  <2> HIDE DEF entry
  <2>5. row \in Handlers /\ row.pc = "write" /\ row.v = proc[p].v /\ row.entry = entry
    BY <2>1, <2>3 DEF Handlers, Steps
  <2> HIDE DEF row
  <2>6. UNCHANGED <<cand, rows, app, hold, req, job, ckpt, store, ledger>> /\ BesideTypes'
    BY <1>1, <1>3 DEF people, beside, BesideTypes
  <2>7. HandlerNext(row)
    BY <1>1, <1>3, <2>1, <2>4, <2>5, <2>6 DEF HandlerOK, HandlerNext, NonePending
  <2>8. HandlersMove
    BY <1>1, <1>3, <2>5, <2>7 DEF HandlersMove, WorkTypes
  <2> QED
    BY <2>6, <2>8, LookStep
<1> QED
  BY <1>2, <1>3 DEF Persist

LEMMA WriteLedgerStep ==
  ASSUME IInv, NEW p \in Procs, WriteLedger(p)
  PROVE  IInv'
<1>1. proc[p].pc = "write" /\ PeopleTypes /\ BesideTypes /\ DataTypes /\ (~cand.deleted => cand.version <= MaxEdits)
  BY Types DEF WriteLedger, At, IInv, RequestOK
<1>2. CASE Raise(p, "permanent") \/ Raise(p, "retry")
  BY <1>1, <1>2, RaiseStep
<1>3. CASE /\ ledger \in {NoEvidence, proc[p].entry} /\ ledger' = proc[p].entry /\ Goto(p, "complete")
           /\ UNCHANGED <<cand, people, req, job, ckpt, store, beside>>
  <2>1. UNCHANGED <<cand, rows, app, hold, req, job, ckpt, store>> /\ BesideTypes'
    BY <1>1, <1>3 DEF people, beside, BesideTypes
  <2>2. proc[p].entry \in Evidence
    BY <1>1, HandlerIs DEF Handlers
  <2>3. HandlerNext(proc'[p])
    BY <1>1, <1>3, <2>1, GotoIs, HandlerIs DEF HandlerOK, HandlerNext, NonePending, Written, Steps
  <2>4. HandlersMove /\ CheckpointsMove
    BY <1>1, <1>3, <2>1, <2>3, GotoMoves DEF Steps, CheckpointsMove, DataTypes
  <2> QED
    BY <1>1, <1>3, <2>1, <2>2, <2>4, WorkStep DEF PeopleTypes
<1> QED
  BY <1>2, <1>3 DEF WriteLedger

LEMMA CompleteStep ==
  ASSUME IInv, NEW p \in Procs, Complete(p)
  PROVE  IInv'
<1>1. proc[p].pc = "complete" /\ PeopleTypes /\ BesideTypes /\ DataTypes /\ WorkTypes
  BY Types DEF Complete, At, IInv
<1>2. CASE Raise(p, "permanent")
  BY <1>1, <1>2, RaiseStep
<1>3. CASE /\ req.version = proc[p].v /\ req.status = "executing" /\ cand.deleted
           /\ req' = [req EXCEPT !.status = "completed"] /\ Goto(p, "done")
           /\ UNCHANGED <<cand, people, job, ckpt, store, ledger, beside>>
  <2>1. req' \in Reqs /\ req'.status = "completed" /\ req'.version = req.version /\ req'.manifest = req.manifest
    BY <1>1, <1>3 DEF PeopleTypes, Reqs
  <2>2. UNCHANGED <<cand, rows, app, hold, job, ckpt, store, ledger, exp, screen>>
    BY <1>3 DEF people, beside
  <2>3. /\ NonePending /\ ledger = proc[p].entry /\ Written(proc[p].entry)
        /\ proc[p].entry.v = req.version
    BY <1>1, <1>3, HandlerIs DEF HandlerOK
  <2>4. /\ proc' \in [Procs -> Handlers] /\ proc'[p].pc = "done" /\ proc'[p].v = proc[p].v
        /\ \A q \in Procs \ {p} : proc'[q] = proc[q]
    BY <1>1, <1>3, GotoIs DEF Steps
  <2>5. TypeOK'
    BY <1>1, <2>1, <2>2, <2>4, Types DEF PeopleTypes, BesideTypes, DataTypes, WorkTypes
  <2>6. Grows
    BY <1>1, <2>1, <2>2 DEF Grows, Reqs, Versions
  <2>7. HandlerNext(proc'[p])
    BY <1>1, <1>3, <2>1, <2>4 DEF HandlerNext, Reqs, Versions
  <2>8. HandlersOK'
    BY <2>4, <2>6, <2>7, HandlersKept
  <2>9. RequestOK' /\ ActiveJobIsCurrent' /\ CheckpointsOK'
    BY <1>3, <2>1, <2>2 DEF IInv, RequestOK, ActiveJobIsCurrent, CheckpointsOK, Undecided
  <2>10. CompletedIsAttested'
    BY <1>3, <2>1, <2>2, <2>3 DEF CompletedIsAttested, NonePending, Written
  <2> QED
    BY <2>5, <2>8, <2>9, <2>10 DEF IInv
<1> QED
  BY <1>2, <1>3 DEF Complete

LEMMA VerifyStep ==
  ASSUME IInv, NEW p \in Procs, Verify(p)
  PROVE  IInv'
<1>1. proc[p].pc = "verify" /\ BesideTypes
  BY Types DEF Verify, At, IInv
<1>2. CASE Raise(p, "permanent") \/ Raise(p, "retry")
  BY <1>1, <1>2, RaiseStep
<1>3. CASE Goto(p, "done") /\ UNCHANGED <<cand, people, req, job, ckpt, store, ledger, beside>>
  <2>1. UNCHANGED <<cand, rows, app, hold, req, job, ckpt, store, ledger>> /\ BesideTypes'
    BY <1>1, <1>3 DEF people, beside, BesideTypes
  <2>2. HandlerNext(proc'[p])
    BY <1>1, <1>3, <2>1, GotoIs, HandlerIs DEF HandlerOK, HandlerNext, Steps
  <2> QED
    BY <1>1, <1>3, <2>1, <2>2, GotoMoves, LookStep DEF Steps
<1> QED
  BY <1>2, <1>3 DEF Verify

-----------------------------------------------------------------------------
(* The invariant.                                                           *)
LEMMA HandlerStep ==
  ASSUME IInv, NEW p \in Procs, Handler(p)
  PROVE  IInv'
<1>1. GiveUp(p) => IInv'
  BY RaiseStep DEF GiveUp, At
<1> QED
  BY <1>1, ClaimStep, SettleExportsStep, PickArtifactStep, DeleteObjectStep, CheckpointStep, CheckRedactionStep,
     RedactStep, PersistStep, WriteLedgerStep, CompleteStep, VerifyStep, SucceedStep DEF Handler

LEMMA Initially == Init => IInv
<1> SUFFICES ASSUME Init PROVE IInv
  OBVIOUS
<1>1. NoEvidence.manifest \in Manifest /\ NoEvidence.manifest.rows = {}
  BY ConstantsAssumption DEF NoEvidence, Manifest
<1>2. req \in Reqs /\ req.status = "none" /\ req.version = 1 /\ req.manifest = NoEvidence.manifest
  BY <1>1, ConstantsAssumption DEF Init, Reqs, Versions
<1>3. cand \in Cands /\ cand.version = 1 /\ ~cand.deleted
  BY ConstantsAssumption DEF Init, Cands
<1>4. \A v \in Versions : job[v] = [st |-> "none", n |-> 0]
  BY DEF Init
<1>5. job \in [Versions -> JobRows]
  BY ConstantsAssumption DEF Init, JobRows
<1>6. \A o \in Objects : ckpt[o] = NoCkpt
  BY DEF Init
<1>7. PeopleTypes
  BY <1>2, <1>3 DEF Init, PeopleTypes, Owned, Objects
<1>8. BesideTypes /\ DataTypes /\ WorkTypes
  BY <1>5, IdleIs DEF Init, BesideTypes, DataTypes, WorkTypes, Exps, Objects
<1>9. TypeOK
  BY <1>7, <1>8, Types
<1>10. RequestOK
  BY <1>1, <1>2, <1>3, ConstantsAssumption DEF Init, RequestOK
<1>11. ActiveJobIsCurrent /\ CheckpointsOK /\ CompletedIsAttested
  BY <1>2, <1>4, <1>6, IdleIs DEF ActiveJobIsCurrent, CheckpointsOK, CompletedIsAttested, Active, Objects
<1>12. HandlersOK
  BY DEF Init, HandlersOK, Idle
<1> QED
  BY <1>9, <1>10, <1>11, <1>12 DEF IInv

LEMMA Inductive == IInv /\ [Next]_vars => IInv'
<1> SUFFICES ASSUME IInv, [Next]_vars PROVE IInv'
  OBVIOUS
<1>1. CASE UNCHANGED vars
  <2>1. UNCHANGED <<cand, rows, app, hold, req, job, ckpt, store, ledger, proc, exp, screen>>
    BY <1>1 DEF vars
  <2> QED
    BY <2>1, LookStep, Types DEF HandlersMove, IInv, WorkTypes, BesideTypes
<1> QED
  BY <1>1, PeopleStep, BesideStep, CreateRequestStep, RefreshManifestStep, ApproveStep, PlaceHoldStep, HandlerStep,
     CrashStep, TakeJobStep, LoseLeaseStep DEF Next

THEOREM DeletionInvariant == Spec => []IInv
  BY Initially, Inductive, PTL DEF Spec

(* A completed deletion left a tombstone and evidence of the version and    *)
(* of the manifest that was approved, none of whose files is still stored,  *)
(* and only the job of the present version can run: for any number of       *)
(* workers, objects, attempts and decisions, with handlers that outlive     *)
(* their leases (deletion_service.py, terminal.py).                         *)
THEOREM EvidenceCorrect == Spec => [](CompletedFilesGone /\ CompletedIsAttested /\ ActiveJobIsCurrent)
<1>1. IInv => CompletedFilesGone
  <2> SUFFICES ASSUME IInv, req.status = "completed", NEW f \in Files \cap req.manifest.rows PROVE f \notin store
    BY DEF CompletedFilesGone, IInv, CompletedIsAttested
  <2>1. f \in Objects /\ ckpt[f] \in CkptRows
    BY Types DEF Objects, IInv, DataTypes
  <2>2. ckpt[f].st = "deleted"
    BY <2>1 DEF IInv, CheckpointsOK, CompletedIsAttested, NonePending, CkptRows
  <2> QED
    BY <2>2 DEF IInv, CheckpointsOK
<1>2. IInv => CompletedIsAttested /\ ActiveJobIsCurrent
  BY DEF IInv
<1> QED
  BY <1>1, <1>2, DeletionInvariant, PTL

-----------------------------------------------------------------------------
(* CandidateDeletion implements DeletionContract.                           *)
Still == req' = req /\ cand'.deleted = cand.deleted /\ ledger' = ledger

LEMMA RaiseRefines ==
  ASSUME IInv, NEW p \in Procs, proc[p].pc # "idle", NEW outcome, Raise(p, outcome)
  PROVE  Contract!Fail \/ Still
<1>1. UNCHANGED <<cand, ledger>> /\ (req' = req \/ req' = DeadLetter(proc[p].v)) /\ proc[p].v \in Versions
  BY HandlerIs DEF Raise, Handlers
<1> QED
  BY <1>1, DeadLetterIs DEF Still, Contract!Fail, Contract!Decide, Contract!Move

LEMMA HandlerRefines ==
  ASSUME IInv, NEW p \in Procs, Handler(p)
  PROVE  Contract!ContractNext \/ Still
<1>1. req \in Reqs
  BY Types DEF IInv, PeopleTypes
<1>2. proc[p].pc # "idle"
  BY DEF Handler, Claim, SettleExports, PickArtifact, DeleteObject, DeleteFails, GiveUp, MarkDeleted, CheckRedaction,
         Redact, Persist, WriteLedger, Complete, Verify, Succeed, At
<1>3. CASE \E outcome : Raise(p, outcome)
  BY <1>2, <1>3, RaiseRefines DEF Contract!ContractNext
<1>4. CASE Claim(p)
  <2>1. CASE /\ ~Stale(p) /\ req.status # "completed" /\ req' = [req EXCEPT !.status = "executing"]
             /\ UNCHANGED <<cand, ledger>>
    <3>1. req.status \in {"approved", "executing"}
      BY <2>1 DEF Stale
    <3>2. req'.status = "executing" /\ req'.version = req.version /\ (req.status = "executing" => req' = req)
      BY <1>1, <2>1 DEF Reqs
    <3> QED
      BY <2>1, <3>1, <3>2 DEF Still, Contract!Begin, Contract!Move, Contract!ContractNext
  <2>2. CASE UNCHANGED <<req, cand, ledger>>
    BY <2>2 DEF Still
  <2> QED
    BY <1>3, <1>4, <2>1, <2>2 DEF Claim
<1>5. CASE Redact(p)
  <2>1. CASE RoutineAccepts /\ UNCHANGED <<req, ledger>>
             /\ cand' = IF cand.deleted THEN cand ELSE [version |-> cand.version + 1, deleted |-> TRUE]
    BY <2>1 DEF RoutineAccepts, Still, Contract!Erase, Contract!ContractNext
  <2> QED
    BY <1>3, <1>5, <2>1 DEF Redact
<1>6. CASE WriteLedger(p)
  <2>1. CASE proc[p].pc = "write" /\ UNCHANGED <<req, cand>> /\ ledger \in {NoEvidence, proc[p].entry} /\ ledger' = proc[p].entry
    <3>1. cand.deleted /\ proc[p].entry # NoEvidence
      BY <1>2, <2>1, HandlerIs DEF HandlerOK, NoEvidence
    <3> QED
      BY <2>1, <3>1 DEF Still, Contract!Prove, Contract!ContractNext
  <2> QED
    BY <1>3, <1>6, <2>1 DEF WriteLedger, At
<1>7. CASE Complete(p)
  <2>1. CASE /\ proc[p].pc = "complete" /\ req.status = "executing" /\ cand.deleted /\ UNCHANGED <<cand, ledger>>
             /\ req' = [req EXCEPT !.status = "completed"]
    <3>1. ledger # NoEvidence
      BY <1>2, <2>1, HandlerIs DEF HandlerOK, NoEvidence
    <3>2. req'.status = "completed" /\ req'.version = req.version
      BY <1>1, <2>1 DEF Reqs
    <3> QED
      BY <2>1, <3>1, <3>2 DEF Contract!Finish, Contract!Move, Contract!ContractNext
  <2> QED
    BY <1>3, <1>7, <2>1 DEF Complete, At
<1>8. CASE SettleExports(p) \/ CheckRedaction(p) \/ Persist(p) \/ Verify(p) \/ GiveUp(p)
  <2>1. CASE UNCHANGED <<req, cand, ledger>>
    BY <2>1 DEF Still
  <2> QED
    BY <1>3, <1>8, <2>1 DEF SettleExports, CheckRedaction, Persist, Verify, GiveUp
<1>9. CASE PickArtifact(p) \/ DeleteObject(p) \/ DeleteFails(p) \/ MarkDeleted(p) \/ Succeed(p)
  BY <1>9 DEF PickArtifact, DeleteObject, DeleteFails, MarkDeleted, Succeed, Still
<1> QED
  BY <1>4, <1>5, <1>6, <1>7, <1>8, <1>9 DEF Handler

LEMMA DecisionRefines ==
  ASSUME IInv, \/ \E u \in Users : CreateRequest(u) \/ \E t \in BOOLEAN : Approve(u, t)
               \/ RefreshManifest \/ PlaceHold
  PROVE  Contract!ContractNext \/ Still
<1>1. req \in Reqs /\ UNCHANGED <<cand, ledger>>
  BY Types DEF IInv, PeopleTypes, CreateRequest, Approve, RefreshManifest, PlaceHold
<1>2. CASE \E u \in Users : CreateRequest(u)
  <2>1. req.status = "none" /\ req.version = 1 /\ req'.status = "requested" /\ req'.version = 1
    BY <1>2 DEF CreateRequest, IInv, RequestOK
  <2> QED
    BY <1>1, <2>1 DEF Contract!Ask, Contract!Move, Contract!ContractNext
<1>3. CASE \E u \in Users, t \in BOOLEAN : Approve(u, t)
  <2>1. req.status \in {"requested", "failed"} /\ req'.status = "approved" /\ req'.version = req.version + 1
    BY <1>1, <1>3 DEF Approve, Approvable, Reqs
  <2> QED
    BY <1>1, <2>1 DEF Contract!Approve, Contract!Decide, Contract!Move, Contract!ContractNext
<1>4. CASE RefreshManifest
  <2>1. req.status = "requested" /\ req'.status = "requested" /\ req'.version = req.version + 1
    BY <1>1, <1>4 DEF RefreshManifest, Reqs
  <2> QED
    BY <1>1, <2>1 DEF Contract!Refresh, Contract!Decide, Contract!Move, Contract!ContractNext
<1>5. CASE PlaceHold
  <2>1. \/ req' = req
        \/ req.status = "approved" /\ req'.status = "failed" /\ req'.version = req.version + 1
    BY <1>1, <1>5 DEF PlaceHold, Reqs
  <2> QED
    BY <1>1, <2>1 DEF Still, Contract!Suspend, Contract!Decide, Contract!Move, Contract!ContractNext
<1> QED
  BY <1>2, <1>3, <1>4, <1>5

LEMMA StepRefines ==
  ASSUME IInv, [Next]_vars
  PROVE  Contract!ContractNext \/ Still
<1>1. CASE UNCHANGED vars
  BY <1>1 DEF vars, Still
<1>2. ASSUME NEW v \in Versions, LoseLease(v) PROVE Contract!Fail \/ Still
  <2>1. UNCHANGED <<cand, ledger>> /\ (req' = req \/ req' = DeadLetter(v))
    BY <1>2 DEF LoseLease
  <2> QED
    BY <2>1, DeadLetterIs DEF Still, Contract!Fail, Contract!Decide, Contract!Move
<1>3. CASE \/ \E r \in Rows \cup Files \cup {AppRow} : AddRow(r)
           \/ CloseApplication \/ ReleaseHold
           \/ \E p \in Procs : Crash(p) \/ \E v \in Versions : TakeJob(p, v)
           \/ CreateExport \/ TakeExport \/ PrepareExport \/ WriteExport \/ FinalizeExport
           \/ CrashExport \/ BuryExport \/ Screening
  BY <1>3 DEF AddRow, CloseApplication, ReleaseHold, Crash, TakeJob, CreateExport, TakeExport, PrepareExport,
              WriteExport, FinalizeExport, CrashExport, BuryExport, Screening, Still
<1>4. CASE EditCandidate
  <2>1. cand \in Cands /\ cand' = [cand EXCEPT !.version = @ + 1] /\ UNCHANGED <<req, ledger>>
    BY <1>4, Types DEF EditCandidate, IInv, PeopleTypes
  <2> QED
    BY <2>1 DEF Still, Cands
<1> QED
  BY <1>1, <1>2, <1>3, <1>4, HandlerRefines, DecisionRefines DEF Next, Contract!ContractNext

(* The deletion keeps DeletionContract: data is erased only in an execution *)
(* that was approved, and once; nothing completes that is not erased and    *)
(* proven; each decision carries a new version.                             *)
THEOREM ContractKept == Spec => KeepsContract
<1>1. Init => Contract!ContractInit
  BY DEF Init, Contract!ContractInit
<1>2. IInv /\ [Next]_vars => [Contract!ContractNext]_(Contract!state)
  BY StepRefines DEF Still, Contract!state
<1> QED
  BY <1>1, <1>2, DeletionInvariant, PTL DEF Spec, KeepsContract, Contract!ContractSpec

-----------------------------------------------------------------------------
(* Handlers that keep their leases.                                         *)
LEMMA Alone ==
  ASSUME IInv, OneHandler, NEW p \in Procs, NEW q \in Procs \ {p}, proc[p].pc # "idle", proc[q].pc # "idle", Holds(p)
  PROVE  /\ ~Holds(q) /\ proc[q].pc = "claim" /\ proc[q].v < req.version
         /\ proc[p].v = req.version /\ proc[q].v # proc[p].v
<1>1. ~Holds(q)
  BY DEF OneHandler
<1>2. proc[q].pc = "claim" /\ proc[q].v < req.version
  BY <1>1 DEF OneHandler
<1>3. proc[p].v = req.version /\ req \in Reqs /\ proc[q] \in Handlers
  BY HandlerIs, Types DEF Holds, IInv, ActiveJobIsCurrent, Active, PeopleTypes, Handlers
<1> QED
  BY <1>1, <1>2, <1>3 DEF Reqs, Handlers, Versions

(* A handler without its job only finds that out.                           *)
LEMMA WithoutJob ==
  ASSUME IInv, OneHandler, NEW p \in Procs, Handler(p), ~Holds(p)
  PROVE  /\ proc' = [proc EXCEPT ![p] = Idle]
         /\ UNCHANGED <<cand, rows, app, hold, req, job, ckpt, store, ledger, exp, screen>>
<1>1. proc[p].pc # "idle"
  BY DEF Handler, Claim, SettleExports, PickArtifact, DeleteObject, DeleteFails, GiveUp, MarkDeleted, CheckRedaction,
         Redact, Persist, WriteLedger, Complete, Verify, Succeed, At
<1>2. proc[p].pc = "claim" /\ proc[p].v < req.version
  BY <1>1 DEF OneHandler
<1>3. Stale(p) /\ Claim(p)
  <2>1. proc[p].v \in Nat /\ req.version \in Nat
    BY <1>1, HandlerIs, Types DEF Handlers, Versions, IInv, PeopleTypes, Reqs
  <2> QED
    BY <1>2, <2>1 DEF Stale, Handler, SettleExports, PickArtifact, DeleteObject, DeleteFails, GiveUp, MarkDeleted,
       CheckRedaction, Redact, Persist, WriteLedger, Complete, Verify, Succeed, At
<1>4. \E outcome : Raise(p, outcome)
  BY <1>3 DEF Claim
<1> QED
  BY <1>4 DEF Raise, people, beside

(* The one handler that holds the job goes on, or ends.                     *)
LEMMA HolderKeeps ==
  ASSUME IInv, OneHandler, NEW p \in Procs, proc[p].pc # "idle", Holds(p),
         \A q \in Procs \ {p} : proc'[q] = proc[q],
         \A u \in Versions \ {proc[p].v} : job'[u] = job[u], req'.version >= req.version,
         proc'[p].pc # "idle" =>
           /\ job' = job /\ proc'[p].v = proc[p].v /\ proc'[p].n = proc[p].n
           /\ proc'[p].pc \in Deleting \cup {"exports"} => req'.status = "executing"
           /\ proc'[p].pc \in Deleting => exp'.st \notin Active
           /\ proc'[p].pc = "mark" /\ proc'[p].obj = Export => Export \notin store',
         req' \in Reqs
  PROVE  OneHandler'
<1>1. \A q \in Procs \ {p} : proc[q].pc # "idle" =>
        /\ ~Holds(q) /\ proc[q].pc = "claim" /\ proc[q].v < req.version /\ proc[q].v # proc[p].v
        /\ proc[q].v \in Versions
  BY Alone, HandlerIs DEF Handlers
<1>2. \A q \in Procs \ {p} : proc'[q].pc # "idle" =>
        ~Holds(q)' /\ proc'[q].pc = "claim" /\ proc'[q].v < req'.version
  <2>1. req.version \in Nat /\ req'.version \in Nat
    BY Types DEF IInv, PeopleTypes, Reqs, Versions
  <2> QED
    BY <1>1, <2>1 DEF Holds, Versions
<1>3. proc'[p].pc # "idle" => Holds(p)'
  BY DEF Holds
<1> QED
  BY <1>2, <1>3 DEF OneHandler, Deleting

LEMMA SteadyHolder ==
  ASSUME IInv, OneHandler, NEW p \in Procs, proc[p].pc # "idle", Holds(p), NEW pc \in Steps \ {"idle"}, Goto(p, pc),
         UNCHANGED job, req'.version = req.version, req' \in Reqs,
         pc \in Deleting \cup {"exports"} => req'.status = "executing",
         pc \in Deleting => exp'.st \notin Active,
         pc = "mark" /\ proc[p].obj = Export => Export \notin store'
  PROVE  OneHandler'
<1>1. req.version \in Nat
  BY Types DEF IInv, PeopleTypes, Reqs, Versions
<1> QED
  BY <1>1, GotoIs, HolderKeeps

LEMMA RaiseUnlapsed ==
  ASSUME IInv, OneHandler, NEW p \in Procs, proc[p].pc # "idle", Holds(p), NEW outcome, Raise(p, outcome)
  PROVE  OneHandler' /\ UNCHANGED <<exp, rows, store, ckpt>>
<1>1. proc[p].v \in Versions /\ proc \in [Procs -> Handlers] /\ req \in Reqs
  BY HandlerIs, Types DEF Handlers, IInv, WorkTypes, PeopleTypes
<1>2. /\ proc'[p].pc = "idle" /\ \A q \in Procs \ {p} : proc'[q] = proc[q]
      /\ \A u \in Versions \ {proc[p].v} : job'[u] = job[u]
      /\ req' = req \/ req' = DeadLetter(proc[p].v)
      /\ UNCHANGED <<exp, rows, store, ckpt>>
  <2>1. proc' = [proc EXCEPT ![p] = Idle] /\ \E st : job' = [job EXCEPT ![proc[p].v].st = st]
    BY DEF Raise
  <2>2. job \in [Versions -> JobRows]
    BY Types DEF IInv, WorkTypes
  <2> QED
    BY <1>1, <2>1, <2>2 DEF Raise, Idle, people, beside
<1>3. req' \in Reqs /\ req'.version >= req.version
  BY <1>1, <1>2, DeadLetterIs DEF Reqs, Versions
<1> QED
  BY <1>2, <1>3, HolderKeeps

LEMMA ExportKept ==
  ASSUME Unlapsed, UNCHANGED <<exp, rows>>, ckpt'[Export].st = "deleted" => ckpt[Export].st = "deleted",
         store' \subseteq store
  PROVE  ExportOver'
  BY DEF Unlapsed, ExportOver

(* No object is deleted before the last export is over.                     *)
LEMMA HolderUnlapsed ==
  ASSUME IInv, Unlapsed, NEW p \in Procs, proc[p].pc # "idle", Holds(p), Handler(p)
  PROVE  Unlapsed'
<1> USE DEF Unlapsed
<1>1. /\ req \in Reqs /\ req.version \in Nat /\ exp \in Exps /\ ckpt \in [Objects -> CkptRows] /\ store \subseteq Objects
      /\ proc[p] \in Handlers /\ HandlerOK(proc[p]) /\ Export \in Objects
  BY HandlerIs, Types DEF IInv, PeopleTypes, BesideTypes, DataTypes, Reqs, Versions, Objects
<1>2. CASE \E outcome : Raise(p, outcome)
  BY <1>2, RaiseUnlapsed, ExportKept
<1>3. CASE Claim(p)
  <2>1. CASE /\ Goto(p, "verify") /\ UNCHANGED <<cand, people, req, job, ckpt, store, ledger, beside>>
    BY <1>1, <2>1, SteadyHolder, ExportKept DEF Steps, Deleting, people, beside
  <2>2. CASE /\ req.status = "executing" /\ Goto(p, "exports")
             /\ UNCHANGED <<cand, people, req, job, ckpt, store, ledger, beside>>
    BY <1>1, <2>2, SteadyHolder, ExportKept DEF Steps, Deleting, people, beside
  <2>3. CASE /\ Goto(p, "exports") /\ req' = [req EXCEPT !.status = "executing"]
             /\ ckpt' = IF req.status = "executing" THEN ckpt
                        ELSE [o \in Objects |-> IF o \in rows
                                THEN [st |-> "pending", tried |-> FALSE, v |-> req.version] ELSE ckpt[o]]
             /\ UNCHANGED <<cand, people, job, store, ledger, exp>>
    <3>1. req' \in Reqs /\ req'.status = "executing" /\ req'.version = req.version
      BY <1>1, <2>3 DEF Reqs, Open
    <3>2. ckpt'[Export].st = "deleted" => ckpt[Export].st = "deleted"
      BY <1>1, <2>3
    <3>3. UNCHANGED <<rows, exp, store, job>>
      BY <2>3 DEF people
    <3> QED
      BY <2>3, <3>1, <3>2, <3>3, SteadyHolder, ExportKept DEF Steps, Deleting
  <2> QED
    BY <1>2, <1>3, <2>1, <2>2, <2>3 DEF Claim
<1>4. CASE SettleExports(p)
  <2>1. CASE /\ req.status = "executing" /\ Goto(p, "pick") /\ exp.st # "running"
             /\ exp' = IF exp.st = "queued" THEN [exp EXCEPT !.st = "failed", !.job = "ended"] ELSE exp
             /\ UNCHANGED <<cand, people, req, job, ckpt, store, ledger>>
    <3>1. exp'.st \notin Active /\ exp'.writer = exp.writer /\ (exp'.st = exp.st \/ exp'.st = "failed")
          /\ (exp.st = "queued" => exp'.st = "failed")
      BY <1>1, <2>1 DEF Exps, Active
    <3>2. OneHandler'
      BY <1>1, <2>1, <3>1, SteadyHolder DEF Steps, Deleting
    <3>3. ExportOver'
      BY <2>1, <3>1 DEF ExportOver, people
    <3> QED
      BY <3>2, <3>3
  <2> QED
    BY <1>2, <1>4, <2>1 DEF SettleExports
<1>5. CASE PickArtifact(p)
  <2>1. /\ proc[p].pc = "pick" /\ UNCHANGED <<cand, rows, app, hold, req, job, ckpt, store, ledger, exp, screen>>
        /\ req.status = "executing" /\ exp.st \notin Active
    BY <1>5 DEF PickArtifact, At, people, beside, OneHandler, Deleting
  <2>2. CASE Goto(p, "check")
    BY <1>1, <2>1, <2>2, SteadyHolder, ExportKept DEF Steps, Deleting
  <2>3. ASSUME NEW o \in Objects,
               proc' = [proc EXCEPT ![p] = [@ EXCEPT !.pc = "delete", !.obj = o, !.cv = ckpt[o].v]]
        PROVE  Unlapsed'
    <3>1. /\ proc'[p].pc = "delete" /\ proc'[p].v = proc[p].v /\ proc'[p].n = proc[p].n
          /\ \A q \in Procs \ {p} : proc'[q] = proc[q]
      BY <1>1, <2>3, Types DEF IInv, WorkTypes, Handlers
    <3> QED
      BY <1>1, <2>1, <3>1, HolderKeeps, ExportKept
  <2> QED
    BY <1>5, <2>2, <2>3 DEF PickArtifact
<1>6. CASE DeleteObject(p)
  <2>1. /\ proc[p].pc = "delete" /\ store' = store \ {proc[p].obj} /\ Goto(p, "mark")
        /\ UNCHANGED <<rows, req, job, ckpt, exp>> /\ req.status = "executing" /\ exp.st \notin Active
    BY <1>6 DEF DeleteObject, At, people, beside, OneHandler, Deleting
  <2> QED
    BY <1>1, <2>1, SteadyHolder, ExportKept DEF Steps
<1>7. CASE DeleteFails(p)
  <2>1. /\ proc[p].pc = "delete" /\ Goto(p, "giveup") /\ UNCHANGED <<rows, req, job, store, exp>>
        /\ ckpt' = ckpt \/ ckpt' = [ckpt EXCEPT ![proc[p].obj].tried = TRUE]
        /\ req.status = "executing" /\ exp.st \notin Active
    BY <1>7 DEF DeleteFails, At, people, beside, OneHandler, Deleting
  <2>2. ckpt'[Export].st = ckpt[Export].st
    BY <1>1, <2>1 DEF CkptRows
  <2> QED
    BY <1>1, <2>1, <2>2, SteadyHolder, ExportKept DEF Steps
<1>8. CASE MarkDeleted(p)
  <2>1. /\ proc[p].pc = "mark" /\ Goto(p, "pick") /\ UNCHANGED <<rows, req, job, store, exp>>
        /\ ckpt' = ckpt \/ ckpt' = [ckpt EXCEPT ![proc[p].obj] = [@ EXCEPT !.st = "deleted", !.tried = TRUE]]
        /\ req.status = "executing" /\ exp.st \notin Active /\ proc[p].obj \in rows
        /\ (proc[p].obj = Export => Export \notin store)
    BY <1>1, <1>8 DEF MarkDeleted, At, people, beside, OneHandler, Deleting, HandlerOK
  <2>2. proc[p].obj # Export => ckpt'[Export] = ckpt[Export]
    BY <1>1, <2>1
  <2>3. ExportOver'
    <3>1. CASE proc[p].obj = Export
      BY <1>1, <2>1, <3>1 DEF ExportOver, Exps, Active
    <3>2. CASE proc[p].obj # Export
      BY <2>1, <2>2, <3>2, ExportKept
    <3> QED
      BY <3>1, <3>2
  <2> QED
    BY <1>1, <2>1, <2>3, SteadyHolder DEF Steps
<1>9. CASE CheckRedaction(p) \/ Redact(p) \/ Persist(p) \/ WriteLedger(p)
  <2>1. req.status = "executing" /\ exp.st \notin Active
    BY <1>9 DEF CheckRedaction, Redact, Persist, WriteLedger, At, OneHandler, Deleting
  <2>2. CASE UNCHANGED <<rows, req, job, ckpt, store, exp>> /\ \E pc \in {"redact", "persist", "complete"} : Goto(p, pc)
    BY <1>1, <2>1, <2>2, SteadyHolder, ExportKept DEF Steps
  <2>3. CASE /\ UNCHANGED <<rows, req, job, ckpt, store, exp>>
             /\ \E e : proc' = [proc EXCEPT ![p] = [@ EXCEPT !.pc = "write", !.entry = e]]
    <3>1. /\ proc'[p].pc = "write" /\ proc'[p].v = proc[p].v /\ proc'[p].n = proc[p].n
          /\ \A q \in Procs \ {p} : proc'[q] = proc[q]
      BY <1>1, <2>3, Types DEF IInv, WorkTypes, Handlers
    <3> QED
      BY <1>1, <2>1, <2>3, <3>1, HolderKeeps, ExportKept
  <2> QED
    BY <1>2, <1>9, <2>2, <2>3 DEF CheckRedaction, Redact, Persist, WriteLedger, people, beside
<1>10. CASE Complete(p) \/ Verify(p)
  <2>1. CASE /\ UNCHANGED <<rows, job, ckpt, store, exp>> /\ Goto(p, "done")
             /\ req' \in {req, [req EXCEPT !.status = "completed"]}
    <3>1. req' \in Reqs /\ req'.version = req.version
      BY <1>1, <2>1 DEF Reqs
    <3> QED
      BY <2>1, <3>1, SteadyHolder, ExportKept DEF Steps, Deleting
  <2> QED
    BY <1>2, <1>10, <2>1 DEF Complete, Verify, people, beside
<1>11. CASE Succeed(p)
  <2>1. /\ proc'[p].pc = "idle" /\ \A q \in Procs \ {p} : proc'[q] = proc[q]
        /\ \A u \in Versions \ {proc[p].v} : job'[u] = job[u]
        /\ UNCHANGED <<rows, req, ckpt, store, exp>>
    BY <1>11, Types DEF Succeed, Idle, people, beside, IInv, WorkTypes
  <2> QED
    BY <1>1, <2>1, HolderKeeps, ExportKept
<1>12. CASE GiveUp(p)
  BY <1>2, <1>12 DEF GiveUp
<1> QED
  BY <1>3, <1>4, <1>5, <1>6, <1>7, <1>8, <1>9, <1>10, <1>11, <1>12 DEF Handler

(* People decide nothing that a running execution would not notice.         *)
LEMMA PeopleUnlapsed ==
  ASSUME IInv, Unlapsed, \/ \E r \in Rows \cup Files \cup {AppRow} : AddRow(r)
                         \/ EditCandidate \/ CloseApplication \/ ReleaseHold
  PROVE  Unlapsed'
<1>1. /\ UNCHANGED <<req, job, proc, exp, ckpt>>
      /\ (Export \in rows' => Export \in rows) /\ (Export \in store' => Export \in store)
  BY ConstantsAssumption DEF AddRow, EditCandidate, CloseApplication, ReleaseHold, people, beside
<1> QED
  BY <1>1 DEF Unlapsed, OneHandler, ExportOver, Holds

(* A decision cannot disturb a running execution.                           *)
LEMMA DecisionKeeps ==
  ASSUME IInv, Unlapsed, req.status # "executing", UNCHANGED <<proc, exp, rows, store>>,
         ckpt' = ckpt \/ ckpt' = [o \in Objects |-> NoCkpt],
         req'.version \in Nat, req'.version >= req.version,
         \A p \in Procs : proc[p].pc # "idle" =>
           \/ Holds(p)' <=> Holds(p)
           \/ ~Holds(p)' /\ proc[p].pc = "claim" /\ proc[p].v < req'.version
  PROVE  Unlapsed'
<1>1. req.version \in Nat
  BY Types DEF IInv, PeopleTypes, Reqs, Versions
<1>2. ASSUME NEW p \in Procs, proc[p].pc # "idle"
      PROVE  /\ proc[p].pc \notin Deleting \cup {"exports"}
             /\ Holds(p)' => Holds(p)
             /\ Holds(p)' \/ (proc[p].pc = "claim" /\ proc[p].v < req'.version)
  <2>1. proc[p].v \in Nat
    BY <1>2, HandlerIs DEF Handlers, Versions
  <2>2. /\ proc[p].pc \notin Deleting \cup {"exports"}
        /\ Holds(p) \/ (proc[p].pc = "claim" /\ proc[p].v < req.version)
    BY <1>2 DEF Unlapsed, OneHandler
  <2> QED
    BY <1>1, <1>2, <2>1, <2>2
<1>3. OneHandler'
  BY <1>2 DEF Unlapsed, OneHandler, Deleting
<1>4. ckpt'[Export].st = "deleted" => ckpt[Export].st = "deleted"
  BY IdleIs DEF Objects
<1> QED
  BY <1>3, <1>4, ExportKept DEF Unlapsed

LEMMA DecisionUnlapsed ==
  ASSUME IInv, Unlapsed, \/ \E u \in Users : CreateRequest(u) \/ \E t \in BOOLEAN : Approve(u, t)
                         \/ RefreshManifest \/ PlaceHold
  PROVE  Unlapsed'
<1>1. /\ req \in Reqs /\ req.version \in Nat /\ req.version \in Versions /\ job \in [Versions -> JobRows]
      /\ \A v \in Versions : v \in Nat
      /\ \A p \in Procs : proc[p].pc # "idle" => proc[p].v \in Versions /\ proc[p].v <= req.version
  BY Types, HandlerIs DEF IInv, PeopleTypes, Reqs, Versions, WorkTypes, Handlers, HandlerOK
<1>2. ASSUME NEW u \in Users, CreateRequest(u) PROVE Unlapsed'
  <2>1. UNCHANGED <<proc, exp, rows, store, job, ckpt>> /\ req.status = "none" /\ req'.version = 1 /\ req.version = 1
    BY <1>2 DEF CreateRequest, people, beside, IInv, RequestOK
  <2>2. \A p \in Procs : Holds(p)' <=> Holds(p)
    BY <2>1 DEF Holds
  <2> QED
    BY <2>1, <2>2, DecisionKeeps
<1>3. CASE RefreshManifest
  <2>1. /\ UNCHANGED <<proc, exp, rows, store, job>> /\ req.status = "requested"
        /\ ckpt' = [o \in Objects |-> NoCkpt] /\ req'.version = req.version + 1
    BY <1>1, <1>3 DEF RefreshManifest, people, beside, Reqs
  <2>2. \A p \in Procs : Holds(p)' <=> Holds(p)
    BY <2>1 DEF Holds
  <2> QED
    BY <1>1, <2>1, <2>2, DecisionKeeps
<1>4. ASSUME NEW u \in Users, NEW t \in BOOLEAN, Approve(u, t) PROVE Unlapsed'
  <2>1. /\ UNCHANGED <<proc, exp, rows, store>> /\ req.status \in {"requested", "failed"}
        /\ ckpt' = ckpt \/ ckpt' = [o \in Objects |-> NoCkpt]
        /\ req' = [req EXCEPT !.status = "approved", !.version = @ + 1, !.manifest = Current]
        /\ job' = [job EXCEPT ![req.version + 1].st = "queued"]
    BY <1>4 DEF Approve, Approvable, people, beside
  <2>2. req'.version = req.version + 1
    BY <1>1, <2>1 DEF Reqs
  <2>3. ASSUME NEW p \in Procs, proc[p].pc # "idle" PROVE Holds(p)' <=> Holds(p)
    <3>1. job'[proc[p].v] = job[proc[p].v]
      BY <1>1, <2>1, <2>3
    <3> QED
      BY <2>1, <3>1 DEF Holds
  <2> QED
    BY <1>1, <2>1, <2>2, <2>3, DecisionKeeps
<1>5. CASE PlaceHold /\ req.status # "approved"
  <2>1. UNCHANGED <<proc, exp, rows, store, job, ckpt, req>> /\ req.status # "executing"
    BY <1>5 DEF PlaceHold, beside
  <2>2. \A p \in Procs : Holds(p)' <=> Holds(p)
    BY <2>1 DEF Holds
  <2> QED
    BY <1>1, <2>1, <2>2, DecisionKeeps
<1>6. CASE PlaceHold /\ req.status = "approved"
  <2>1. /\ UNCHANGED <<proc, exp, rows, store, ckpt>>
        /\ req' = [req EXCEPT !.status = "failed", !.version = @ + 1]
        /\ job' = IF job[req.version].st \in Active THEN [job EXCEPT ![req.version].st = "cancelled"] ELSE job
    BY <1>6 DEF PlaceHold, beside
  <2>2. req'.version = req.version + 1
    BY <1>1, <2>1 DEF Reqs
  <2>3. job'[req.version].st # "running" /\ \A v \in Versions \ {req.version} : job'[v] = job[v]
    BY <1>1, <2>1 DEF JobRows, Active
  <2>4. ASSUME NEW p \in Procs, proc[p].pc # "idle"
        PROVE  \/ Holds(p)' <=> Holds(p)
               \/ ~Holds(p)' /\ proc[p].pc = "claim" /\ proc[p].v < req'.version
    <3>1. CASE proc[p].v = req.version
      <4>1. proc[p].pc = "claim"
        BY <1>6, <2>4, <3>1 DEF IInv, HandlersOK, HandlerOK
      <4> QED
        BY <1>1, <2>1, <2>2, <2>3, <3>1, <4>1 DEF Holds
    <3>2. CASE proc[p].v # req.version
      BY <1>1, <2>1, <2>3, <2>4, <3>2 DEF Holds
    <3> QED
      BY <3>1, <3>2
  <2> QED
    BY <1>1, <1>6, <2>1, <2>2, <2>4, DecisionKeeps
<1> QED
  BY <1>2, <1>3, <1>4, <1>5, <1>6

(* An export is written only by a writer whose record runs; nothing that an *)
(* execution waits for can start again.                                     *)
LEMMA BesideUnlapsed ==
  ASSUME ~StaleHandlers, IInv, Unlapsed, \/ CreateExport \/ TakeExport \/ PrepareExport \/ WriteExport \/ FinalizeExport
                                         \/ CrashExport \/ BuryExport \/ Screening
  PROVE  Unlapsed'
<1>1. exp \in Exps /\ Export \in Objects
  BY Types DEF IInv, BesideTypes, Objects
<1>2. UNCHANGED <<req, job, proc, ckpt>>
  BY DEF CreateExport, TakeExport, PrepareExport, WriteExport, FinalizeExport, CrashExport, BuryExport, Screening
<1>3. /\ exp'.st \in Active => exp.st \in Active \/ req.status # "executing"
      /\ exp'.writer # "none" => exp'.st = "running"
      /\ exp'.st = "none" => exp.st = "none" /\ UNCHANGED rows
      /\ exp.st \in {"succeeded", "failed"} => exp'.st = exp.st
      /\ store' = store \/ exp.st = "running"
      /\ rows' = rows \/ exp'.st = "running"
  <2>1. CASE CreateExport
    BY <1>1, <2>1 DEF CreateExport, Blocked, people, Exps, Active
  <2>2. CASE TakeExport \/ CrashExport
    BY <1>1, <2>2 DEF TakeExport, CrashExport, people, Exps, Active, Unlapsed, ExportOver
  <2>3. CASE PrepareExport
    BY <1>1, <2>3 DEF PrepareExport, Blocked, DeadExport, people, Exps, Active
  <2>4. CASE WriteExport \/ FinalizeExport
    BY <1>1, <2>4 DEF WriteExport, FinalizeExport, people, Exps, Active, Unlapsed, ExportOver
  <2>5. CASE BuryExport
    BY <1>1, <2>5 DEF BuryExport, DeadExport, people, Exps, Active, Unlapsed, ExportOver
  <2>6. CASE Screening
    BY <2>6 DEF Screening, people, Unlapsed, ExportOver
  <2> QED
    BY <2>1, <2>2, <2>3, <2>4, <2>5, <2>6
<1>4. ckpt[Export].st = "deleted" => exp.st \in {"succeeded", "failed"}
  BY DEF Unlapsed, ExportOver
<1>5. OneHandler'
  BY <1>2, <1>3 DEF Unlapsed, OneHandler, Holds, Active, Deleting
<1>6. ExportOver'
  BY <1>2, <1>3, <1>4 DEF Unlapsed, ExportOver
<1> QED
  BY <1>5, <1>6 DEF Unlapsed

LEMMA QueueUnlapsed ==
  ASSUME ~StaleHandlers, IInv, Unlapsed,
         \/ \E p \in Procs : Crash(p) \/ \E v \in Versions : TakeJob(p, v)
         \/ \E v \in Versions : LoseLease(v)
  PROVE  Unlapsed'
<1>1. /\ job \in [Versions -> JobRows] /\ proc \in [Procs -> Handlers] /\ req \in Reqs /\ req.version \in Nat
  BY Types DEF IInv, WorkTypes, PeopleTypes, Reqs, Versions
<1>2. ExportOver'
  BY ExportKept DEF Crash, TakeJob, LoseLease, people, beside
<1>3. ASSUME NEW p \in Procs, Crash(p) PROVE OneHandler'
  <2>1. /\ proc'[p].pc = "idle" /\ \A q \in Procs \ {p} : proc'[q] = proc[q]
        /\ UNCHANGED <<req, job, exp, store>>
    BY <1>1, <1>3 DEF Crash, Idle, beside
  <2> QED
    BY <2>1 DEF Unlapsed, OneHandler, Holds
<1>4. ASSUME NEW p \in Procs, NEW v \in Versions, TakeJob(p, v) PROVE OneHandler'
  <2>1. /\ job[v].st = "queued" /\ job'[v].st = "running" /\ job'[v].n = job[v].n + 1
        /\ \A u \in Versions \ {v} : job'[u] = job[u]
        /\ proc'[p].pc = "claim" /\ proc'[p].v = v /\ proc'[p].n = job[v].n + 1
        /\ \A q \in Procs \ {p} : proc'[q] = proc[q]
        /\ UNCHANGED <<req, exp, store>>
    BY <1>1, <1>4 DEF TakeJob, Idle, beside
  <2>2. v = req.version
    BY <2>1 DEF IInv, ActiveJobIsCurrent, Active
  <2>3. ASSUME NEW q \in Procs \ {p}, proc[q].pc # "idle"
        PROVE  proc[q].pc = "claim" /\ proc[q].v < req.version /\ ~Holds(q)'
    <3>1. proc[q].v \in Versions /\ proc[q].v \in Nat
      BY <1>1 DEF Handlers, Versions
    <3>2. ~Holds(q)
      BY <2>1, <2>2, <3>1 DEF Holds, IInv, ActiveJobIsCurrent, Active
    <3>3. proc[q].pc = "claim" /\ proc[q].v < req.version
      BY <2>3, <3>2 DEF Unlapsed, OneHandler
    <3> QED
      BY <1>1, <2>1, <2>2, <3>1, <3>2, <3>3 DEF Holds
  <2>4. Holds(p)'
    BY <2>1 DEF Holds
  <2> QED
    BY <2>1, <2>3, <2>4 DEF OneHandler, Deleting
<1>5. ASSUME NEW v \in Versions, LoseLease(v) PROVE OneHandler'
  <2>1. /\ job[v].st = "running" /\ job'[v].st # "running" /\ \A u \in Versions \ {v} : job'[u] = job[u]
        /\ \A q \in Procs : proc[q].pc # "idle" => ~(proc[q].v = v /\ Holds(q))
        /\ req' = req \/ req' = DeadLetter(v)
        /\ UNCHANGED <<proc, exp, store>>
    <3>1. job[v].st = "running" /\ UNCHANGED <<proc, exp, store>>
      BY <1>5 DEF LoseLease, beside
    <3>2. job' = [job EXCEPT ![v].st = "queued"] \/ job' = [job EXCEPT ![v].st = "dead"]
      BY <1>5 DEF LoseLease
    <3>3. job'[v].st # "running" /\ \A u \in Versions \ {v} : job'[u] = job[u]
      BY <1>1, <3>2 DEF JobRows
    <3>4. req' = req \/ req' = DeadLetter(v)
      BY <1>5 DEF LoseLease
    <3>5. \A q \in Procs : proc[q].pc # "idle" => ~(proc[q].v = v /\ Holds(q))
      BY <1>5 DEF LoseLease, At
    <3> QED
      BY <3>1, <3>3, <3>4, <3>5
  <2>2. v = req.version
    BY <2>1 DEF IInv, ActiveJobIsCurrent, Active
  <2>3. req'.version >= req.version /\ req'.version \in Nat
    BY <1>1, <2>1, <2>2, DeadLetterIs
  <2>4. ASSUME NEW q \in Procs, proc[q].pc # "idle"
        PROVE  proc[q].pc = "claim" /\ proc[q].v < req'.version /\ ~Holds(q)'
    <3>1. proc[q].v \in Versions /\ proc[q].v \in Nat
      BY <1>1 DEF Handlers, Versions
    <3>2. ~Holds(q)
      BY <2>1, <2>2, <2>4, <3>1 DEF Holds, IInv, ActiveJobIsCurrent, Active
    <3>3. proc[q].pc = "claim" /\ proc[q].v < req.version
      BY <2>4, <3>2 DEF Unlapsed, OneHandler
    <3> QED
      BY <1>1, <2>1, <2>2, <2>3, <3>1, <3>2, <3>3 DEF Holds
  <2> QED
    BY <2>1, <2>4 DEF OneHandler, Deleting
<1> QED
  BY <1>2, <1>3, <1>4, <1>5 DEF Unlapsed

LEMMA UnlapsedInductive ==
  ASSUME ~StaleHandlers, IInv, Unlapsed, [Next]_vars
  PROVE  Unlapsed'
<1>1. CASE UNCHANGED vars
  BY <1>1 DEF vars, Unlapsed, OneHandler, ExportOver, Holds
<1>2. ASSUME NEW p \in Procs, Handler(p) PROVE Unlapsed'
  <2>1. proc[p].pc # "idle"
    BY <1>2 DEF Handler, Claim, SettleExports, PickArtifact, DeleteObject, DeleteFails, GiveUp, MarkDeleted,
       CheckRedaction, Redact, Persist, WriteLedger, Complete, Verify, Succeed, At
  <2>2. CASE ~Holds(p)
    <3>1. /\ proc'[p].pc = "idle" /\ \A q \in Procs \ {p} : proc'[q] = proc[q]
          /\ UNCHANGED <<req, job, exp, rows, ckpt, store>>
      BY <1>2, <2>2, WithoutJob, Types DEF Unlapsed, IInv, WorkTypes, Idle
    <3> QED
      BY <3>1 DEF Unlapsed, OneHandler, ExportOver, Holds
  <2> QED
    BY <1>2, <2>1, <2>2, HolderUnlapsed
<1> QED
  BY <1>1, <1>2, PeopleUnlapsed, DecisionUnlapsed, BesideUnlapsed, QueueUnlapsed DEF Next

LEMMA UnlapsedHolds == ~StaleHandlers => (Spec => []Unlapsed)
<1> SUFFICES ASSUME ~StaleHandlers PROVE Spec => []Unlapsed
  OBVIOUS
<1>1. Init => Unlapsed
  <2>1. Init => Export \notin rows /\ ckpt[Export] = NoCkpt /\ exp.writer = "none" /\ \A p \in Procs : proc[p].pc = "idle"
    BY ConstantsAssumption DEF Init, Objects, Idle
  <2> QED
    BY <2>1, IdleIs DEF Unlapsed, OneHandler, ExportOver
<1>2. IInv /\ Unlapsed /\ [Next]_vars => Unlapsed'
  BY UnlapsedInductive
<1> QED
  BY <1>1, <1>2, DeletionInvariant, PTL DEF Spec

(* As long as no handler outlives its lease, a completed deletion left      *)
(* nothing of its manifest in the object store, an export written beside it *)
(* included, and its evidence names exactly the objects it deleted.         *)
THEOREM CompletionCorrect == ~StaleHandlers => (Spec => []CompletedIsProven)
<1> SUFFICES ASSUME ~StaleHandlers PROVE Spec => []CompletedIsProven
  OBVIOUS
<1>1. IInv /\ Unlapsed => CompletedIsProven
  <2> SUFFICES ASSUME IInv, Unlapsed, req.status = "completed", NEW o \in store \cap req.manifest.rows PROVE FALSE
    BY DEF CompletedIsProven, IInv, CompletedIsAttested, Written
  <2>1. o \in Objects /\ ckpt[o] \in CkptRows
    BY Types DEF IInv, DataTypes
  <2>2. ckpt[o].st = "deleted"
    BY <2>1 DEF IInv, CheckpointsOK, CompletedIsAttested, NonePending, CkptRows
  <2> QED
    BY <2>1, <2>2 DEF IInv, CheckpointsOK, Unlapsed, ExportOver, Objects
<1> QED
  BY <1>1, DeletionInvariant, UnlapsedHolds, PTL

(* As long as no handler outlives its lease, a legal hold that was accepted *)
(* keeps every object and the candidate (place_legal_hold refuses while an  *)
(* execution runs, and _claim re-reads the hold).                           *)
THEOREM HoldCorrect == ~StaleHandlers => (Spec => NothingDeletedUnderHold)
<1> SUFFICES ASSUME ~StaleHandlers PROVE Spec => NothingDeletedUnderHold
  OBVIOUS
<1>1. IInv /\ Unlapsed /\ [Next]_vars => [hold => store \subseteq store' /\ cand'.deleted = cand.deleted]_vars
  <2> SUFFICES ASSUME IInv, Unlapsed, Next, hold PROVE store \subseteq store' /\ cand'.deleted = cand.deleted
    OBVIOUS
  <2>1. req.status # "executing" /\ \A p \in Procs : proc[p].pc \notin Deleting
    BY DEF IInv, RequestOK, Unlapsed, OneHandler, Deleting
  <2>2. ASSUME NEW p \in Procs, Handler(p) PROVE store \subseteq store' /\ cand'.deleted = cand.deleted
    BY <2>1, <2>2 DEF Handler, Claim, SettleExports, PickArtifact, DeleteObject, DeleteFails, GiveUp, MarkDeleted,
       CheckRedaction, Redact, Persist, WriteLedger, Complete, Verify, Succeed, Raise, At, Deleting, people
  <2>3. CASE EditCandidate
    BY <2>3, Types DEF EditCandidate, IInv, PeopleTypes, Cands
  <2> QED
    BY <2>2, <2>3 DEF Next, AddRow, CloseApplication, CreateRequest, Approve, RefreshManifest, PlaceHold, ReleaseHold,
       Crash, TakeJob, LoseLease, CreateExport, TakeExport, PrepareExport, WriteExport, FinalizeExport, CrashExport,
       BuryExport, Screening
<1> QED
  BY <1>1, DeletionInvariant, UnlapsedHolds, PTL DEF Spec, NothingDeletedUnderHold
-----------------------------------------------------------------------------
(* The order of the stages.  A tombstone and a completed request are left   *)
(* alone, and so is the manifest that is executed.                          *)
LEMMA LeftAlone ==
  ASSUME IInv, Next
  PROVE  /\ cand.deleted => cand' = cand
         /\ req.status = "completed" => req' = req
         /\ req.status = "executing" => req'.manifest = req.manifest
<1>1. req \in Reqs
  BY Types DEF IInv, PeopleTypes
<1>2. \A v : req.status = "completed" => DeadLetter(v) = req
  BY DEF DeadLetter
<1>3. \A v : DeadLetter(v).manifest = req.manifest
  BY <1>1 DEF DeadLetter, Reqs
<1>4. ASSUME NEW p \in Procs, Handler(p)
      PROVE  /\ cand.deleted => cand' = cand
             /\ req.status = "completed" => req' = req
             /\ req.status = "executing" => req'.manifest = req.manifest
  <2>1. CASE \E outcome : Raise(p, outcome)
    BY <1>2, <1>3, <2>1 DEF Raise
  <2> QED
    BY <1>1, <1>4, <2>1 DEF Handler, Claim, SettleExports, PickArtifact, DeleteObject, DeleteFails, GiveUp, MarkDeleted,
       CheckRedaction, Redact, Persist, WriteLedger, Complete, Verify, Succeed, Reqs
<1>5. ASSUME NEW v \in Versions, LoseLease(v)
      PROVE  /\ cand' = cand
             /\ req.status = "completed" => req' = req
             /\ req.status = "executing" => req'.manifest = req.manifest
  BY <1>2, <1>3, <1>5 DEF LoseLease
<1>6. CASE Screening
  BY <1>6 DEF Screening
<1>7. CASE CreateExport \/ TakeExport \/ PrepareExport \/ WriteExport \/ FinalizeExport \/ CrashExport \/ BuryExport
  BY <1>7 DEF CreateExport, TakeExport, PrepareExport, WriteExport, FinalizeExport, CrashExport, BuryExport
<1> QED
  BY <1>4, <1>5, <1>6, <1>7 DEF Next, AddRow, EditCandidate, CloseApplication, CreateRequest, Approve, Approvable, RefreshManifest,
     PlaceHold, ReleaseHold, Crash, TakeJob

(* A job that dies fails the execution it drove.                            *)
LEMMA DriverMoves ==
  ASSUME IInv, Driven, NEW v \in Versions, NEW st, job' = [job EXCEPT ![v].st = st],
         (st \in Active /\ req' = req) \/ (st = "dead" /\ req' = DeadLetter(v))
  PROVE  Driven'
<1>1. /\ req \in Reqs /\ req.version \in Versions
      /\ \A u \in Versions : job'[u].st = IF u = v THEN st ELSE job[u].st
  BY Types DEF IInv, PeopleTypes, WorkTypes, JobRows, Reqs
<1>2. CASE st \in Active /\ req' = req
  BY <1>1, <1>2 DEF Driven
<1>3. CASE st = "dead" /\ req' = DeadLetter(v)
  <2>1. req'.status = "executing" => req' = req /\ req.version # v
    BY <1>1, <1>3 DEF DeadLetter, Reqs
  <2> QED
    BY <1>1, <2>1 DEF Driven
<1> QED
  BY <1>2, <1>3

LEMMA RaiseDriven ==
  ASSUME IInv, Driven, NEW p \in Procs, proc[p].pc # "idle", NEW outcome, Raise(p, outcome)
  PROVE  Driven'
<1>1. proc[p].v \in Versions
  BY HandlerIs DEF Handlers
<1>2. CASE UNCHANGED <<job, req>>
  BY <1>2 DEF Driven
<1>3. CASE Holds(p)
  BY <1>1, <1>3, DriverMoves DEF Raise, Active
<1> QED
  BY <1>2, <1>3 DEF Raise

(* Nobody but its handler has a request executed.                           *)
LEMMA PeopleDecide ==
  ASSUME IInv, \/ \E u \in Users : CreateRequest(u) \/ \E t \in BOOLEAN : Approve(u, t)
               \/ RefreshManifest \/ PlaceHold
  PROVE  /\ UNCHANGED <<cand, rows, store, ledger, proc, exp>>
         /\ req'.status # "executing" \/ (PlaceHold /\ req' = req /\ job' = job)
<1>1. req \in Reqs
  BY Types DEF IInv, PeopleTypes
<1>2. ASSUME NEW u \in Users, CreateRequest(u) PROVE req'.status = "requested"
  BY <1>2 DEF CreateRequest
<1>3. ASSUME NEW u \in Users, NEW t \in BOOLEAN, Approve(u, t) PROVE req'.status = "approved"
  BY <1>1, <1>3 DEF Approve, Reqs
<1>4. RefreshManifest => req'.status = "requested"
  BY <1>1 DEF RefreshManifest, Reqs
<1>5. PlaceHold => req'.status # "executing" \/ (req' = req /\ job' = job)
  BY <1>1 DEF PlaceHold, Reqs
<1>6. UNCHANGED <<cand, rows, store, ledger, proc, exp>>
  BY DEF CreateRequest, Approve, RefreshManifest, PlaceHold, people, beside
<1> QED
  BY <1>2, <1>3, <1>4, <1>5, <1>6

LEMMA DrivenKept ==
  ASSUME ~StaleHandlers, IInv, Unlapsed, Staged, Next
  PROVE  Driven'
<1>1. /\ req \in Reqs /\ req.version \in Versions /\ job \in [Versions -> JobRows]
  BY Types DEF IInv, PeopleTypes, WorkTypes, Reqs
<1>2. ASSUME UNCHANGED <<req, job>> PROVE Driven'
  BY <1>2 DEF Staged, Driven
<1>3. ASSUME NEW p \in Procs, Handler(p) PROVE Driven'
  <2>1. proc[p].pc # "idle"
    BY <1>3 DEF Handler, Claim, SettleExports, PickArtifact, DeleteObject, DeleteFails, GiveUp, MarkDeleted,
       CheckRedaction, Redact, Persist, WriteLedger, Complete, Verify, Succeed, At
  <2>2. CASE ~Holds(p)
    BY <1>2, <1>3, <2>2, WithoutJob DEF Unlapsed
  <2>3. CASE \E outcome : Raise(p, outcome)
    BY <2>1, <2>3, RaiseDriven DEF Staged
  <2>4. CASE Holds(p) /\ req' = [req EXCEPT !.status = "executing"] /\ job' = job
    <3>1. proc[p].v = req.version /\ job[req.version].st = "running"
      BY <2>1, <2>4, HandlerIs DEF Holds, IInv, ActiveJobIsCurrent, Active, Handlers
    <3>2. req'.version = req.version
      BY <1>1, <2>4 DEF Reqs
    <3> QED
      BY <2>4, <3>1, <3>2 DEF Driven, Active
  <2>5. CASE req' = [req EXCEPT !.status = "completed"]
    BY <1>1, <2>5 DEF Driven, Reqs
  <2>6. CASE Succeed(p)
    <3>1. req.status = "completed" /\ req' = req
      BY <2>6 DEF Succeed, At, Staged, Attested
    <3> QED
      BY <3>1 DEF Driven
  <2> QED
    BY <1>2, <1>3, <2>2, <2>3, <2>4, <2>5, <2>6 DEF Handler, Claim, SettleExports, PickArtifact, DeleteObject, DeleteFails, GiveUp,
       MarkDeleted, CheckRedaction, Redact, Persist, WriteLedger, Complete, Verify
<1>4. ASSUME NEW v \in Versions, LoseLease(v) PROVE Driven'
  <2>1. \/ job' = [job EXCEPT ![v].st = "queued"] /\ req' = req
        \/ job' = [job EXCEPT ![v].st = "dead"] /\ req' = DeadLetter(v)
    BY <1>4 DEF LoseLease
  <2> QED
    BY <2>1, DriverMoves DEF Staged, Active
<1>5. ASSUME NEW p \in Procs, NEW v \in Versions, TakeJob(p, v) PROVE Driven'
  <2>1. req' = req /\ \A u \in Versions : job'[u].st = IF u = v THEN "running" ELSE job[u].st
    BY <1>1, <1>5 DEF TakeJob
  <2> QED
    BY <1>1, <2>1 DEF Staged, Driven, Active
<1>6. CASE \/ \E u \in Users : CreateRequest(u) \/ \E t \in BOOLEAN : Approve(u, t)
           \/ RefreshManifest \/ PlaceHold
  <2>1. req'.status # "executing" \/ UNCHANGED <<req, job>>
    BY <1>6, PeopleDecide
  <2> QED
    BY <1>2, <2>1 DEF Driven
<1>7. CASE \/ \E r \in Rows \cup Files \cup {AppRow} : AddRow(r)
           \/ EditCandidate \/ CloseApplication \/ ReleaseHold \/ \E p \in Procs : Crash(p)
           \/ CreateExport \/ TakeExport \/ PrepareExport \/ WriteExport \/ FinalizeExport
           \/ CrashExport \/ BuryExport \/ Screening
  <2>1. UNCHANGED <<req, job>>
    BY <1>7 DEF AddRow, EditCandidate, CloseApplication, ReleaseHold, Crash, CreateExport, TakeExport, PrepareExport,
       WriteExport, FinalizeExport, CrashExport, BuryExport, Screening
  <2> QED
    BY <1>2, <2>1
<1> QED
  BY <1>3, <1>4, <1>5, <1>6, <1>7 DEF Next

(* The manifest that is executed covers every object the candidate has, and *)
(* none is left when the data goes.                                         *)
LEMMA NothingLeft ==
  ASSUME IInv, Unlapsed, Staged, NEW p \in Procs, At(p, "redact"), Holds(p)
  PROVE  store = {} /\ exp.st \notin Active
<1>1. /\ req.status = "executing" /\ NonePending /\ exp.st \notin Active
      /\ store \subseteq Objects \cap req.manifest.rows /\ ckpt \in [Objects -> CkptRows]
  <2>1. proc[p].pc # "idle" /\ proc[p].v = req.version
    BY HandlerIs DEF At, Holds, IInv, ActiveJobIsCurrent, Handlers, Active
  <2> QED
    BY <2>1, HandlerIs, Types DEF At, Unlapsed, OneHandler, Deleting, HandlerOK, Staged, Covered, IInv, DataTypes
<1>2. \A o \in store : ckpt[o].st = "deleted"
  BY <1>1 DEF IInv, CheckpointsOK, NonePending, CkptRows
<1> QED
  BY <1>1, <1>2 DEF IInv, CheckpointsOK, Unlapsed, ExportOver, Objects

LEMMA CoveredKept ==
  ASSUME ~StaleHandlers, IInv, Unlapsed, Staged, Next
  PROVE  Covered'
<1>1. req \in Reqs /\ cand \in Cands /\ exp \in Exps
  BY Types DEF IInv, PeopleTypes, BesideTypes
<1>2. ASSUME UNCHANGED <<rows, store>>, cand'.deleted = cand.deleted, exp'.writer \in {exp.writer, "none", "written"},
             exp.writer = "none" => exp'.writer = "none", exp'.st \in Active => exp.st \in Active,
             req'.status = "executing" => req' = req
      PROVE  Covered'
  BY <1>2 DEF Staged, Covered
<1>3. ASSUME NEW p \in Procs, Handler(p) PROVE Covered'
  <2>1. proc[p].pc # "idle"
    BY <1>3 DEF Handler, Claim, SettleExports, PickArtifact, DeleteObject, DeleteFails, GiveUp, MarkDeleted,
       CheckRedaction, Redact, Persist, WriteLedger, Complete, Verify, Succeed, At
  <2>2. CASE ~Holds(p)
    BY <1>2, <1>3, <2>2, WithoutJob DEF Unlapsed
  <2>3. CASE \E outcome : Raise(p, outcome)
    <3>1. UNCHANGED <<rows, store, cand, exp>> /\ (req' = req \/ req' = DeadLetter(proc[p].v))
      BY <2>3 DEF Raise, people, beside
    <3> QED
      BY <1>1, <1>2, <3>1 DEF DeadLetter, Reqs
  <2>4. CASE UNCHANGED <<rows, store, cand, exp>> /\ req' = req
    BY <1>2, <2>4
  <2>5. CASE Claim(p) /\ req.manifest = Current /\ req' = [req EXCEPT !.status = "executing"] /\ UNCHANGED <<rows, store, cand, exp>>
    <3>1. req'.manifest.rows = rows
      BY <1>1, <2>5 DEF Reqs, Current
    <3> QED
      BY <2>5, <3>1 DEF Staged, Covered
  <2>6. CASE SettleExports(p) /\ UNCHANGED <<rows, store, cand, req>>
             /\ exp' = IF exp.st = "queued" THEN [exp EXCEPT !.st = "failed", !.job = "ended"] ELSE exp
    <3>1. exp'.writer = exp.writer /\ (exp'.st = exp.st \/ exp'.st = "failed")
      BY <1>1, <2>6 DEF Exps
    <3> QED
      BY <1>2, <2>6, <3>1 DEF Active
  <2>7. CASE DeleteObject(p)
    BY <2>7 DEF DeleteObject, people, beside, Staged, Covered
  <2>8. CASE Redact(p) /\ UNCHANGED <<rows, store, req, exp>>
    <3>1. CASE ~Holds(p)
      BY <2>2, <3>1
    <3>2. CASE Holds(p)
      <4>1. store = {} /\ exp.st \notin Active
        BY <2>8, <3>2, NothingLeft DEF Redact
      <4> QED
        BY <2>8, <4>1 DEF Staged, Covered
    <3> QED
      BY <3>1, <3>2
  <2>9. CASE req' = [req EXCEPT !.status = "completed"] /\ UNCHANGED <<rows, store, cand, exp>>
    BY <1>1, <1>2, <2>9 DEF Reqs
  <2> QED
    BY <1>3, <2>3, <2>4, <2>5, <2>6, <2>7, <2>8, <2>9 DEF Handler, Claim, SettleExports, PickArtifact, DeleteFails, GiveUp,
       MarkDeleted, CheckRedaction, Redact, Persist, WriteLedger, Complete, Verify, Succeed, people, beside
<1>4. ASSUME NEW r \in Rows \cup Files \cup {AppRow}, AddRow(r) PROVE Covered'
  <2>1. /\ r \notin Files => store' = store /\ Objects \cap rows' = Objects \cap rows
        /\ r \in Files => store' = store \cup {r} /\ req.status # "executing"
    BY <1>4, ConstantsAssumption DEF AddRow, Objects, Blocked
  <2> QED
    BY <1>4, <2>1 DEF AddRow, people, beside, Staged, Covered
<1>5. CASE \/ EditCandidate \/ CloseApplication \/ ReleaseHold \/ Screening
           \/ \E p \in Procs : Crash(p) \/ \E v \in Versions : TakeJob(p, v)
  <2>1. UNCHANGED <<rows, store, req, exp>> /\ cand'.deleted = cand.deleted
    BY <1>1, <1>5 DEF EditCandidate, CloseApplication, ReleaseHold, Screening, Crash, TakeJob, people, beside, Cands
  <2> QED
    BY <1>2, <2>1
<1>6. CASE \/ \E u \in Users : CreateRequest(u) \/ \E t \in BOOLEAN : Approve(u, t)
           \/ RefreshManifest \/ PlaceHold
  BY <1>2, <1>6, PeopleDecide
<1>11. ASSUME NEW v \in Versions, LoseLease(v) PROVE Covered'
  <2>1. UNCHANGED <<rows, store, exp, cand>> /\ (req' = req \/ req' = DeadLetter(v))
    BY <1>11 DEF LoseLease, people, beside
  <2>2. req'.status = "executing" => req' = req
    BY <1>1, <2>1 DEF DeadLetter, Reqs
  <2> QED
    BY <1>2, <2>1, <2>2
<1>7. CASE CreateExport
  BY <1>7 DEF CreateExport, people, Blocked, Staged, Covered
<1>8. CASE TakeExport \/ FinalizeExport \/ CrashExport \/ BuryExport
  <2>1. UNCHANGED <<rows, store, cand, req>> /\ exp'.writer \in {exp.writer, "none"}
        /\ exp'.st \in {exp.st, "succeeded", "failed"}
    BY <1>1, <1>8 DEF TakeExport, FinalizeExport, CrashExport, BuryExport, DeadExport, people, Exps
  <2> QED
    BY <1>2, <2>1 DEF Active
<1>9. CASE PrepareExport
  <2>1. CASE exp.st \in {"queued", "running"} /\ ~Blocked
    <3>1. rows' = rows \cup {Export} /\ UNCHANGED <<store, cand, req>> /\ ~cand.deleted /\ req.status # "executing"
      BY <1>9, <2>1 DEF PrepareExport, Blocked
    <3> QED
      BY <3>1 DEF Staged, Covered
  <2>2. CASE ~(exp.st \in {"queued", "running"} /\ ~Blocked)
    <3>1. UNCHANGED <<rows, store, cand, req>> /\ exp'.writer = exp.writer /\ exp'.st \in {"succeeded", "failed"}
      BY <1>1, <1>9, <2>2 DEF PrepareExport, DeadExport, Exps
    <3> QED
      BY <1>2, <3>1 DEF Active
  <2> QED
    BY <2>1, <2>2
<1>10. CASE WriteExport
  <2>1. ~cand.deleted /\ Export \in rows
    BY <1>10 DEF WriteExport, Unlapsed, ExportOver, Staged, Covered, Active
  <2>2. store' = store \cup {Export} /\ UNCHANGED <<rows, cand, req>>
    BY <1>10 DEF WriteExport, people
  <2> QED
    BY <2>1, <2>2 DEF Staged, Covered
<1> QED
  BY <1>3, <1>4, <1>5, <1>6, <1>7, <1>8, <1>9, <1>10, <1>11 DEF Next

(* What is written of a deletion names the version that was erased.         *)
LEMMA AttestedStays ==
  ASSUME IInv, Unlapsed, Staged, Next, ledger' = ledger \/ Named(ledger.manifest)',
         \A p \in Procs :
           \/ proc'[p] = proc[p] \/ proc'[p].pc \notin {"persist", "write", "complete", "verify", "done"}
           \/ proc'[p].pc = "persist" /\ Named(req.manifest)'
           \/ proc'[p].pc \in {"write", "complete"} /\ Named(proc[p].entry.manifest)'
           \/ proc'[p].pc \in {"verify", "done"} /\ req'.status = "completed"
  PROVE  Attested'
<1>1. \A m : Named(m) => cand'.deleted /\ cand'.version = m.version + 1
  BY LeftAlone DEF Named
<1>2. ledger' = ledger => (ledger' # NoEvidence => Named(ledger.manifest)')
  BY <1>1 DEF Staged, Attested, Named
<1>3. ASSUME NEW p \in Procs, proc'[p] = proc[p]
      PROVE  /\ proc'[p].pc = "persist" => Named(req.manifest)'
             /\ proc'[p].pc \in {"write", "complete"} => Named(proc[p].entry.manifest)'
             /\ proc'[p].pc \in {"verify", "done"} => req'.status = "completed"
  <2>1. proc[p].pc = "persist" => req'.manifest = req.manifest
    BY LeftAlone DEF Unlapsed, OneHandler, Deleting
  <2>2. proc[p].pc \in {"verify", "done"} => req'.status = "completed"
    BY LeftAlone DEF Staged, Attested
  <2> QED
    BY <1>1, <1>3, <2>1, <2>2 DEF Staged, Attested, Named
<1> QED
  BY <1>2, <1>3 DEF Attested

LEMMA AttestedKept ==
  ASSUME ~StaleHandlers, IInv, Unlapsed, Staged, Next
  PROVE  Attested'
<1>1. req \in Reqs /\ cand \in Cands /\ proc \in [Procs -> Handlers] /\ ledger \in Evidence
  BY Types DEF IInv, PeopleTypes, WorkTypes, DataTypes
<1>2. ASSUME UNCHANGED <<ledger, proc>> PROVE Attested'
  BY <1>2, AttestedStays
<1>3. ASSUME NEW p \in Procs, proc' = [proc EXCEPT ![p] = Idle], ledger' = ledger PROVE Attested'
  BY <1>1, <1>3, AttestedStays DEF Idle
<1>4. ASSUME NEW p \in Procs, NEW pc, Goto(p, pc)
      PROVE  proc'[p].pc = pc /\ proc'[p].entry = proc[p].entry /\ \A q \in Procs \ {p} : proc'[q] = proc[q]
  BY <1>1, <1>4 DEF Goto, Handlers
<1>5. ASSUME NEW p \in Procs, Handler(p) PROVE Attested'
  <2>1. CASE \E outcome : Raise(p, outcome)
    BY <1>3, <2>1 DEF Raise
  <2>2. CASE Succeed(p)
    BY <1>3, <2>2 DEF Succeed
  <2>3. CASE \E pc \in {"exports", "pick", "delete", "mark", "giveup", "check", "redact"} : Goto(p, pc) /\ ledger' = ledger
    BY <1>4, <2>3, AttestedStays
  <2>4. CASE /\ ledger' = ledger /\ \A q \in Procs \ {p} : proc'[q] = proc[q]
             /\ proc'[p].pc = "delete"
    BY <2>4, AttestedStays
  <2>5. CASE \E pc \in {"verify", "done"} : Goto(p, pc) /\ ledger' = ledger /\ req'.status = "completed"
    BY <1>4, <2>5, AttestedStays
  <2>6. CASE Redact(p) /\ RoutineAccepts /\ Goto(p, "persist") /\ UNCHANGED <<req, ledger>>
             /\ cand' = IF cand.deleted THEN cand ELSE [version |-> cand.version + 1, deleted |-> TRUE]
    <3>1. Named(req.manifest)'
      BY <1>1, <2>6 DEF Named, RoutineAccepts, Cands, Reqs, Manifest
    <3> QED
      BY <1>4, <2>6, <3>1, AttestedStays
  <2>7. CASE /\ At(p, "persist") /\ UNCHANGED <<cand, req, ledger>>
             /\ proc' = [proc EXCEPT ![p] = [@ EXCEPT !.pc = "write",
                           !.entry = [v |-> req.version, manifest |-> req.manifest,
                                      objects |-> {o \in Objects : ckpt[o].st = "deleted"}]]]
    <3>1. /\ proc'[p].pc = "write" /\ proc'[p].entry.manifest = req.manifest
          /\ \A q \in Procs \ {p} : proc'[q] = proc[q]
      BY <1>1, <2>7 DEF Handlers
    <3>2. Named(req.manifest)'
      BY <2>7 DEF At, Staged, Attested, Named
    <3> QED
      BY <2>7, <3>1, <3>2, AttestedStays
  <2>8. CASE At(p, "write") /\ ledger' = proc[p].entry /\ Goto(p, "complete") /\ UNCHANGED <<cand, req>>
    <3>1. Named(proc[p].entry.manifest) /\ Named(ledger.manifest)'
      BY <2>8 DEF At, Staged, Attested, Named
    <3> QED
      BY <1>4, <2>8, <3>1, AttestedStays DEF Named
  <2>9. Complete(p) => \/ \E outcome : Raise(p, outcome)
                       \/ Goto(p, "done") /\ ledger' = ledger /\ req'.status = "completed"
    BY <1>1 DEF Complete, Reqs
  <2>10. CASE Claim(p)
    BY <2>1, <2>3, <2>5, <2>10 DEF Claim
  <2>11. CASE PickArtifact(p)
    <3>1. ASSUME NEW o, proc' = [proc EXCEPT ![p] = [@ EXCEPT !.pc = "delete", !.obj = o, !.cv = ckpt[o].v]]
          PROVE  proc'[p].pc = "delete" /\ \A q \in Procs \ {p} : proc'[q] = proc[q]
      BY <1>1, <3>1 DEF Handlers
    <3> QED
      BY <2>3, <2>4, <2>11, <3>1 DEF PickArtifact
  <2>12. CASE Verify(p)
    <3>1. At(p, "verify") => req' = req \/ \E outcome : Raise(p, outcome)
      BY <2>12 DEF Verify
    <3> QED
      BY <2>1, <2>5, <2>12, <3>1 DEF Verify, At, Staged, Attested
  <2>13. CASE SettleExports(p) \/ DeleteObject(p) \/ DeleteFails(p) \/ GiveUp(p) \/ MarkDeleted(p) \/ CheckRedaction(p)
    BY <2>1, <2>3, <2>13 DEF SettleExports, DeleteObject, DeleteFails, GiveUp, MarkDeleted, CheckRedaction
  <2> QED
    BY <1>5, <2>1, <2>2, <2>5, <2>6, <2>7, <2>8, <2>9, <2>10, <2>11, <2>12, <2>13 DEF Handler, Redact, Persist, WriteLedger
<1>6. CASE \E p \in Procs : Crash(p)
  BY <1>3, <1>6 DEF Crash
<1>7. ASSUME NEW p \in Procs, NEW v \in Versions, TakeJob(p, v) PROVE Attested'
  <2>1. ledger' = ledger /\ proc'[p].pc = "claim" /\ \A q \in Procs \ {p} : proc'[q] = proc[q]
    BY <1>1, <1>7 DEF TakeJob, Idle
  <2> QED
    BY <2>1, AttestedStays
<1>8. CASE \/ \E r \in Rows \cup Files \cup {AppRow} : AddRow(r)
           \/ EditCandidate \/ CloseApplication \/ ReleaseHold \/ \E v \in Versions : LoseLease(v)
           \/ CreateExport \/ TakeExport \/ PrepareExport \/ WriteExport \/ FinalizeExport
           \/ CrashExport \/ BuryExport \/ Screening
  BY <1>2, <1>8 DEF AddRow, EditCandidate, CloseApplication, ReleaseHold, LoseLease, CreateExport, TakeExport, PrepareExport,
     WriteExport, FinalizeExport, CrashExport, BuryExport, Screening
<1>9. CASE \/ \E u \in Users : CreateRequest(u) \/ \E t \in BOOLEAN : Approve(u, t)
           \/ RefreshManifest \/ PlaceHold
  BY <1>2, <1>9, PeopleDecide
<1> QED
  BY <1>5, <1>6, <1>7, <1>8, <1>9 DEF Next

LEMMA StagedHolds == ~StaleHandlers => (Spec => []Staged)
<1> SUFFICES ASSUME ~StaleHandlers PROVE Spec => []Staged
  OBVIOUS
<1>1. Init => Staged
  <2> SUFFICES ASSUME Init PROVE Staged
    OBVIOUS
  <2>1. /\ store \subseteq rows /\ req.status = "none" /\ ~cand.deleted /\ exp.writer = "none" /\ ledger = NoEvidence
        /\ \A p \in Procs : proc[p].pc = "idle"
    BY DEF Init, Idle
  <2> QED
    BY <2>1 DEF Staged, Driven, Covered, Attested
<1>2. IInv /\ Unlapsed /\ Staged /\ [Next]_vars => Staged'
  <2> SUFFICES ASSUME IInv, Unlapsed, Staged, [Next]_vars PROVE Staged'
    OBVIOUS
  <2>1. CASE Next
    BY <2>1, DrivenKept, CoveredKept, AttestedKept DEF Staged
  <2>2. CASE UNCHANGED vars
    BY <2>2 DEF vars, Staged, Driven, Covered, Attested, Named
  <2> QED
    BY <2>1, <2>2
<1> QED
  BY <1>1, <1>2, DeletionInvariant, UnlapsedHolds, PTL DEF Spec

(* As long as no handler outlives its lease, an execution the interface     *)
(* shows as running has a job that is queued or running: whatever ends the  *)
(* job of an execution decides the request with it (terminal.py).           *)
THEOREM DriverCorrect == ~StaleHandlers => (Spec => []ExecutingIsDriven)
<1>1. Staged => ExecutingIsDriven
  BY DEF Staged, Driven, ExecutingIsDriven
<1> QED
  BY <1>1, StagedHolds, PTL

(* Whatever the interface shows of a deletion is so, as long as no handler  *)
(* outlives its lease: what it shows as running is driven, and what it      *)
(* shows as completed is proven (governance/worker.py, terminal.py).        *)
THEOREM SafetyCorrect == ~StaleHandlers => (Spec => []DeletionSafety)
  BY DriverCorrect, CompletionCorrect, PTL DEF DeletionSafety

-----------------------------------------------------------------------------
(* The order of a deletion.  What the stores look like to Erasure ...       *)
Held      == {c \in It : store # {}}
Tombstone == {c \in It : cand.deleted}
VersionOf == [c \in It |-> cand.version]
ProofOf   == [c \in It |-> IF ledger = NoEvidence THEN None ELSE ledger.manifest.version]
SameFiles == store' = {} <=> store = {}

(* ... and the steps that it allows.                                        *)
LEMMA StoresMove ==
  ASSUME \/ SameFiles /\ cand' = cand /\ ledger' = ledger
         \/ ~cand.deleted /\ SameFiles /\ ~cand'.deleted /\ cand'.version = cand.version + 1 /\ ledger' = ledger
         \/ ~cand.deleted /\ store' # {} /\ cand' = cand /\ ledger' = ledger
         \/ store' = {} /\ cand' = cand /\ ledger' = ledger
         \/ /\ ~cand.deleted /\ store = {} /\ store' = {} /\ cand'.deleted = TRUE /\ cand'.version = cand.version + 1
            /\ ledger' = ledger
         \/ /\ cand.deleted = TRUE /\ cand' = cand /\ store' = store /\ ledger = NoEvidence /\ ledger' # NoEvidence
            /\ ledger'.manifest.version = cand.version - 1
  PROVE  [Order!ErasureNext]_(Order!stores)
<1> DEFINE c == "candidate"
<1>0. c \in It /\ \A d \in It : d = c
  BY DEF It
<1>1. CASE SameFiles /\ cand' = cand /\ ledger' = ledger
  <2>1. UNCHANGED <<Held, Tombstone, VersionOf, ProofOf>>
    BY <1>1 DEF SameFiles, Held, Tombstone, VersionOf, ProofOf
  <2> QED
    BY <2>1 DEF Order!stores, Held, Tombstone, VersionOf, ProofOf
<1>2. CASE ~cand.deleted /\ SameFiles /\ ~cand'.deleted /\ cand'.version = cand.version + 1 /\ ledger' = ledger
  <2>1. c \notin Tombstone /\ UNCHANGED <<Held, Tombstone, ProofOf>> /\ VersionOf' = [VersionOf EXCEPT ![c] = @ + 1]
    BY <1>0, <1>2 DEF SameFiles, Held, Tombstone, VersionOf, ProofOf
  <2> QED
    BY <1>0, <2>1 DEF Order!ErasureNext, Order!Correct, Order!NewVersion, Held, Tombstone, VersionOf, ProofOf
<1>3. CASE ~cand.deleted /\ store' # {} /\ cand' = cand /\ ledger' = ledger
  <2>1. c \notin Tombstone /\ UNCHANGED <<Tombstone, VersionOf, ProofOf>> /\ Held' = Held \cup {c}
    BY <1>0, <1>3 DEF Held, Tombstone, VersionOf, ProofOf
  <2> QED
    BY <1>0, <2>1 DEF Order!ErasureNext, Order!Keep, Held, Tombstone, VersionOf, ProofOf
<1>4. CASE store' = {} /\ cand' = cand /\ ledger' = ledger
  <2>1. UNCHANGED <<Tombstone, VersionOf, ProofOf>> /\ Held' = Held \ {c}
    BY <1>0, <1>4 DEF Held, Tombstone, VersionOf, ProofOf
  <2> QED
    BY <1>0, <2>1 DEF Order!ErasureNext, Order!Discard, Held, Tombstone, VersionOf, ProofOf
<1>5. CASE /\ ~cand.deleted /\ store = {} /\ store' = {} /\ cand'.deleted = TRUE /\ cand'.version = cand.version + 1
           /\ ledger' = ledger
  <2>1. /\ c \notin Held \cup Tombstone /\ UNCHANGED <<Held, ProofOf>>
        /\ Tombstone' = Tombstone \cup {c} /\ VersionOf' = [VersionOf EXCEPT ![c] = @ + 1]
    BY <1>0, <1>5 DEF Held, Tombstone, VersionOf, ProofOf
  <2> QED
    BY <1>0, <2>1 DEF Order!ErasureNext, Order!Erase, Order!NewVersion, Held, Tombstone, VersionOf, ProofOf
<1>6. CASE /\ cand.deleted = TRUE /\ cand' = cand /\ store' = store /\ ledger = NoEvidence /\ ledger' # NoEvidence
           /\ ledger'.manifest.version = cand.version - 1
  <2>1. /\ c \in Tombstone /\ ProofOf[c] = None /\ UNCHANGED <<Held, Tombstone, VersionOf>>
        /\ ProofOf' = [ProofOf EXCEPT ![c] = VersionOf[c] - 1]
    BY <1>0, <1>6 DEF Held, Tombstone, VersionOf, ProofOf
  <2> QED
    BY <1>0, <2>1 DEF Order!ErasureNext, Order!Prove, Held, Tombstone, VersionOf, ProofOf
<1> QED
  BY <1>1, <1>2, <1>3, <1>4, <1>5, <1>6

LEMMA InOrder ==
  ASSUME ~StaleHandlers, IInv, Unlapsed, Staged, Next
  PROVE  [Order!ErasureNext]_(Order!stores)
<1>1. req \in Reqs /\ cand \in Cands /\ proc \in [Procs -> Handlers] /\ ledger \in Evidence
  BY Types DEF IInv, PeopleTypes, WorkTypes, DataTypes
<1>2. ASSUME UNCHANGED <<store, cand, ledger>> PROVE [Order!ErasureNext]_(Order!stores)
  BY <1>2, StoresMove DEF SameFiles
<1>3. ASSUME NEW p \in Procs, Handler(p) PROVE [Order!ErasureNext]_(Order!stores)
  <2>1. CASE \E outcome : Raise(p, outcome)
    BY <1>2, <2>1 DEF Raise
  <2>2. CASE DeleteObject(p)
    <3>1. cand' = cand /\ ledger' = ledger /\ store' \subseteq store
      BY <2>2 DEF DeleteObject
    <3> QED
      BY <3>1, StoresMove DEF SameFiles
  <2>3. CASE /\ At(p, "redact") /\ UNCHANGED <<store, ledger>>
             /\ cand' = IF cand.deleted THEN cand ELSE [version |-> cand.version + 1, deleted |-> TRUE]
    <3>1. CASE cand.deleted
      BY <1>2, <2>3, <3>1
    <3>2. CASE ~cand.deleted /\ ~Holds(p)
      <4>1. cand' = cand
        BY <1>3, <3>2, WithoutJob DEF Unlapsed
      <4> QED
        BY <1>2, <2>3, <4>1
    <3>3. CASE ~cand.deleted /\ Holds(p)
      BY <2>3, <3>3, NothingLeft, StoresMove
    <3> QED
      BY <3>1, <3>2, <3>3
  <2>4. CASE /\ At(p, "write") /\ ledger \in {NoEvidence, proc[p].entry} /\ ledger' = proc[p].entry
             /\ UNCHANGED <<cand, store>>
    <3>1. /\ proc[p].entry # NoEvidence /\ cand.deleted = TRUE /\ cand.version = proc[p].entry.manifest.version + 1
          /\ cand.version \in Int /\ proc[p].entry.manifest.version \in Int
      <4>1. proc[p] \in Handlers /\ HandlerOK(proc[p])
        BY <2>4, HandlerIs DEF At
      <4>2. proc[p].entry.v = proc[p].v /\ proc[p].v >= 2 /\ proc[p].entry \in Evidence
        BY <2>4, <4>1 DEF At, HandlerOK, Handlers
      <4>3. proc[p].entry # NoEvidence
        BY <4>2 DEF NoEvidence
      <4>4. cand.deleted /\ cand.version = proc[p].entry.manifest.version + 1
        BY <2>4 DEF At, Staged, Attested, Named
      <4>5. cand.version \in Int /\ cand.deleted \in BOOLEAN /\ proc[p].entry.manifest.version \in Int
        BY <1>1, <4>2 DEF Evidence, Manifest, Cands
      <4> QED
        BY <4>3, <4>4, <4>5
    <3>2. CASE ledger = NoEvidence
      <4>1. proc[p].entry.manifest.version = cand.version - 1
        BY <3>1
      <4>2. ledger' # NoEvidence /\ ledger'.manifest.version = cand.version - 1
        BY <2>4, <3>1, <4>1
      <4> QED
        BY <2>4, <3>1, <3>2, <4>2, StoresMove
    <3> QED
      BY <1>2, <2>4, <3>2
  <2> QED
    BY <1>2, <1>3, <2>1, <2>2, <2>3, <2>4 DEF Handler, Claim, SettleExports, PickArtifact, DeleteFails, GiveUp, MarkDeleted,
       CheckRedaction, Redact, Persist, WriteLedger, Complete, Verify, Succeed
<1>4. ASSUME NEW r \in Rows \cup Files \cup {AppRow}, AddRow(r) PROVE [Order!ErasureNext]_(Order!stores)
  <2>1. /\ ~cand.deleted /\ cand' = cand /\ ledger' = ledger
        /\ store' = store \cup {r} \/ store' = store
    BY <1>4 DEF AddRow
  <2> QED
    BY <2>1, StoresMove DEF SameFiles
<1>5. CASE EditCandidate
  <2>1. /\ ~cand.deleted /\ ~cand'.deleted /\ cand'.version = cand.version + 1 /\ UNCHANGED <<store, ledger>>
    BY <1>1, <1>5 DEF EditCandidate, Cands
  <2> QED
    BY <2>1, StoresMove DEF SameFiles
<1>6. CASE WriteExport
  <2>1. ~cand.deleted /\ cand' = cand /\ ledger' = ledger /\ store' # {}
    BY <1>6 DEF WriteExport, Unlapsed, ExportOver, Staged, Covered, Active
  <2> QED
    BY <2>1, StoresMove
<1>7. CASE \/ \E u \in Users : CreateRequest(u) \/ \E t \in BOOLEAN : Approve(u, t)
           \/ RefreshManifest \/ PlaceHold
  BY <1>2, <1>7, PeopleDecide
<1>8. CASE \/ \E p \in Procs : Crash(p) \/ \E v \in Versions : TakeJob(p, v)
           \/ CloseApplication \/ ReleaseHold \/ \E v \in Versions : LoseLease(v)
           \/ CreateExport \/ TakeExport \/ PrepareExport \/ FinalizeExport \/ CrashExport \/ BuryExport
           \/ Screening
  BY <1>2, <1>8 DEF Crash, TakeJob, CloseApplication, ReleaseHold, LoseLease, CreateExport, TakeExport, PrepareExport,
     FinalizeExport, CrashExport, BuryExport, Screening
<1> QED
  BY <1>3, <1>4, <1>5, <1>6, <1>7, <1>8 DEF Next

(* As long as no handler outlives its lease, the deletion keeps the order   *)
(* that a backup assumes and that the recovery repeats: no file is left     *)
(* when the personal data goes, none comes back, and the evidence names the *)
(* version that was erased (_delete_artifacts, _redact and the ledger).     *)
THEOREM OrderKept == ~StaleHandlers => (Spec => KeepsOrder)
<1> SUFFICES ASSUME ~StaleHandlers PROVE Spec => KeepsOrder
  OBVIOUS
<1>1. Init => Order!ErasureInit
  <2> SUFFICES ASSUME Init PROVE Order!ErasureInit
    OBVIOUS
  <2>1. cand.version = 1 /\ cand.deleted = FALSE /\ ledger = NoEvidence
    BY DEF Init
  <2>2. Held \subseteq It /\ Tombstone = {} /\ VersionOf = [c \in It |-> 1] /\ ProofOf = [c \in It |-> None]
    BY <2>1 DEF Held, Tombstone, VersionOf, ProofOf
  <2> QED
    BY <2>2 DEF Order!ErasureInit, Held, Tombstone, VersionOf, ProofOf
<1>2. IInv /\ Unlapsed /\ Staged /\ [Next]_vars => [Order!ErasureNext]_(Order!stores)
  <2> SUFFICES ASSUME UNCHANGED vars PROVE UNCHANGED (Order!stores)
    BY InOrder
  <2> QED
    BY DEF vars, Order!stores
<1> QED
  BY <1>1, <1>2, DeletionInvariant, UnlapsedHolds, StagedHolds, PTL DEF Spec, KeepsOrder, Order!ErasureSpec
=============================================================================
