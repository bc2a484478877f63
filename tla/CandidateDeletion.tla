------------------------- MODULE CandidateDeletion -------------------------
(***************************************************************************)
(* The deletion of one candidate: the request and its approval, legal      *)
(* holds, the job that executes it (server/app/governance), and what runs  *)
(* beside it: recruiters editing the candidate, screening work and report  *)
(* exports.                                                                *)
(*                                                                         *)
(* Every step is one database transaction or one call of the object store, *)
(* as in DeletionJobHandler._execute; a step that raises rolls back and    *)
(* reports to the job queue.  The queue is reduced to what JobContract     *)
(* promises: a job is handed out at most MaxAttempts times, its lease may  *)
(* be lost while it runs, and its death runs the terminal callback.        *)
(***************************************************************************)
EXTENDS Integers, FiniteSets

CONSTANTS
  Procs,          \* worker processes that execute the deletion job
  Files,          \* resume files the candidate may own
  Export,         \* the object of the one report export that covers the candidate
  Rows,           \* further rows of the manifest (an interview, a contact, ...)
  AppRow,         \* the row of the one job application
  Users,          \* who requests and approves
  MaxAttempts,    \* max_attempts of the deletion job
  MaxManifest,    \* bound of the ledger's evidence on the manifest
  MaxVersion,     \* bound on the request's version
  MaxEdits,       \* bound on the candidate's version
  StaleHandlers,  \* TRUE: a handler may outlive its lease
  None

ASSUME ConstantsAssumption ==
  /\ IsFiniteSet(Files) /\ IsFiniteSet(Rows) /\ None \notin Procs
  /\ Export \notin Files \cup Rows /\ AppRow \notin Files \cup Rows \cup {Export}
  /\ Files \cap Rows = {} /\ None \notin Files \cup Rows \cup {Export, AppRow}
  /\ None \notin Users
  /\ MaxAttempts \in Nat \ {0} /\ MaxManifest \in Nat
  /\ MaxVersion \in Nat \ {0} /\ MaxEdits \in Nat \ {0}
  /\ StaleHandlers \in BOOLEAN

VARIABLES
  cand,    \* version and deleted_at of the candidate
  rows,    \* rows of the candidate that the manifest lists
  app,     \* the application is in a stage that is not terminal
  hold,    \* an unreleased legal hold exists
  req,     \* the candidate's deletion request
  job,     \* the deletion job of each request version
  ckpt,    \* deletion_artifacts, by object
  store,   \* objects in the object store
  ledger,  \* the evidence in the ledger bucket
  proc,    \* what each worker's handler is doing
  exp,     \* the export record, its job and its writer
  screen   \* the candidate's screening job

vars == <<cand, rows, app, hold, req, job, ckpt, store, ledger, proc, exp, screen>>
beside == <<exp, screen>>
people == <<rows, app, hold>>

Objects  == Files \cup {Export}
Versions == 1..MaxVersion
Active   == {"queued", "running"}
Open     == {"requested", "approved", "executing", "failed"}

Manifest == [version : 1..MaxEdits + 1, rows : SUBSET (Rows \cup Objects \cup {AppRow})]
Evidence == [v : Versions, manifest : Manifest, objects : SUBSET Objects]
NoEvidence == [v |-> 1, manifest |-> [version |-> 1, rows |-> {}], objects |-> {}]
Idle == [pc |-> "idle", v |-> 1, n |-> 0, obj |-> None, cv |-> 0, entry |-> NoEvidence]

Steps == {"idle", "claim", "exports", "pick", "delete", "mark", "giveup", "check", "redact",
          "persist", "write", "complete", "verify", "done"}

TypeOK ==
  /\ cand \in [version : 1..MaxEdits + 1, deleted : BOOLEAN]
  /\ rows \subseteq Rows \cup Objects \cup {AppRow}
  /\ app \in BOOLEAN /\ hold \in BOOLEAN
  /\ req \in [status : Open \cup {"none", "completed"}, version : Versions,
              by : Users \cup {None}, manifest : Manifest]
  /\ job \in [Versions -> [st : Active \cup {"none", "succeeded", "cancelled", "dead"},
                           n : 0..MaxAttempts]]
  /\ ckpt \in [Objects -> [st : {"none", "pending", "deleted"}, tried : BOOLEAN, v : 0..MaxVersion]]
  /\ store \subseteq Objects
  /\ ledger \in Evidence
  /\ proc \in [Procs -> [pc : Steps, v : Versions, n : 0..MaxAttempts,
                         obj : Objects \cup {None}, cv : 0..MaxVersion, entry : Evidence]]
  /\ exp \in [st : {"none", "queued", "running", "succeeded", "failed"},
              job : Active \cup {"none", "ended"}, writer : {"none", "prepared", "written"}]
  /\ screen \in {"idle", "queued", "running", "expired"}

NoCkpt == [st |-> "none", tried |-> FALSE, v |-> 0]

Init ==
  /\ cand = [version |-> 1, deleted |-> FALSE]
  /\ store \in SUBSET Files /\ rows = store \cup {AppRow}
  /\ app \in BOOLEAN /\ hold = FALSE
  /\ req = [status |-> "none", version |-> 1, by |-> None, manifest |-> NoEvidence.manifest]
  /\ job = [v \in Versions |-> [st |-> "none", n |-> 0]]
  /\ ckpt = [o \in Objects |-> NoCkpt]
  /\ ledger = NoEvidence
  /\ proc = [p \in Procs |-> Idle]
  /\ exp = [st |-> "none", job |-> "none", writer |-> "none"]
  /\ screen = "idle"

-----------------------------------------------------------------------------
(* Helpers.                                                                 *)

(* build_private_manifest of the candidate as it is now.                    *)
Current == [version |-> cand.version, rows |-> rows]

(* Deletion is decided: the guard of screening and of exports.              *)
Blocked == cand.deleted \/ req.status \in {"approved", "executing", "completed"}

(* No checkpoint of an earlier execution has been touched, so               *)
(* _clear_unstarted_artifacts_for_refresh may discard them all.             *)
Unstarted == \A o \in Objects : ckpt[o].st # "deleted" /\ ~ckpt[o].tried

(* Deviation: the job dies without its callback.                            *)
DeadLetterSilent(v) == req

(* Deviation: the callback fails the request whatever became of it.         *)
DeadLetterAny(v) == IF req.version = v THEN [req EXCEPT !.status = "failed", !.version = @ + 1] ELSE req

(* finalize_deletion_dead_letter: the request after its job of version v    *)
(* died.                                                                    *)
DeadLetter(v) ==
  IF req.version = v /\ req.status = "executing"
  THEN [req EXCEPT !.status = "failed", !.version = @ + 1] ELSE req

(* The handler's claim on the job still stands.                             *)
Holds(p) == job[proc[p].v].st = "running" /\ job[proc[p].v].n = proc[p].n

(* The handler of p ends with an outcome and the queue records it, unless   *)
(* the lease is gone; the last attempt's failure runs the callback.         *)
Raise(p, outcome) ==
  LET v == proc[p].v
      dies == outcome = "permanent" \/ job[v].n >= MaxAttempts
  IN /\ proc' = [proc EXCEPT ![p] = Idle]
     /\ job' = IF Holds(p) THEN [job EXCEPT ![v].st = IF dies THEN "dead" ELSE "queued"] ELSE job
     /\ req' = IF Holds(p) /\ dies THEN DeadLetter(v) ELSE req
     /\ UNCHANGED <<cand, people, ckpt, store, ledger, beside>>

At(p, pc) == proc[p].pc = pc
Goto(p, pc) == proc' = [proc EXCEPT ![p].pc = pc]

-----------------------------------------------------------------------------
(* People: recruiters, administrators.                                      *)

(* A recruiter adds a row: an interview, a contact, a new application.      *)
(* lock_active_candidate asks only that the candidate is not deleted; a     *)
(* resume file comes through screening, which Blocked guards.               *)
AddRow(r) ==
  /\ r \in (Rows \cup Files \cup {AppRow}) \ rows /\ ~cand.deleted
  /\ r \in Files => ~Blocked
  /\ rows' = rows \cup {r}
  /\ store' = IF r \in Files THEN store \cup {r} ELSE store
  /\ app' = IF r = AppRow THEN TRUE ELSE app
  /\ UNCHANGED <<cand, hold, req, job, ckpt, ledger, proc, beside>>

EditCandidate ==
  /\ ~cand.deleted /\ cand.version < MaxEdits
  /\ cand' = [cand EXCEPT !.version = @ + 1]
  /\ UNCHANGED <<people, req, job, ckpt, store, ledger, proc, beside>>

CloseApplication ==
  /\ app /\ ~cand.deleted
  /\ app' = FALSE
  /\ UNCHANGED <<cand, rows, hold, req, job, ckpt, store, ledger, proc, beside>>

CreateRequest(u) ==
  /\ req.status = "none" /\ ~cand.deleted
  /\ req' = [status |-> "requested", version |-> 1, by |-> u, manifest |-> Current]
  /\ UNCHANGED <<cand, people, job, ckpt, store, ledger, proc, beside>>

(* Approval of a request whose manifest is stale refreshes it instead.      *)
RefreshManifest ==
  /\ req.status = "requested" /\ req.manifest # Current
  /\ req.version + 3 <= MaxVersion /\ Unstarted
  /\ req' = [req EXCEPT !.manifest = Current, !.version = @ + 1]
  /\ ckpt' = [o \in Objects |-> NoCkpt]
  /\ UNCHANGED <<cand, people, job, store, ledger, proc, beside>>

(* validate_approval, with the application optionally withdrawn.            *)
Approvable(u, terminate) ==
  /\ u # req.by
  /\ app => terminate
  /\ ~hold
  /\ \/ req.status = "requested" /\ req.manifest = Current
     \/ req.status = "failed" /\ Unstarted

Approve(u, terminate) ==
  /\ Approvable(u, terminate)
  /\ req.version + 2 <= MaxVersion
  /\ ckpt' = IF req.status = "failed" THEN [o \in Objects |-> NoCkpt] ELSE ckpt
  /\ app' = IF terminate THEN FALSE ELSE app
  /\ req' = [req EXCEPT !.status = "approved", !.version = @ + 1, !.manifest = Current]
  /\ job' = [job EXCEPT ![req.version + 1].st = "queued"]
  /\ UNCHANGED <<cand, rows, hold, store, ledger, proc, beside>>

(* Deviation: a hold is accepted while the deletion executes.               *)
PlaceHoldAlways ==
  /\ ~hold
  /\ hold' = TRUE
  /\ UNCHANGED <<cand, rows, app, req, job, ckpt, store, ledger, proc, beside>>
(* An approved request fails and its job is cancelled.                      *)
PlaceHold ==
  /\ ~hold /\ req.status \notin {"executing", "failed"}
  /\ hold' = TRUE
  /\ IF req.status = "approved"
     THEN /\ req' = [req EXCEPT !.status = "failed", !.version = @ + 1]
          /\ job' = IF job[req.version].st \in Active
                    THEN [job EXCEPT ![req.version].st = "cancelled"] ELSE job
     ELSE UNCHANGED <<req, job>>
  /\ UNCHANGED <<cand, rows, app, ckpt, store, ledger, proc, beside>>

ReleaseHold ==
  /\ hold
  /\ hold' = FALSE
  /\ UNCHANGED <<cand, rows, app, req, job, ckpt, store, ledger, proc, beside>>

-----------------------------------------------------------------------------
(* The deletion job.                                                        *)

TakeJob(p, v) ==
  /\ At(p, "idle") /\ job[v].st = "queued" /\ job[v].n < MaxAttempts
  /\ job' = [job EXCEPT ![v] = [st |-> "running", n |-> @.n + 1]]
  /\ proc' = [proc EXCEPT ![p] = [Idle EXCEPT !.pc = "claim", !.v = v, !.n = job[v].n + 1]]
  /\ UNCHANGED <<cand, people, req, ckpt, store, ledger, beside>>

(* The lease of a running job runs out and the job is abandoned.            *)
LoseLease(v) ==
  /\ job[v].st = "running"
  /\ StaleHandlers \/ \A p \in Procs : ~At(p, "idle") => ~(proc[p].v = v /\ Holds(p))
  /\ IF job[v].n < MaxAttempts
     THEN job' = [job EXCEPT ![v].st = "queued"] /\ UNCHANGED req
     ELSE job' = [job EXCEPT ![v].st = "dead"] /\ req' = DeadLetter(v)
  /\ UNCHANGED <<cand, people, ckpt, store, ledger, proc, beside>>

Crash(p) ==
  /\ ~At(p, "idle")
  /\ proc' = [proc EXCEPT ![p] = Idle]
  /\ UNCHANGED <<cand, people, req, job, ckpt, store, ledger, beside>>

(* _settle_screening_work: wait for a live screening job, cancel a queued   *)
(* one, leave one whose lease expired.                                      *)
ScreeningSettled == screen # "running"
CancelScreening == screen' = IF screen = "queued" THEN "idle" ELSE screen

(* What keeps the deletion from going on: retried later.                    *)
Obstructed == ~ScreeningSettled \/ hold \/ app

(* _claim finds the request gone on without this job.                       *)
Stale(p) ==
  req.version # proc[p].v \/ req.status \notin {"approved", "executing", "completed"}

(* _prevalidate_v2_evidence: the evidence would not fit the ledger.         *)
Oversized == /\ req.status \in {"approved", "executing"}
             /\ Cardinality(req.manifest.rows) > MaxManifest

(* _prevalidate_v2_evidence and _claim.                                     *)
Claim(p) ==
  /\ At(p, "claim")
  /\ \/ (Stale(p) \/ Oversized) /\ Raise(p, "permanent")
     \/ /\ ~Stale(p) /\ req.status = "completed" /\ Goto(p, "verify")
        /\ UNCHANGED <<cand, people, req, job, ckpt, store, ledger, beside>>
     \/ /\ ~Stale(p) /\ ~Oversized /\ req.status = "executing" /\ cand.deleted /\ Goto(p, "exports")
        /\ UNCHANGED <<cand, people, req, job, ckpt, store, ledger, beside>>
     \/ /\ ~Stale(p) /\ ~Oversized /\ req.status # "completed" /\ ~(req.status = "executing" /\ cand.deleted)
        /\ \/ Obstructed /\ Raise(p, "retry")
           \/ ~Obstructed /\ req.manifest # Current /\ Raise(p, "permanent")
           \/ /\ ~Obstructed /\ req.manifest = Current
              /\ CancelScreening /\ Goto(p, "exports")
              /\ req' = [req EXCEPT !.status = "executing"]
              /\ ckpt' = IF req.status = "executing" THEN ckpt
                         ELSE [o \in Objects |-> IF o \in rows
                                 THEN [st |-> "pending", tried |-> FALSE, v |-> req.version]
                                 ELSE ckpt[o]]
              /\ UNCHANGED <<cand, people, job, store, ledger, exp>>

(* Deviation: a running export is not waited for.                           *)
SettleExportsNoWait(p) ==
  /\ At(p, "exports") /\ req.status = "executing"
  /\ exp' = IF exp.st \in Active THEN [exp EXCEPT !.st = "failed", !.job = "ended"] ELSE exp
  /\ Goto(p, "pick")
  /\ UNCHANGED <<cand, people, req, job, ckpt, store, ledger, screen>>

(* _settle_exports: wait for a running export, cancel a queued one.         *)
SettleExports(p) ==
  /\ At(p, "exports")
  /\ \/ req.status # "executing" /\ Raise(p, "permanent")
     \/ /\ req.status = "executing"
        /\ (~cand.deleted /\ Obstructed) \/ exp.st = "running" \/ (exp.st = "queued" /\ exp.job = "running")
        /\ Raise(p, "retry")
     \/ /\ req.status = "executing" /\ (cand.deleted \/ ~Obstructed)
        /\ exp.st # "running" /\ ~(exp.st = "queued" /\ exp.job = "running")
        /\ exp' = IF exp.st = "queued" THEN [exp EXCEPT !.st = "failed", !.job = "ended"] ELSE exp
        /\ IF cand.deleted THEN UNCHANGED screen ELSE CancelScreening
        /\ Goto(p, "pick")
        /\ UNCHANGED <<cand, people, req, job, ckpt, store, ledger>>

(* _delete_artifacts reads the next pending checkpoint of the request,      *)
(* whatever the request's status or version has become ...                  *)
PickArtifact(p) ==
  /\ At(p, "pick")
  /\ \/ \E o \in Objects : /\ ckpt[o].st = "pending"
                           /\ proc' = [proc EXCEPT ![p] = [@ EXCEPT !.pc = "delete", !.obj = o, !.cv = ckpt[o].v]]
     \/ (\A o \in Objects : ckpt[o].st # "pending") /\ Goto(p, "check")
  /\ UNCHANGED <<cand, people, req, job, ckpt, store, ledger, beside>>

(* The checkpoint row p read is still there and pending.                    *)
StillPending(p) == ckpt[proc[p].obj].st = "pending" /\ ckpt[proc[p].obj].v = proc[p].cv

(* ... deletes the object (a missing one counts as deleted) ...             *)
DeleteObject(p) ==
  /\ At(p, "delete")
  /\ store' = store \ {proc[p].obj} /\ Goto(p, "mark")
  /\ UNCHANGED <<cand, people, req, job, ckpt, ledger, beside>>
(* ... whose failure is recorded before the attempt is given up ...         *)
DeleteFails(p) ==
  /\ At(p, "delete")
  /\ ckpt' = IF StillPending(p) THEN [ckpt EXCEPT ![proc[p].obj].tried = TRUE] ELSE ckpt
  /\ Goto(p, "giveup")
  /\ UNCHANGED <<cand, people, req, job, store, ledger, beside>>
GiveUp(p) == At(p, "giveup") /\ Raise(p, "retry")

(* ... and records it.                                                      *)
MarkDeleted(p) ==
  /\ At(p, "mark")
  /\ ckpt' = IF StillPending(p)
             THEN [ckpt EXCEPT ![proc[p].obj] = [@ EXCEPT !.st = "deleted", !.tried = TRUE]] ELSE ckpt
  /\ Goto(p, "pick")
  /\ UNCHANGED <<cand, people, req, job, store, ledger, beside>>

(* _redact: the last look before the database routine ...                   *)
CheckRedaction(p) ==
  /\ At(p, "check")
  /\ \/ req.status # "executing" /\ Raise(p, "permanent")
     \/ /\ req.status = "executing"
        /\ (\E o \in Objects : ckpt[o].st = "pending") \/ (~cand.deleted /\ Obstructed)
        /\ Raise(p, "retry")
     \/ /\ req.status = "executing" /\ \A o \in Objects : ckpt[o].st # "pending"
        /\ cand.deleted \/ ~Obstructed
        /\ IF cand.deleted THEN UNCHANGED screen ELSE CancelScreening
        /\ Goto(p, "redact")
        /\ UNCHANGED <<cand, people, req, job, ckpt, store, ledger, exp>>

(* Deviation: the routine does not compare the candidate's version with the *)
(* manifest's.                                                              *)
RoutineAcceptsAnyVersion == req.status = "executing"

(* redact_candidate_data accepts the request's state: fresh or repeated.    *)
RoutineAccepts ==
  /\ req.status = "executing"
  /\ cand.version = req.manifest.version + (IF cand.deleted THEN 1 ELSE 0)

(* ... and redact_candidate_data, which clears the database and leaves a    *)
(* tombstone with the next version; run again it changes nothing.           *)
Redact(p) ==
  /\ At(p, "redact")
  /\ \/ Raise(p, "retry")                      \* the routine failed
     \/ ~RoutineAccepts /\ Raise(p, "permanent")
     \/ /\ RoutineAccepts
        /\ cand' = IF cand.deleted THEN cand ELSE [version |-> cand.version + 1, deleted |-> TRUE]
        /\ Goto(p, "persist")
        /\ UNCHANGED <<people, req, job, ckpt, store, ledger, beside>>

(* _persist_redaction_and_build_entry.                                      *)
Persist(p) ==
  /\ At(p, "persist")
  /\ IF req.version = proc[p].v /\ req.status = "executing"
     THEN /\ proc' = [proc EXCEPT ![p] = [@ EXCEPT !.pc = "write",
                        !.entry = [v |-> req.version, manifest |-> req.manifest,
                                   objects |-> {o \in Objects : ckpt[o].st = "deleted"}]]]
          /\ UNCHANGED <<cand, people, req, job, ckpt, store, ledger, beside>>
     ELSE Raise(p, "permanent")

(* The ledger is written only if absent, and read back.                     *)
WriteLedger(p) ==
  /\ At(p, "write")
  /\ \/ Raise(p, "retry")                      \* the ledger is unavailable
     \/ ledger \notin {NoEvidence, proc[p].entry} /\ Raise(p, "permanent")
     \/ /\ ledger \in {NoEvidence, proc[p].entry}
        /\ ledger' = proc[p].entry /\ Goto(p, "complete")
        /\ UNCHANGED <<cand, people, req, job, ckpt, store, beside>>

Complete(p) ==
  /\ At(p, "complete")
  /\ IF req.version = proc[p].v /\ req.status = "executing" /\ cand.deleted
     THEN /\ req' = [req EXCEPT !.status = "completed"] /\ Goto(p, "done")
          /\ UNCHANGED <<cand, people, job, ckpt, store, ledger, beside>>
     ELSE Raise(p, "permanent")

(* _verify_completed reads the evidence again.                              *)
Verify(p) ==
  /\ At(p, "verify")
  /\ \/ Raise(p, "retry")
     \/ /\ ledger = [v |-> req.version, manifest |-> req.manifest,
                     objects |-> {o \in Objects : ckpt[o].st = "deleted"}]
        /\ Goto(p, "done")
        /\ UNCHANGED <<cand, people, req, job, ckpt, store, ledger, beside>>
     \/ /\ ledger # [v |-> req.version, manifest |-> req.manifest,
                     objects |-> {o \in Objects : ckpt[o].st = "deleted"}]
        /\ Raise(p, "permanent")

Succeed(p) ==
  /\ At(p, "done")
  /\ proc' = [proc EXCEPT ![p] = Idle]
  /\ job' = IF Holds(p) THEN [job EXCEPT ![proc[p].v].st = "succeeded"] ELSE job
  /\ UNCHANGED <<cand, people, req, ckpt, store, ledger, beside>>

-----------------------------------------------------------------------------
(* Beside it: one report export that covers the candidate ...               *)

CreateExport ==
  /\ exp.st = "none" /\ ~Blocked
  /\ exp' = [st |-> "queued", job |-> "queued", writer |-> "none"]
  /\ UNCHANGED <<cand, people, req, job, ckpt, store, ledger, proc, screen>>

TakeExport ==
  /\ exp.job = "queued"
  /\ exp' = [exp EXCEPT !.job = "running"]
  /\ UNCHANGED <<cand, people, req, job, ckpt, store, ledger, proc, screen>>

(* The record of an export whose job died, unless it had succeeded.         *)
DeadExport == [exp EXCEPT !.st = IF @ = "succeeded" THEN @ ELSE "failed", !.job = "ended"]

(* prepare_export names the object before the file exists; refused, the     *)
(* job dies.                                                                *)
PrepareExport ==
  /\ exp.job = "running" /\ exp.writer = "none"
  /\ IF exp.st \in {"queued", "running"} /\ ~Blocked
     THEN /\ exp' = [exp EXCEPT !.st = "running", !.writer = "prepared"]
          /\ rows' = rows \cup {Export}
     ELSE exp' = DeadExport /\ UNCHANGED rows
  /\ UNCHANGED <<cand, app, hold, req, job, ckpt, store, ledger, proc, screen>>

WriteExport ==
  /\ exp.writer = "prepared"
  /\ store' = store \cup {Export}
  /\ exp' = [exp EXCEPT !.writer = "written"]
  /\ UNCHANGED <<cand, people, req, job, ckpt, ledger, proc, screen>>

(* finalize_export: only a record still running takes the file.             *)
FinalizeExport ==
  /\ exp.writer = "written"
  /\ exp' = [exp EXCEPT !.writer = "none", !.job = "ended",
                        !.st = IF @ = "running" THEN "succeeded" ELSE @]
  /\ UNCHANGED <<cand, people, req, job, ckpt, store, ledger, proc, screen>>

(* The writer dies; later the job's attempts run out.                       *)
CrashExport ==
  /\ exp.writer # "none"
  /\ exp' = [exp EXCEPT !.writer = "none"]
  /\ UNCHANGED <<cand, people, req, job, ckpt, store, ledger, proc, screen>>
BuryExport ==
  /\ exp.job = "running" /\ (StaleHandlers \/ exp.writer = "none")
  /\ exp' = DeadExport
  /\ UNCHANGED <<cand, people, req, job, ckpt, store, ledger, proc, screen>>

(* ... and the candidate's screening job.                                   *)
QueueScreening   == screen = "idle" /\ ~Blocked /\ screen' = "queued"
TakeScreening    == screen \in {"queued", "expired"} /\ screen' = "running"
ExpireScreening  == screen = "running" /\ screen' = "expired"
FinishScreening  == screen \in {"running", "expired"} /\ screen' = "idle"
Screening ==
  /\ QueueScreening \/ TakeScreening \/ ExpireScreening \/ FinishScreening
  /\ UNCHANGED <<cand, people, req, job, ckpt, store, ledger, proc, exp>>

-----------------------------------------------------------------------------
Handler(p) ==
  \/ Claim(p) \/ SettleExports(p) \/ PickArtifact(p) \/ DeleteObject(p) \/ DeleteFails(p)
  \/ GiveUp(p) \/ MarkDeleted(p) \/ CheckRedaction(p) \/ Redact(p) \/ Persist(p)
  \/ WriteLedger(p) \/ Complete(p) \/ Verify(p) \/ Succeed(p)

Next ==
  \/ \E r \in Rows \cup Files \cup {AppRow} : AddRow(r)
  \/ EditCandidate \/ CloseApplication
  \/ \E u \in Users : CreateRequest(u) \/ \E t \in BOOLEAN : Approve(u, t)
  \/ RefreshManifest \/ PlaceHold \/ ReleaseHold
  \/ \E p \in Procs : Handler(p) \/ Crash(p) \/ \E v \in Versions : TakeJob(p, v)
  \/ \E v \in Versions : LoseLease(v)
  \/ CreateExport \/ TakeExport \/ PrepareExport \/ WriteExport \/ FinalizeExport
  \/ CrashExport \/ BuryExport
  \/ Screening

Spec == Init /\ [][Next]_vars

(* Workers keep polling, a handler that runs keeps going (every call it     *)
(* makes has a timeout), and a lease nobody renews runs out.                *)
FairSpec ==
  /\ Spec
  /\ \A p \in Procs : WF_vars(Handler(p))
  /\ \A v \in Versions : WF_vars(\E p \in Procs : TakeJob(p, v)) /\ WF_vars(LoseLease(v))

-----------------------------------------------------------------------------
(* Properties.                                                              *)

(* Only the job of the request's present version can run: refreshes, holds, *)
(* failures and retries, each of which bumps the version, leave no live job *)
(* of an older one.                                                         *)
ActiveJobIsCurrent ==
  \A v \in Versions : job[v].st \in Active =>
    v = req.version /\ req.status \in {"approved", "executing", "completed"}

(* The interface says of an executing request that the deletion is running: *)
(* it has a live job or at least a handler still at it.  The job's death    *)
(* and the request's failure are one transaction (terminal.py).             *)
ExecutingIsDriven ==
  req.status = "executing" =>
    \/ job[req.version].st \in Active
    \/ \E p \in Procs : ~At(p, "idle") /\ proc[p].v = req.version

(* A completed deletion has a tombstone, evidence of exactly the approved   *)
(* manifest and version in the ledger, and no object of it in the store.    *)
CompletedIsProven ==
  req.status = "completed" =>
    /\ cand.deleted
    /\ ledger.v = req.version /\ ledger.manifest = req.manifest
    /\ ledger.objects = Objects \cap req.manifest.rows
    /\ store \cap req.manifest.rows = {}

(* Whatever the interface shows of a deletion is so: while it is running it *)
(* is being driven, and once completed it is proven.                        *)
DeletionSafety == ExecutingIsDriven /\ CompletedIsProven

(* The same of handlers that outlive their leases, but for a late export.   *)
CompletedFilesGone ==
  req.status = "completed" =>
    cand.deleted /\ ledger.v = req.version /\ store \cap Files \cap req.manifest.rows = {}

(* README: database redaction starts only after every checkpoint is deleted. *)
RedactedAfterCheckpoints == cand.deleted => \A o \in Objects : ckpt[o].st # "pending"

(* Under a legal hold nothing is deleted, neither an object nor a row, by   *)
(* handlers that keep their leases.                                         *)
NothingDeletedUnderHold ==
  [][hold => store \subseteq store' /\ cand'.deleted = cand.deleted]_vars

(* Every execution comes to an end.                                         *)
ExecutionEnds == req.status = "executing" ~> req.status \in {"completed", "failed"}

(* The interface tells of an approved request that its job is waiting.      *)
ApprovedIsWaiting == req.status = "approved" => job[req.version].st \in Active

(* The interface tells of a failed request that an administrator can check  *)
(* and approve it again.                                                    *)
FailedCanBeApproved ==
  req.status = "failed" /\ ~hold => \E u \in Users : Approvable(u, TRUE)

Contract == INSTANCE DeletionContract
  WITH status <- req.status, version <- req.version, erased <- cand.deleted,
       proven <- ledger # NoEvidence
(* The request keeps the contract of a deletion, whatever handlers outlive  *)
(* their leases.                                                            *)
KeepsContract == Contract!ContractSpec

(* What a backup assumes of this deletion, and its recovery repeats, by     *)
(* handlers that keep their leases: no object is left when the personal     *)
(* data goes and none comes back, and the evidence names the version that   *)
(* was erased, whatever recruiters edit meanwhile.                          *)
It == {"candidate"}
Order == INSTANCE Erasure
  WITH People <- It, Nothing <- None,
       held <- {c \in It : store # {}}, erased <- {c \in It : cand.deleted},
       version <- [c \in It |-> cand.version],
       proof <- [c \in It |-> IF ledger = NoEvidence THEN None ELSE ledger.manifest.version]
KeepsOrder == Order!ErasureSpec

-----------------------------------------------------------------------------
(* The inductive invariant, with handlers that outlive their leases too.    *)

Undecided == {"none", "requested", "approved"}
NonePending == \A o \in Objects : ckpt[o].st # "pending"

(* Versions grow with the decisions, a hold stops everything that has not   *)
(* begun, and a row of the manifest stays a row of the candidate.           *)
RequestOK ==
  /\ req.status = "none" => req.version = 1
  /\ req.status \notin {"none", "requested"} => req.version >= 2
  /\ req.status \in {"approved", "executing"} => req.version < MaxVersion
  /\ hold => req.status \notin {"approved", "executing"}
  /\ ~cand.deleted => cand.version <= MaxEdits
  /\ req.manifest.rows \subseteq rows

(* There are checkpoints from the beginning of an execution, of the objects *)
(* in its manifest; a deleted one is never brought back.                    *)
CheckpointsOK ==
  /\ req.status \in Undecided => \A o \in Objects : ckpt[o] = NoCkpt
  /\ req.status \in {"executing", "completed"} =>
       \A o \in Objects : ckpt[o].st # "none" <=> o \in req.manifest.rows
  /\ \A o \in Objects : ckpt[o].st # "none" => o \in rows
  /\ \A o \in Files : ckpt[o].st = "deleted" => o \notin store

(* What a handler of the request's present version knows, whoever took its  *)
(* lease: only a handler that saw every checkpoint done writes evidence,    *)
(* and the evidence is of the manifest it was approved with.                *)
Written(e) == e.manifest = req.manifest /\ e.objects = Objects \cap req.manifest.rows
HandlerOK(h) ==
  /\ h.v <= req.version
  /\ h.pc \in {"delete", "mark"} => h.obj \in Objects \cap rows
  /\ h.pc = "mark" /\ h.obj \in Files => h.obj \notin store
  /\ h.pc \in {"persist", "write", "complete"} => cand.deleted
  /\ h.pc \in {"write", "complete"} => h.entry.v = h.v /\ h.v >= 2
  /\ h.pc = "complete" => ledger = h.entry
  /\ h.v = req.version =>
       /\ h.pc # "claim" => req.status \in {"executing", "completed"}
       /\ h.pc \in {"redact", "persist", "write", "complete"} => NonePending
       /\ h.pc \in {"write", "complete"} => Written(h.entry)
HandlersOK == \A p \in Procs : proc[p].pc # "idle" => HandlerOK(proc[p])

CompletedIsAttested ==
  req.status = "completed" => cand.deleted /\ NonePending /\ ledger.v = req.version /\ Written(ledger)

IInv == TypeOK /\ RequestOK /\ ActiveJobIsCurrent /\ CheckpointsOK /\ HandlersOK /\ CompletedIsAttested

(* As long as no handler outlives its lease, one at most holds a job, which *)
(* is the request's; another can only find that a hold cancelled its job.   *)
(* The export is over before an object is deleted.                          *)
Deleting == {"pick", "delete", "mark", "giveup", "check", "redact", "persist", "write", "complete"}
OneHandler ==
  /\ \A p \in Procs : proc[p].pc # "idle" =>
       /\ Holds(p) \/ (proc[p].pc = "claim" /\ proc[p].v < req.version)
       /\ proc[p].pc \in Deleting \cup {"exports"} => req.status = "executing"
       /\ proc[p].pc \in Deleting => exp.st \notin Active
       /\ proc[p].pc = "mark" /\ proc[p].obj = Export => Export \notin store
  /\ \A p, q \in Procs :
       (proc[p].pc # "idle" /\ Holds(p) /\ proc[q].pc # "idle" /\ Holds(q)) => p = q
ExportOver ==
  /\ exp.writer # "none" => exp.st = "running"
  /\ exp.st = "none" => Export \notin rows
  /\ ckpt[Export].st = "deleted" => Export \notin store /\ exp.st \in {"succeeded", "failed"}
Unlapsed == OneHandler /\ ExportOver

(* An execution has a live job until it is completed, knows every object    *)
(* the candidate has, and none is left when the data goes; whatever is      *)
(* written of it then names the version before the tombstone's.             *)
Named(manifest) == cand.deleted /\ cand.version = manifest.version + 1
Driven == req.status = "executing" => job[req.version].st \in Active
Covered ==
  /\ store \subseteq rows /\ (exp.writer # "none" => Export \in rows)
  /\ req.status = "executing" => Objects \cap rows \subseteq req.manifest.rows
  /\ cand.deleted => store = {} /\ exp.st \notin Active
Attested ==
  /\ ledger # NoEvidence => Named(ledger.manifest)
  /\ \A p \in Procs :
       /\ proc[p].pc = "persist" => Named(req.manifest)
       /\ proc[p].pc \in {"write", "complete"} => Named(proc[p].entry.manifest)
       /\ proc[p].pc \in {"verify", "done"} => req.status = "completed"
Staged == Driven /\ Covered /\ Attested
=============================================================================
