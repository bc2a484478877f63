# BeyondCandidate: models, checks and proofs

BeyondCandidate is a recruiting platform: a FastAPI application
(`src/server/app`), PostgreSQL, an S3-compatible object store, one kind of
background worker and a React client. This directory holds TLA+ models of the
parts of it whose correctness depends on the order of things: transactions of
several actors, workers that crash or outlive their leases, providers that
answer late or not at all, backups that are restored. TLC checks the models on
small instances; TLAPS proves theorems for every value of the constants: about the job
queue, on which most of the rest stands, and about every other module: interviews with their calendar events and
notices, work and its cards, screening, onboarding, offers, deletions, members, retention, backup and recovery.

Paths below are relative to `src/server/app` unless they start with `src/`,
`docs/`, `deploy/` or `frontend/`, which are relative to the repository.

## 1. Inventory

| Part | State | Operations | Talks to | Hard because |
|---|---|---|---|---|
| Background job queue (`queue/`, `worker/main.py`) | `background_jobs`, `job_attempts` | enqueue, claim, reap, heartbeat, succeed, fail, cancel | every handler below; terminal callbacks | leases, clocks of waiting transactions, crashes, shared worker ids, callbacks inside the reaper's transaction |
| Outbox (`queue/repository.py`) | `outbox_events` | append, claim, reap, publish, fail | calendar, card and onboarding handlers | at-least-once, no terminal callback |
| Candidate deletion and legal holds (`governance/`) | request, manifest, checkpoints, holds, signed ledger | request, refresh, approve, hold, execute, verify | queue, object store, exports, screening, recruiting | a long execution over three stores, with holds and edits beside it |
| Offers (`offers/`) | offers, versions, approvals, links, answers | draft, submit, decide, send, answer, withdraw, expire | candidate mail, recruiting, termination | an answer races revision, withdrawal, expiry and termination |
| Candidate mail (`communications/`) | `email_deliveries`, messages in flight | queue, prepare, recheck, SMTP, record, resend | queue, SMTP server, offers, interviews | an SMTP call between two transactions; outcomes nobody learns |
| Recruiting termination (`recruiting/termination*.py`) | termination, ledger of external items | terminate, record, confirm | offers, interviews, calendar, mail, onboarding | must account for what is still in flight |
| Interviews (`interviews/`) | interviews, participants, rounds, feedback, amendments | book, move, confirm, complete, cancel, submit, amend | calendar, mail, recruiting | two candidates share an interviewer; several last feedbacks; changes race their announcements |
| Feishu calendar (`integrations/feishu/`) | sync row with generation | deliver create, update, cancel | outbox, provider | lost answers, duplicates, late messages |
| Review tasks, cards and the workbench (`recruiting/tasks.py`, `integrations/feishu/notifications.py`, `notifications/`) | tasks, outbox messages, receipts | assign, hand over, schedule, build, send, mark as read | recruiting, interviews, Feishu | a card is built from one state of the work and sent in another |
| Onboarding approval (`onboarding/`) | configuration, record, approval instance | edit, validate, submit, reconcile | outbox, Feishu, termination | an external approval that must be started once |
| Screening (`screening/`) | runs, items, files, evaluations | upload, parse, score, evaluate, route, finalize, retry, bulk action | queue, object store, OCR and LLM gateways, recruiting, talent pool | retries on two levels, late answers, a finalizer with attempts of its own |
| Report exports (`reports/`) | export record, object, tickets | create, prepare, write, finalize | queue, object store, deletion | an object written outside the transactions |
| Recruiting core (`recruiting/`) | candidates, jobs, applications, stages | edit, move, close | all of the above | shared rows, optimistic versions |
| Identity (`identity/`) | users, sessions, invitations, resets | login, invite, accept, reset, change | mail, offboarding | the caller is resolved before the command's transaction |
| Offboarding (`identity/offboarding_*.py`) | removal, successor, plan | remove, hand over, resolve an owner | every owner column | chains of handovers, and late work for those who have left |
| Talent pool (`talent/`) | pools, memberships | add, amend, move, refer, reactivate | recruiting, retention | memberships extend retention |
| Retention (`governance/service.py`, `retention_sweep.py`) | policy, due dates, the job of the next sweep | preview, change, sweep | recruiting, talent pool, deletion | a sweep that reads first and locks later; a chain of jobs |
| Recovery after a restore (`governance/recovery.py`) | run, checkpoints | prepare, redelete, attest | deletion, ledger, queue, backup | a restored database has forgotten deletions |
| Backup (`deploy/backup/`) | archives, groups, freshness | run, reconcile, prune, rotate, restore | database, object store | crash between two objects |
| OCR and LLM gateways, observability, settings, web client | configuration, presentation | | | no protocol state of their own |

How they interact: a command runs in one database transaction under row locks
(application, then candidate, interview or offer), and leaves work for later as a
job or an outbox message in the same transaction. The worker
(`worker/main.py:Worker`) polls jobs and outbox alternately, renews the lease
in a task beside the handler, and reports the outcome in another transaction.
What a job's death means is decided by a terminal callback which runs inside
the transaction that buries the job. Handlers that call a provider do it between
transactions (mail, cards, approvals, exports, deletion, evaluation) or inside one (calendar).

What makes each part correct:

* Queue: an attempt is handed out once, recorded by its holder only, never
  abandoned early; a final row is final; its owner is told of its death once.
* Deletion: nothing is erased under a hold or without approval; a completed
  deletion is proven by exactly the approved manifest; an execution ends.
* Offers and mail: the text that is answered is the text that was approved and
  mailed; offer, answer and application agree; a stop holds; every mail ends,
  and what is at the server when an application stops is on the ledger.
* Calendar: the provider has no event the platform knows nothing of; "synced"
  means the schedule in force; a termination does not report a clean end over a
  live event.
* Interview notices: nothing leaves after the end; a cancellation outranks every
  invitation; the invitation in force is not dropped; a failure is reported.
* Interviews: nobody is booked twice at a time; a decision rests on the feedback its
  round demands; a terminated application has no interview to come.
* Screening: an item that waits for the parser has something that will act on it; the route of an
  application agrees with what was written of it; what a person ended stays ended.
* Onboarding: one request at most ever leaves; the ledger of a stopped
  application knows every approval that exists or may come to exist.
* Members: a removed member is out, whatever was under way; a session or link
  that has ended does not work again; work handed over, however often, is in able hands.
* Retention: a sweep requests deletion only of what is over by the facts of that
  moment, and finds whatever is over.
* Backup and recovery: a fresh state names restore points that are there; a recovery that
  says it is done has left nothing of anybody the ledger names.
* Work and its notices: whose turn it is has been told, or will be; what counts as
  read was seen as it is.

## 2. Modules

| Module | What it is | Proofs |
|---|---|---|
| `JobQueue` | one organization's jobs, leases, attempts, callbacks | `JobQueueProofs` |
| `JobContract` | what the queue promises; `JobQueue` implements it | `JobQueueProofs` |
| `CandidateDeletion` | request, holds, execution, evidence, with exports, screening and edits beside it | `DeletionProofs` |
| `DeletionContract` | what a deletion promises; `CandidateDeletion` implements it | `DeletionProofs` |
| `Erasure` | the order of a deletion in the three stores; `CandidateDeletion` implements it, and so does `Recovery` but for the restore | `DeletionProofs`, `RetentionProofs` |
| `OfferLifecycle` | versions, approvals, links, mails, answer, termination of one application | `OfferProofs` |
| `OfferContract` | what an offer promises; `OfferLifecycle` implements it | `OfferProofs` |
| `InterviewCalendar` | an interview, its sync row, the outbox, the provider's calendar, the termination's items | `InterviewCalendarProofs` |
| `InterviewNotices` | invitations and cancellations of an interview on their way through the mail worker | `InterviewCalendarProofs` |
| `Hiring` | several candidates' interviews, feedback and stages | `HiringProofs` |
| `WorkNotices` | a review task, the cards of an application and an interview, and one member's workbench | `HiringProofs` |
| `Onboarding` | one onboarding record, its messages, its approval at Feishu, the termination's items | `OnboardingProofs` |
| `Screening` | a run's items from upload to route | `JobQueueProofs` |
| `Members` | accounts, sessions, links, removal and handover | `MembersProofs` |
| `Retention` | one candidate's facts, the policy and the daily sweep | `RetentionProofs` |
| `Backup` | the scheduled backup, its stores, its state and pruning | `RetentionProofs` |
| `Recovery` | `Backup` composed with restore, re-deletion and the drill | `RetentionProofs` |

Each checked module has an `MC...` module with the instance TLC checks, and a cfg; `Backup` is checked within
`Recovery`, which extends it.

`JobContract` is also the interface between the modules. `CandidateDeletion`,
`OfferLifecycle`, `InterviewNotices`, `Screening`, `Retention` and `Recovery` do not repeat the queue: their jobs do
what `JobContract` allows (a bounded number of hand-outs, any of which may be
lost, and a death that runs the callback in the same step), and that `JobQueue`
keeps this contract is checked by its run and proved. `InterviewNotices` takes from
`InterviewCalendar` that a sync answers, or not, in one step under the
application's lock. `Erasure` joins `CandidateDeletion` and `Backup`, which has a deletion in three steps (`EraseFile`, `Redact`, `Prove`): both keep
its order (files, personal data, evidence of the version erased), so the short one takes no liberty the full one does not. `Hiring` leaves an interview's calendar and mail to those two modules, `Retention` leaves the
execution of a request to `CandidateDeletion`, and `WorkNotices` the rounds and feedback to `Hiring`.

A definition whose comment begins with "Deviation" or "Mutant" is a variant of the
definition after it with a plausible mistake in it. Nothing uses it; replacing
the definition by it shows that a property notices the mistake.

### JobQueue

`jobs` is `background_jobs` (status, attempts, max, run_after, owner, lease),
`attempt` is `job_attempts`. Every repository call is a transaction whose
`CURRENT_TIMESTAMP` is the time it started, and which takes effect when it gets
its locks: so a call is two actions, `BeginClaim`/`CommitClaim`,
`BeginBeat`/`CommitBeat`, `BeginFinish`/`CommitFinish` (or `RejectFinish` when
`_owned` raises), `BeginEnqueue`/`CommitEnqueue` (or `RejectEnqueue` when the unique
index refuses), with `tx`, `beat` and `prod` holding what is open. `work` is what a process believes
it is handling. `CommitClaim` is the whole of `claim`: up to `ReapBatch` expired
leases are abandoned, their callbacks run, and then a row is taken, which may be
one just reaped; rows under another transaction's lock are skipped.
`Abandoned`, `Failed` and `AfterTerminal` are the row left by `_abandon_expired`,
`fail` and the LLM finalizer's callback, which may revive the row with a new
batch of attempts (`screening/terminal.py`). `Crash` loses a process. `Tick` is the clock.

The priority order and `run_after` are kept (`Before`, `Choices`); ties of
`created_at` are a choice. Payloads, trace ids and the jitter of the retry delay are
left out, and so is the cursor over organizations of `queue/runtime.py`.

### CandidateDeletion

`req`, `hold`, `ckpt`, `ledger`, `rows` and `app` are the governance tables, the
evidence bucket and the candidate's data as far as the manifest sees it. One
action is one transaction or one call of the object store, in the order of
`DeletionJobHandler._execute`: `Claim`, `SettleExports`, `PickArtifact`,
`DeleteObject` or `DeleteFails`, `MarkDeleted`, `CheckRedaction`, `Redact`, `Persist`,
`WriteLedger`, `Complete`, `Verify`, `Succeed`; `Raise` is any of them rolling back
and reporting to the queue. Beside it: `CreateRequest`, `RefreshManifest`,
`Approve`, `PlaceHold`, `ReleaseHold`, `AddRow`, `EditCandidate`,
`CloseApplication`, the life of one export (`CreateExport` to `BuryExport`) and of
one screening job. `DeadLetter` is the terminal callback. The HMAC of the
ledger, object versions and the storage client's retries are taken at their
interface: a call succeeds, fails, or succeeds without saying so.

### OfferLifecycle

Commands are one step (they run under the application's lock and compare the
version the caller saw). A mail is `TakeMail`, `Prepare`, `Recheck`, `Smtp`, `RecordAccepted`,
`RecordTemporary` or `RecordPermanent`, `Settle`, the transactions and the call of
`communications/worker.py`; `LoseLease`, `Crash` and `Dies` are what the queue may do to it.
`Respond` is both the public link and HR's recording. `Terminate`,
`ConfirmExternal`, `BulkReject`, `WithdrawForDeletion` end the application from
the outside. `facts` is the ledger of the termination with its history.
The deadline is an action (`DeadlinePasses`), not a clock. PDF rendering,
attachments, previews and the special-approval rules are left out; the length of an approval
chain is a constant (`Chains`).

### InterviewCalendar

`sync` is `feishu_interview_syncs`, `box` the outbox messages by generation,
`remote` the provider's events, `lost` the events whose making the platform was not told of
or could not record. A command (`CreateInterview`, `Reschedule`, `CancelInterview`, `Terminate`, ...)
needs the locks which the delivery handler holds while it calls the provider
(`Unlocked`), so that the call (`CallCreate`, `CallUpdate`, `CallCancel`) and the commit
(`CommitEvent`, `CommitCancel`, `CommitError`) are two steps between which only other
workers, crashes and configuration changes happen. Calls have the outcomes the
provider's client distinguishes, with "made, but an error came back" among
them. Time is left out: the handler is synchronous inside the worker's event
loop, so its heartbeat cannot run and its lease may lapse whenever it likes; a
running message may therefore be claimed again at any time, and a settlement that
is refused for a lost lease is a `Crash` at the last step.
The webhook and `mark_provider_change`, which nothing calls, are left out.

### InterviewNotices

`mail` holds the deliveries with the `calendar_sequence` each was queued
with; `Prepare`, `Recheck`, `Record` are the worker's three transactions with the SMTP
call after the second, `Lose` is a lost attempt or the terminal callback. A notice waits
up to `WaitTries` attempts for the meeting link and then leaves with a placeholder.

### Hiring

`app`, `ivw` and `fb` are applications, interviews with their participants, and
`interview_feedbacks`. Every command holds its candidate's row from its first look to
its commit, so that most are one step. Booking is two: `BeginCreate` or `BeginMove` takes the candidate, and
`Create` or `Move` the rows of the interviewers, which other candidates' commands wait for; `Refuse` is the rollback.
`ExpectedRound`, `Clash`, `RoundDone` and `HasNext` are the helpers of `interviews/api.py` they are named after;
`Advance` is the tail of `Complete`, `NoShow` and `Submit`, and refuses the whole command when the
application is past its decision. The foreign key that keeps a participant with feedback is
in `Move`, the trigger on submitted feedback in `Revised`. External busy times, soft conflicts, versions and
idempotency keys only refuse commands and are left out; "scheduled" stands for "rescheduled" too.

### WorkNotices

`task` is the application's review task, `msg` the outbox messages of its cards, `page`, `receipt` and `mark` one
member's look at the workbench. A command schedules its cards with `Notify`; the worker's two transactions and its call are
`Handle` (is the card still `Current`, who is it for, build it), `Gate` (has the application ended) and `Send`;
`Lose` is a lost attempt. `settled` is a history of the duties that were announced. Marking as read is `BeginMark` (the
check) and `EndMark` (the write).

### Onboarding

`rec` is `onboarding_records`, `cfg` the configuration, `env` what lies outside (binding, app, definition
at Feishu), `ev` the outbox messages with the state their handlers keep in them, `remote` the instance at Feishu. The handler
is a chain of steps in the order of `integrations/feishu/worker.py`: `Route`, `Preflight`, `ReadDefinition`, `Prepare`
(the fingerprint), `CommitAttempt`, `Call`, then `Store`, `StoreAnyway` or `Unknown`, each a transaction under the candidate's lock.
`Land` is a request that arrives after its handler died. `Terminate`, `Fact`, `QueueReconciliation`, `Reconcile` and `ConfirmExternal`
are the onboarding part of the termination's ledger.

### Screening

`run`, `items`, `objs`, `job` and `fin` are the run with its counters, an item with its file, candidate and application, the objects
of the store, the item's jobs, and the finalizers of its dead LLM jobs. A handler's place is in `job`; each step is one transaction or one call:
`ParseBegin`, `ScanFile`, `SwitchKey`, `DeleteQuarantined`, `ReadFile`, `StoreParsed`; `ScoreBegin`, `StoreScore`; `LlmBegin`,
`LlmAnswer` or `LlmError`; `FinalizeLlm`. A transaction that does not lock the run's row counts items before its own commit: `Held`,
then `Commit`. `late` is an LLM call that has lost its lease and still answers. `Routed` is `screening/routing.py` as a whole, with the review task
and the deferred pool.

### Members

`user`, `sess`, `link` are accounts with `authorization_version`, sessions and password links. Commands hold the account's row lock and are one step,
but invitations, access and password changes resolve their caller first (`Begin`) and act on that answer later; `pend` holds it.
`Offboard` is `offboard_member` whole: the plan, the revocation, the handover of what the successor can take (`Moves`), failing or not,
and whether it is complete. `Destination` and `Operator` are the resolver's walk along successors. `Produce` is late screening work.

### Retention

`cand` holds the latest dated fact and the due date, `Recalculated` is `recalculate_candidate_retention`, `app` and `member` what it reads.
The sweep is `StartSweep` (reads the policy), `Scan` (the claim's snapshot), then `Redate`, `Request` or `Pass` under the candidate's lock; `FailSweep` is
an attempt that fails, by a crash, a lock, or a request that is refused. Each sweep queues the next, by its end or by the terminal callback (`DeadSweep`).
`begun` is a command that read the candidate before it locked it.

### Backup and Recovery

`Backup` follows `deploy/backup/scheduled-backup.py` through its stages: `Start`, `LedgerPublish`, `Dump`, `Snapshot`, `BusinessPublish`, `Catalog`, `Succeed`;
`Published` distinguishes what is there from what the process knows. `Reconcile` is the next start after a stopped run. `PlanPrune` and `DeleteGroup` are
separate, as the prune command lists before it deletes. Meanwhile people `Work` and candidates are deleted in the order of `Erasure`, which `CandidateDeletion` has in full.
`Recovery` adds the restore (`RestoreLedger`, `RestoreDatabase`, `RestoreObjects`), the recovery command (`Ask`, `Prepare`), the checkpoint handlers
with two threads each, since one that lost its lease goes on (`BeginDeletion`, `RemoveFile`, `MarkDeleted`, `RedactAgain`, `Count`, `Complete`), and the drill (`Attest`, `Verdict`).

## 3. Runs

All runs finish in about three minutes or less with two workers. Deadlock is checked
for the queue, where the clock or a process can always move until the bounds
are reached with everything final; in the other modules a request, an offer, an interview or a run has an
end after which nothing more need happen. A property named "...Safety" is the conjunction of the parts named with it.

| Run | Checks | Shows |
|---|---|---|
| `JobQueueKeys` | `QueueSafety` (`TypeOK` `LedgerAgrees` `BudgetKept` `OneActivePerKey` `ExclusiveAttempts` `ToldExactlyOnce`) `StepSafety` (`HistoryFinal` `OwnAttemptOnly` `NoEarlyAbandon`) `KeepsContract` | two transactions race to enqueue under one dedupe key; whatever two processes do with the rows, rows, attempts and leases agree, no step rewrites history, and the contract is kept |
| `DeletionExecution` | `DeletionSafety` (`CompletedIsProven` `ExecutingIsDriven`) `NothingDeletedUnderHold` `ExecutionEnds` `KeepsContract` `KeepsOrder` | the execution by two workers with retries, crashes, holds, edits, a late file, an export and screening beside it |
| `OfferLifecycle` | `OfferSafety` (`AnswerWasApproved` `OutcomeAgrees` `OneActiveToken` `StopHolds` `MailInAirIsOpen` `EndedJobEndsMail`) `LateSendIsAttested` `MailEndsEventually` `KeepsContract` | revision, resend, withdrawal, answer and termination in every order while a link or a confirmation is at any point of its way |
| `InterviewCalendar` | `CalendarSafety` (`RemoteIsKnown` `SyncedShowsCurrent` `UrlIsOfEvent` `PendingHasMessage`) `LedgerHonest` | two workers and every outcome of the provider's calls |
| `InterviewNotices` | `NoticeSafety` (`CancelOutranks` `CurrentInviteNotDropped` `FailureIsReported`) `NoticeEnds` | two notices of an interview that moves, ends or is stopped, with a worker that may die at each step |
| `Hiring` | `NoDoubleBooking` `FeedbackDecides` `EndedIsClear` `ClosedStaysClosed` | two candidates share two interviewers over two rounds and one outside of the workflow |
| `WorkNotices` | `DutyIsAnnounced` `ReadMeansSeen` `NoForwardAfterEnd` | a task and an interview change hands, plans and state while the cards of earlier changes are on their way; one member marks what he sees as read |
| `Onboarding` | `OneRealRequest` `LedgerKnows` `StopIsFinal` | two workers, a lapsed lease or a dead process, lost and late answers, a changed configuration, binding or definition, a deletion and a termination at every point |
| `Screening` | `ItemSafety` (`RowNamesObject` `WaitingIsDriven` `RouteAgrees`) `EndedIsFinal` | one resume from upload to route (`WaitingIsDriven` is about an item that waits for the parser), with two lost attempts, a stale LLM call, a user retry, bulk actions, termination and deletion at every point |
| `Members` | `AccessSafety` (`RemovedIsOut` `OneInvitation`) `HandoverSafety` (`ChainEnds` `FairApproval`) `NothingRevives` `LateWorkHasOwner` | two administrators, a recruiter with work and an invitee, removed and handed over while logins, links and access changes are under way |
| `Retention` | `DueIffOver` `SweptIsOver` `ShorteningWasSeen` `SweepsReach` | one candidate's facts, a policy that changes, and sweeps that fail, wait for a lock or act on an old claim |
| `Recovery` | `FreshIsRestorable` `RecoverySafety` (`RecoveredIsClean` `GenerationOnce`) `RedeletionEnds` `KeepsOrder` | three backups with crashes, unknown publications, prunes and a key rotation; a restore of any point; the drill; the recovery with lost leases |

Bounds, and why they are enough to meet the hazards:

* Queue: two rows (one whose owner is told, one finalizer with renewed attempts),
  two processes, two producers, `AttemptCap` 2 and `MaxTime` 2 with a lease and a retry delay of
  1. A lease is taken, runs out, is reaped and the row is taken again by the other
  process while the first still believes in it, and the finalizer's batch of one is used
  and renewed. The processes have worker ids of their own; all theorems but `OwnershipCorrect` and `StepsCorrect` hold for any
  assignment of ids. Two rows active at once, which the shared key excludes here, are covered by the theorems.
* Deletion: a resume file that is there from the start or comes later, the export's object and a row, so that a manifest has no object, either or both; two processes and two attempts, so that an execution fails
  half way, is approved again or is retried by the other worker; `MaxVersion` and `MaxManifest`
  leave room for refreshes and two approvals. The bounds are on commands only, never on what the worker does.
* Offers: a second version, link and mail for one to be
  overtaken, and a chain of two so that an approval can be half done. One worker and one attempt per mail: its retries and
  waits are those of `InterviewNotices`, which has three attempts.
* Calendar: one move (`MaxPlan` 1) gives three generations, create, update and cancel; two workers hold two of them at once; two
  tries allow one redelivery of each.
* Notices: two deliveries are two invitations, an invitation and its
  resend, or an invitation and a cancellation; two sequences; three attempts of
  which one may wait for the link and two may send.
* Hiring: two interviews are two rounds of one candidate, or one each of two at the same slot; the panels
  differ in who is asked and who must answer; one rescheduling or amendment.
* Work: two managers and two recruiters between whom a task and an application change hands, one rescheduling, two messages under way and two tries: one outdated
  message beside the one that replaces it.
* Onboarding: two messages (a submission that failed and its successor, or a submission and a reconciliation), two attempts, one
  lapse or death, one change from outside: the least for a request to be sent twice with something different in between.
* Screening: one item, since items meet only in the run's counters; two attempts per job, one user retry, two lost attempts (a lost parse and a lost score of one item).
* Members: three commands in all, which is two removals and something between them; two sessions, two links. What needs no command (logins, links that run out, late work) is not bounded.
* Retention: three acts of people over the first two days and three days of sweeps, `MaxDays` 2; the two policies each shorten one
  period and lengthen the other. One attempt per sweep: a second attempt of the same sweep is no different from a later sweep (two acts with two attempts were checked too).
* Recovery: three runs, so that two complete groups remain when one is pruned or broken off; a window of one, four instants, two keys; one candidate, since candidates meet only
  in the run's counts (two candidates with one backup and one attempt were checked too); two attempts, two calls of the command.

Symmetry is used only in runs without liveness, over processes, producers, users, owners, candidates, workers and the places of messages, which
no definition tells apart.

### Fairness

* `DeletionExecution` (`FairSpec` of `CandidateDeletion`): weak fairness of the
  handler of each process, of taking a queued job and of the lapse of an unattended lease: `Worker.run` polls for ever, each call of a handler
  has a timeout, and an expired lease is reaped by the next poll.
* `OfferLifecycle` (`FairSpec`): the same for mail workers.
* `InterviewNotices` (`FairNotices`): weak fairness of working on each unsettled notice, by sending or by losing the attempt.
* `Retention`: weak fairness of time, of starting, scanning and passing; strong fairness of the two steps that need the candidate's lock, which is
  not held by somebody else at every single sweep. That a sweep is started in the first place is an operator's step, and not assumed.
* `Recovery`: weak fairness of claiming a queued job, of each handler's next step and of ending an unattended attempt.

No command is fair, no provider is assumed to succeed, and a crash is never prevented: the executions end because attempts are counted.

## 4. Proofs

Every theorem holds for all values of the constants that satisfy the module's `ConstantsAssumption`, which says what kind of
thing each constant is and no more than the code or a migration does; where a theorem needs anything else, it says so in front of `Spec`.
Each rests on an inductive invariant (`IInv` unless named below), of which TLC found no counterexample before it was proved. There is one lemma per
action, `Inductive` (`NextInd` in the queue) combines them, and the theorems follow by temporal logic.
Four proof modules extend two components each, whose state and actions are disjoint. The second component has the longer names:
`NoticesSpec`, `WorkSpec`, `ScreeningSpec` and `RecoverySpec` (of `Recovery` with `Backup`), with the invariants `NoticesInv`, `WorkInv`, `ScreeningInv` and `RecoveryInv`,
and `NoticesAssumption`, `WorkAssumption`, `ScreeningAssumption`, `BackupAssumption` and `RecoveryAssumption` about their constants.

### The queue

`JobQueueProofs` proves, for any finite set of jobs, any processes, producers, keys, worker ids shared or not, and any
bounds:

| Theorem | Statement |
|---|---|
| `TypeCorrect` | `Spec => []TypeOK` |
| `LedgerCorrect` | `Spec => [](LedgerAgrees /\ BudgetKept)`: rows and attempts agree; a claimable row has an attempt left |
| `DedupeCorrect` | `Spec => []OneActivePerKey` |
| `ExclusionCorrect` | `Spec => []ExclusiveAttempts` |
| `TellingCorrect` | `Spec => []ToldExactlyOnce` |
| `HistoryCorrect` | `Spec => HistoryFinal`: no step changes a terminal row or a finished attempt |
| `AbandonCorrect` | `Spec => NoEarlyAbandon`: an attempt is abandoned only when its lease is over by the database's clock |
| `OwnershipCorrect` | `IdsDistinct => (Spec => OwnAttemptOnly)`: with worker ids of their own, processes record outcomes only for attempts they were handed |
| `ContractKept` | `Spec => KeepsContract`: `JobQueue` implements `JobContract` |

`QueueCorrect` (`Spec => []QueueSafety`) and `StepsCorrect` (`IdsDistinct => (Spec => StepSafety)`) put together what the run checks.

None of the invariants is inductive alone. `LedgerAgrees` needs to know that only a running row has an owner and
has been handed out (`RowsShaped`), `ExclusiveAttempts` that a process in a
claim believes in nothing and one in a completion in something
(`ProcsShaped`), `OneActivePerKey` that a row is inserted by one transaction
only (`InsertsShaped`). `IInv` is the conjunction of all of them.

For the proof the conjunction is regrouped by table (lemma `Regrouped`): `TablesOK` says of each row with its
attempts and its notification what the five invariants say of it, `ProcsOK`
and `InsertsOK` say what the open transactions rely on. Then a step that
writes one row leaves the others' conjuncts alone (`OneRowInd`,
`StillExclusive`, `TablesUnchanged`), and what it does to its row is a lemma about the row: `AbandonedRow`,
`FailedRow`, `ClaimedOK`, `ReapedOK` and so on state that the row left by a repository
method is well formed whenever the row it found was. There is one lemma per
action, `NextInd` combines them, and the theorems follow by temporal logic.

The action properties follow from the same invariant, one lemma per action again (`OrderlyClaim`, `OrderlyFinish`, ...).
Two things carry them. A transaction's clock never runs ahead of the database's (`ProcsShaped`), so a lease that is over
by a reaper's old clock is over. And `_owned`, the reaper and `cancel` all require a row that is not final, whose
only unfinished attempt is its last (`LedgerAgrees`), so nothing else can be overwritten.

`OwnershipCorrect` needs one more invariant, `SupersededNotOwner`: a process that believes in an attempt which is not the
row's last is not the row's owner. It is inductive relative to `Ind` when no two processes share a worker id, and it is what makes
`_owned`'s comparison of the id alone sufficient. The assumption `IdsDistinct` cannot be dropped (section 6).

For the refinement a row is seen through `View` and every write is one of the contract's moves or none (`Moves`). The
delicate step is `CommitClaim`, which reaps several rows and takes one in a single step: a contract row may move once per
step, so the row taken must not have been reaped in the same transaction with a new batch granted. It never is,
because the batch comes with a retry delay after the transaction's own clock (`RenewedIsNotDue`), while a row
reaped with attempts left and taken at once is the contract's hand-over from one attempt to the next.

### Interviews

`HiringProofs` proves, for any applications, people, rounds, panels and slots:

| Theorem | Statement |
|---|---|
| `HiringInvariant` | `Spec => []IInv` |
| `BookingCorrect` | `Spec => []NoDoubleBooking` |
| `FeedbackCorrect` | `Spec => []FeedbackDecides` |
| `EndCorrect` | `Spec => []EndedIsClear` |
| `ClosureCorrect` | `Spec => ClosedStaysClosed` |

What the three invariants need besides themselves is small, and is what the code relies on without saying so. `HeldIsCurrent`: between the two steps
of a booking, what the command found under the candidate's lock (not terminated, in a stage that can be booked, the interview still
scheduled) is still so when it writes, because every other command of that candidate needs the same row (`Free`). `RowsOK`: an unfinished interview
lacks the feedback of somebody who is required, or requires nobody; so the last required feedback has closed it, and a closed one was judged.
`NoDoubleBooking` is proved pair by pair (`Apart`): a step that writes one interview compares it with each other one (`BookingMade`), and one
that changes only a status that is not "cancelled" changes no pair (`BookingsKept`). The decision is grounded in the one place that reaches it, `Advance` (`DoneRoundIsJudged`).

### Work and its notices

`HiringProofs` proves of `WorkNotices`, for any people, messages, tries and plans:

| Theorem | Statement |
|---|---|
| `WorkInvariant` | `WorkSpec => []WorkInv` |
| `DutyCorrect` | `WorkSpec => []DutyIsAnnounced` |
| `ReadingCorrect` | `WorkSpec => []ReadMeansSeen` |
| `ForwardCorrect` | `WorkSpec => NoForwardAfterEnd` |

`DutyIsAnnounced` asks for a message under way to whoever has a duty and was not told of it. That is too little to be inductive: a card that is built and not yet sent may show
a plan that was changed since, and its being sent would tell nobody anything. A message announces a duty (`Announces`) when it is still to be built, or was built for the plan in force.
A step either leaves such a message under way, settles the duty, or makes a new message for a duty it creates; a duty that moves to somebody else leaves `settled`, so that returning it announces it again. An
application that has ended is withdrawn and has no duties, and one that is new or deferred no task.
For `ReadMeansSeen` a mark that is current must have been made from a page that was seen. `WorkAssumption` takes the managers to be finitely many, since cards are counted against the free places for messages.

### Screening

`JobQueueProofs` proves of `Screening`, for any set of items and any numbers of attempts, user retries and losses:

| Theorem | Statement |
|---|---|
| `ScreeningInvariant` | `ScreeningSpec => []ScreeningInv` |
| `ItemCorrect` | `ScreeningSpec => []ItemSafety` |
| `EndedCorrect` | `ScreeningSpec => EndedIsFinal` |

The invariant says of each item by itself that it is in order (`ItemOK`), and of the run that one which has not started has no work (`RunOK`). A handler's step is about one item, leaves the others alone,
and leaves its own in order: one lemma per step says so (those named `...Good`). What may be undone is the reason for most of the strengthening: a transaction that counts items holds the new row
open until it commits or is rolled back, so both the old row and the new one must be in order beside the same objects and jobs, and the score or the task of an open transaction must not
be relied on. The parts are:

* `FileOK`: the copy is there before the row is switched to it, and the row is switched before the original is deleted, so a crash in between leaves the row naming something;
* `ToParse` and `DrivenOK`: the parse job of an item that waits for the parser is queued, or handed out to a handler that is not about to report success without having moved the item;
* `RouteOK` and `RouteHolds`: a route is backed by a score on file, and no task is made before a route or behind an advance that may be undone.

Commands (uploads, starting, cancelling, bulk actions) need not find a started run, and some touch every item; they are shown directly (`...Settles`). `EndedIsFinal` follows from the same
lemmas, each of which also says that its step does not move what a person ended.

### Calendar

`InterviewCalendarProofs`, for any workers, plans and attempts:

| Theorem | Statement |
|---|---|
| `CalendarInvariant` | `Spec => []IInv` |
| `CalendarCorrect` | `Spec => []CalendarSafety` |
| `LedgerCorrect` | `Spec => []LedgerHonest` |

All hold whoever outlives a lease, because a call is made under the locks of the interview and its sync row and for the generation in force (`OneCall`,
`WorkerOK`): nothing the call is about changes before its answer is written, so the answer is still true then (`Answered`). Generations count the changes of
the schedule (`GenerationsCount`), so the event a generation created shows that generation's schedule (`EventsOK`), and the event the row names is
there until a cancellation deletes it (`RowOK`). `SyncedShowsCurrent` and `RemoteIsKnown` are what remains of these when the call is
over. Steps come in kinds with a lemma each: those that move only messages (`OutboxStep`), the provider's calls (`CallStep`), the transactions
that write an answer (`CommitStep`), and the commands that begin a generation (`ScheduleStep`). For `LedgerHonest`, a termination that lists nothing has found no event named
or a row that says it is deleted, so only events whose making was lost can be left.

The same module proves of `InterviewNotices`, for any number of mails, changes and attempts:

| Theorem | Statement |
|---|---|
| `NoticesInvariant` | `NoticesSpec => []NoticesInv` |
| `NoticesCorrect` | `NoticesSpec => []NoticeSafety` |

That a cancellation outranks every invitation is not inductive: it follows from what the sequences say about the interview. A notice has
a sequence the interview has reached; only a cancellation has that of a cancelled interview, and every invitation, also
one resent afterwards, has a smaller one (`NoticeOK`). The worker's three transactions, its death and the resending all keep a notice's kind and sequence, so one
lemma covers them (`MailStep`); what is left for each is that a notice it cancels is not of the plan in force (`ObsoleteIs`), and
that a notice it fails gets its report. The commands are changes of the plan (`PlanStep`), the cancellation, and steps that leave the mails alone (`MeetingStep`).

### Onboarding

`OnboardingProofs`, for any set of workers and any number of messages, attempts, lapses and changes from outside:

| Theorem | Statement |
|---|---|
| `OnboardingInvariant` | `Spec => []IInv` |
| `RequestCorrect` | `Spec => []OneRealRequest` |
| `LedgerCorrect` | `Spec => []LedgerKnows` |
| `StopCorrect` | `Spec => StopIsFinal` |

That one request at most leaves is not inductive: it follows because the fingerprint a message stores is compared before anything is sent. So `OneDigest` says that
the messages of a generation agree on the request they have stored, `CarriedIsStored` that a handler about to call carries the one its message has,
`SentIsStored` and `SentIsMarked` that what has left was stored, and marked as attempted, before it left. `RemoteIsSent` adds
that nothing is at Feishu, or on its way, that was not sent, and `LedgerSeesSent` that a stop after that found it. Most steps are quiet
(`QuietStep`): they write nothing those conjuncts read. The ones that do, `Prepare`, `CommitAttempt`, `Call`, `Land`, `Terminate` and a changed configuration, have lemmas of their own.

### Offers and their mail

`OfferProofs`, for any workers and any numbers of versions, links, mails and attempts:

| Theorem | Statement |
|---|---|
| `OfferInvariant` | `Spec => []IInv` |
| `AnswerCorrect` | `Spec => [](AnswerWasApproved /\ OutcomeAgrees /\ OneActiveToken /\ StopHolds /\ EndedJobEndsMail)` |
| `AttestationCorrect` | `Spec => LateSendIsAttested` |
| `OfferCorrect` | `~StaleHandlers => (Spec => []OfferSafety)`, which adds `MailInAirIsOpen` |
| `ContractKept` | `Spec => KeepsContract`: `OfferLifecycle` implements `OfferContract` |

All but `OfferCorrect` hold with `StaleHandlers`, that is, whoever outlives a lease. `IInv` falls into two sides that
almost every step leaves one of alone. On the Offer's side: an approval chain is decided in turn (`ChainsOK`), an answer is final and alone makes an Offer
accepted or declined (`AnswerIsFinal`), and a version that was sent has arrived in a mail with its link (`LinksOK`). On the mail's: deliveries and
their jobs begin together, and the attempts prepared and about to be prepared fit into the attempts handed out (`MailsOK`, by cardinality, as `tries` is what
`Prepare` compares); a worker carries a delivery that exists and a result that is true (`WorkersOK`). The sides meet in `inbox` and the links (`ArrivedKept`).

`OfferCorrect` needs `Unlapsed` on top, relative to `IInv`: without stale handlers each delivery has one handler (`OneHandler`) and is marked as in flight while it may be at
the server. Its assumption cannot be dropped (section 6). For the refinement each action is one of the contract's or none (`StepRefines`).

### Deletion

`DeletionProofs`, for any files, rows, processes, users and bounds:

| Theorem | Statement |
|---|---|
| `DeletionInvariant` | `Spec => []IInv` |
| `EvidenceCorrect` | `Spec => [](CompletedFilesGone /\ CompletedIsAttested /\ ActiveJobIsCurrent)` |
| `ContractKept` | `Spec => KeepsContract`: `CandidateDeletion` implements `DeletionContract` |
| `CompletionCorrect` | `~StaleHandlers => (Spec => []CompletedIsProven)` |
| `HoldCorrect` | `~StaleHandlers => (Spec => NothingDeletedUnderHold)` |
| `DriverCorrect` | `~StaleHandlers => (Spec => []ExecutingIsDriven)` |
| `SafetyCorrect` | `~StaleHandlers => (Spec => []DeletionSafety)`: the two together |
| `OrderKept` | `~StaleHandlers => (Spec => KeepsOrder)`: `CandidateDeletion` implements `Erasure` |

The first three hold with handlers that outlived their leases: what protects a completed deletion is then not the lease but the version. A handler
of an old version finds the request at another one in each transaction, and one of the present version can only write evidence of the manifest that was approved with it.
`HandlerOK` says what each place of the execution may know, in particular that whoever redacts, persists or completes has seen every
checkpoint done, and `CheckpointsOK` that checkpoints are exactly the objects of the manifest and never come back. What a stale handler can spoil is what is true of
a moment: the export's object (it may be written after its checkpoint) and the hold. So `CompletedIsProven` and `NothingDeletedUnderHold` need `Unlapsed`: one handler at most holds a job, it is the
request's, the request is executing while it deletes, and the export is over by then.

The order of the stages needs `Staged` on top of both. The manifest of an execution covers every object the candidate has (`Covered`): files come only
while deletion is not decided, an export names its object before it writes, and `Claim` compares the manifest with the candidate. So when every checkpoint is
done there is no object left (`NothingLeft`), and none can come back to a tombstone. From the redaction on, the candidate's version is the manifest's
and one (`Attested`), because the routine compares them however late an edit came; what is written into the ledger therefore names the version that was
erased. And an execution has its job (`Driven`), as `Alone` leaves nobody else to end it. With `Staged` each action is a step of `Erasure` or none of it
(`StoresMove`, `InOrder`).

### Retention

`RetentionProofs`, for any policies, applications, pools and days:

| Theorem | Statement |
|---|---|
| `RetentionInvariant` | `Spec => []IInv` |
| `DueCorrect` | `Spec => []DueIffOver` |
| `SweepCorrect` | `Spec => SweptIsOver` |
| `ShorteningCorrect` | `Spec => ShorteningWasSeen` |

A due date is the greatest of a set of dates. That there is a greatest is induction over numbers, which the provers reach by a detour: the
library proves that `<` is well founded on the natural numbers, so a set of them has a least member (`Least`), and one that is bounded a
greatest (`Greatest`). `ConstantsAssumption` bounds what a policy says by `MaxDays`, as the table's CHECK does (`governance/models.py:17`); a membership's date is
within it too (`Deferrals`). `DueBounds` says of a due date what the rest needs.

`SweptIsOver` rests on `Judged`: a sweep judges by the policy it read. If that was changed since, the change wrote the due date anew; if the facts were changed after
that, the due date follows them; and the one path that adds a fact without touching the due date, the handover, stamps the candidate with a day no earlier than the
sweep's, so that by its own policy the candidate's retention is not over. Steps that change the facts share one lemma (`FactsStep`), as they share
`recalculate_candidate_retention`.

### Backup and Recovery

`RetentionProofs` proves of `Recovery`, which extends `Backup`, for any number of candidates, runs, keys, attempts and commands:

| Theorem | Statement |
|---|---|
| `RecoveryInvariant` | `RecoverySpec => []RecoveryInv` |
| `RecoveryCorrect` | `RecoverySpec => []RecoverySafety` |
| `FreshnessCorrect` | `RecoverySpec => []FreshIsRestorable` |
| `OrderKept` | `RecoverySpec => KeepsOrder`: but for the steps of a restore, `Recovery` implements `Erasure` |

Besides bounds, the assumptions say that a manifest or a run is not `Nothing`. `RecoveredIsClean` spans three parts of the system, and `RecoveryInv` has a part for each. While people work, a copy taken after its cutoff knows
the deletions up to the cutoff, and an archive only deletions that happened, with their times (`CopiesOK`; a deletion takes the file before the data, `WorkOK`). Hence any archive and any group that are
restored together agree about everybody deleted before the group's cutoff (`CopiesAgree`), and the restore keeps that until it is done (`RestoreOK`). Whoever was deleted later is applicable, has a
checkpoint, and a completed checkpoint's candidate is clean (`PointOK`).
That a run is completed only when all its checkpoints are is a matter of counting: a handler in its last transaction counted no more checkpoints
than are completed by now (`ThreadOK`), so if its count is the number of the prepared ones, all others are (`AllCompleted`). The claim persists, as no step makes a checkpoint
less than completed or brings anybody back, a second handler of the same checkpoint included. All steps of a job share one lemma (`JobStep`), which looks at what a step makes of
the checkpoint, the request, the row and the two handlers.

`FreshIsRestorable` has an invariant of its own (`CatalogOK` in `Backup`, `StoresInv`): archives are numbered in turn, so a run never publishes over an older one's; a point's
archive is there before it, with its cutoff; what a prune has planned to delete is older than the window by any later clock, so it is no point that still counts as fresh; and two points
are outside the plan, as the newest two were when it was made (`TwoAreKept`).

For `OrderKept` a step of people, of a deletion or of a recovery handler is one of `Erasure`'s moves or none (`MovesAre`). A handler redacts only after
the object is gone (`ThreadOK`), a late one included, and finds a tombstone or leaves one. `OrderOK` adds that a tombstone is of the version after the
approved one. The steps of a restore, which fill the plane from copies, are exempt: what they bring back is the matter of `RecoveryCorrect`.

### Members

`MembersProofs`, for any members, sessions, links, work and number of commands:

| Theorem | Statement |
|---|---|
| `MembersInvariant` | `Spec => []IInv` |
| `AccessCorrect` | `Spec => []AccessSafety` |
| `HandoverCorrect` | `Spec => []HandoverSafety` |
| `RevocationCorrect` | `Spec => NothingRevives` |
| `LateWorkCorrect` | `Spec => LateWorkHasOwner` |

The argument has one idea: every step moves accounts, sessions and links in an orderly way (`Orderly`, one lemma per action). An account's version only
grows, and grows with whatever takes access away; a session or link is made for its account as it is, and otherwise only ends. Whatever moves so keeps
`SessionOK` and `LinkOK` (no version is yet to come, `SessionKept`, `LinkKept`), and for the same reason revives nothing: a session whose version has
been passed stays passed. That only removal disables an account, and nothing enables it again (`GoneIsDisabled`), makes removal final.

A chain of successors that comes back would need a set of members closed under succession, so `ChainEnds` is stated as the existence of a set of others
that is closed: for each removed member there is one without him that holds whoever comes after. That is a statement of sets, which the provers handle, where a walk along the chain would
need induction. A handover extends such sets, as its successor is active and has none yet (`ChainKept`). The step `Produce` uses only that `Operator` answers an active member or nobody, which its own guard checks, so
that the recursive function under it need never be unfolded.

### Only model-checked

* liveness (`ExecutionEnds`, `MailEndsEventually`, `NoticeEnds`, `SweepsReach`, `RedeletionEnds`): TLAPS does not prove properties under fairness;
* what `Members.Destination` computes, by recursion along the chain of successors: no theorem depends on it.

## 5. Plan

Done: the queue and its proofs, deletion, offers with their mail and their
termination, the calendar, interview notices, interviews with feedback, work and its cards, onboarding,
screening, members, retention, backup and recovery; a proof of every safety and action property that a run checks. Left, in this order:

1. Stale attempts of the parse and score handlers in `Screening`; a second item for the run's counters.
2. Overlapping sweeps and several candidates in `Retention`.

## 6. Where code and documents, or code and expectation, disagree

Each of the following is stated in a module and violated by what the code does; none is part of a run. To see a counterexample, check
the name as `INVARIANT` or `PROPERTY` under the cfg in brackets, without its `SYMMETRY`.

Against a document or the interface:

* `FailedCanBeApproved` (`DeletionExecution`): a deletion that failed after one attempt on an object cannot be approved
  again (`governance/deletion_service.py:556`), although the interface asks an administrator
  to do so (`frontend/src/CandidateViews.jsx:463`). An outage of the object store over all attempts is enough.
* `ConfirmationIsWanted` (`OfferLifecycle`): declining an offer withdraws the application, and a withdrawn application counts as
  terminated, so the confirmation just queued is cancelled as obsolete (`communications/worker.py:76`,
  `docs/candidate-email-and-offer-operations.md:21`).
* `NoDuplicateEvent` (`InterviewCalendar`): an event whose creation reports an error after the fact is not recorded; the next
  reschedule turns its update into a create under a new idempotency key and makes a
  second event (`integrations/feishu/provider.py:856`, `src/server/README.md:515-519`).
* `OldInviteNeverLeaves` (`InterviewNotices`): the second of the mail worker's transactions does not compare the ICS sequence, so that an
  invitation overtaken between the two still leaves (`communications/worker.py:454`, `src/server/README.md:533`).
* `AdminRemains` (`Members`): an access change resolved while another administrator existed may take the last system administrator's role
  (`identity/admin_api.py:984`, `src/server/README.md:230-231`).
* `EvaluationIsDriven` (`Screening`): an LLM attempt that is lost while "running" is followed by one that finds the item not "queued" and returns
  (`screening/llm_pipeline.py:108`): the item stays "running" with no job, although a failed evaluation is to fail open (`src/server/README.md:633`). A late transient error of
  a lost attempt sets it "queued" in the same way.
* Unbound recipients: the card handler fails a message whose recipient has no Feishu binding, which `src/server/README.md:510-512` calls a successful no-op.
* `src/server/README.md:531-532` says that no placeholder mail is sent for a missing link, while the worker
  (`communications/worker.py:210-230`) and `docs/candidate-email-and-offer-operations.md:25` send one.

Against what one might expect:

* `RedactedAfterCheckpoints` (`DeletionExecution` with `Spec`, no `Files` and no `Rows`, `StaleHandlers = TRUE`, `MaxVersion = 5`, `MaxAttempts = 1`):
  pending checkpoints are counted in one transaction and the redaction happens in another. A stale handler may come between an approval of a candidate
  without files, its failure, and a second approval that has an export or a new file to delete first. With a file from the start
  the first execution attempts a checkpoint, which forbids the second approval.
* With `StaleHandlers = TRUE` a handler that outlived its lease may violate `CompletedIsProven`, `ExecutingIsDriven`, `NothingDeletedUnderHold`, `KeepsOrder` and `ExecutionEnds`;
  `CompletedFilesGone`, `CompletedIsAttested`, `ActiveJobIsCurrent` and `KeepsContract` hold even then, which is proved. In `OfferLifecycle`, with two workers, `MailInAirIsOpen` and
  `SentStaysSent` (with `MailAttempts = 2`) are violated then, and everything else of `OfferSafety`, `LateSendIsAttested` and `KeepsContract` hold, which is proved too.
* `ApprovedIsWaiting` (`DeletionExecution`): a job that dies before it claims its request leaves it approved
  with nothing to drive it; the terminal callback ignores it (`governance/terminal.py:45`).
* `SentOfferHasLink` (`OfferLifecycle`): a resend that fails revokes the only link.
* `LinkIsOfCurrentVersion` (`OfferLifecycle`): a revision leaves the link of the version before.
* `OpenItemCanClose` (`OfferLifecycle`): a mail lost with its worker stays in flight on the ledger.
* `LateOfferExpires` (`OfferLifecycle`): nothing calls the expiry on its own.
* `LastRoundWasHeld` (`Hiring` with `Interviews = {1, 2, 3}`): a missed interview of a round outside the workflow brings the application to
  "decision" although its last round was never held (`interviews/api.py:642`).
* `CompletionIsTold` (`Recovery` with two candidates, and 1 for `MaxRuns`, `MaxCalls`, `MaxKeys` and `JobAttempts`): two checkpoints that complete at once do not see each other and leave the run uncompleted (`governance/recovery.py:490-508`).
* `ConfirmingKeepsNotice` (`WorkNotices`): confirming an interview before its card is sent silences the card (`integrations/feishu/worker.py:488`).
* `ParsedIsScored` (`Screening`): a score attempt that is lost leaves its item "scoring"; the next one finds it not "parsed" and returns as if it were done
  (`screening/pipeline.py:178`), so the item stays without a job. And when a parse and a score attempt are lost in turn, the parse begins again and the second score attempt finds the item "parsing": while that
  attempt is still completing, the parse stores its result and queues the score, which the dedupe key takes for the job that is just ending (`queue/repository.py:27`); the item stays "parsed".
* `TaskOfReview` (`WorkNotices`): a bulk rejection leaves the review task open; a bulk advance makes none (`screening/actions.py:120-161`).

Seen while modelling, and stated by no module:

* `deploy/compose.yaml:32` gives every replica of the worker
  the same `WORKER_ID` unless told otherwise; `_owned` compares that id and the lease only, so with more than one
  process a handler that outlived its lease may complete the attempt that replaced it
  (`OwnAttemptOnly` fails when `WorkerIdOf` is constant, which `OwnershipCorrect` excludes by assumption; the other theorems hold then too).
* Recovery: a candidate that was edited after the restored backup and then deleted cannot be deleted again, as the manifest is stale
  (`server/migrations/versions/0017_governance_deletion.py:778`); one created after the cutoff and deleted makes the command refuse the whole recovery (`governance/recovery.py:50`);
  a failed run is set to running again by another checkpoint (`governance/recovery.py:437`); every archive must be signed by the active key (`deploy/backup/backupctl.py:543`).
* Retention: `current_policy.version != policy.version` compares a row with itself; a sweep whose request is refused by another open one
  fails whole; the retention of the system pool has no effect while its application is deferred, since that counts as live.
* Offers: submitting does not exclude the submitter from the approvers (`offers/service.py:506-535`); only a handover does.
* Onboarding: a message that is reaped leaves its record "submitting" for ever, as does a deletion that is requested and then rejected; a crash between claim and
  preflight makes later attempts ask for reconciliation.
* Interviews: cancelling does not advance an application whose other interviews are done; after a decision an interview of another round
  cannot take its last feedback; an interview of a rejected application can still be moved.

## 7. Not modelled

OCR, LLM and document parsing (data; their outcomes are choices in `Screening`), observability, settings and logging, and the web
client (its requests are the nondeterministic inputs of the handlers). Authorization checks
are assumed to pass, except where they are the subject (`Members`): a refused request changes nothing. Row-level security, audit rows
and idempotency records of the HTTP layer are left out, as no property depends on them; so are optimistic versions where
a client may hold any version.

Of the parts that are modelled:

* the fairness of `QueueRuntime` between organizations and its reap budget;
* of the cards, those about failed mail, ended members and deleted candidates, the rules of who may be an assignee, and two concurrent marks by one user;
* of members, login lockout, CSRF rotation, departments and their scope, workflow templates, and the other kinds of work handed over;
* of screening, attempts of parse and score that outlive their lease, and more than one item;
* of retention, posting status, pool grants, batches, overlapping sweeps and more than one candidate;
* of backup and recovery, the expiry of ledger objects, the restored plane's own queue, a second restore, hashes, secrets and paths, and the objectives' evidence;
* profile jobs of the talent pool, report queries and download tickets, mail templates and settings, PDF rendering.

`PROJECT.json` lists every part with its status, the lines each definition translates, and the hazards with
the properties that watch them.
