------------------------- MODULE InterviewCalendar -------------------------
(***************************************************************************)
(* One interview and its event on the Feishu calendar (interviews/api.py,  *)
(* interviews/cancellation.py, integrations/feishu/sync.py and worker.py,  *)
(* the outbox of queue/repository.py), with the termination of its         *)
(* application (recruiting/termination.py).                                *)
(*                                                                         *)
(* Each change of the schedule rotates the generation of the sync row and  *)
(* puts an outbox message for it.  A worker delivers a message inside one  *)
(* transaction that keeps the application, the interview and the sync row  *)
(* locked during the call to the provider: commands wait for it, but the   *)
(* call and the commit are not one step.  A lease may lapse at any time,   *)
(* since the handler blocks the loop its heartbeat needs: time is left out.*)
(* The provider keeps one event per idempotency key, the message's id.     *)
(***************************************************************************)
EXTENDS Integers, FiniteSets

CONSTANTS
  Procs,        \* worker processes; deployed replicas share one WORKER_ID
  MaxPlan,      \* bound on the number of reschedules
  OutboxTries   \* max_attempts of an outbox message

ASSUME ConstantsAssumption ==
  IsFiniteSet(Procs) /\ MaxPlan \in Nat /\ OutboxTries \in Nat \ {0}

VARIABLES
  app,      \* the application: "open", "withdrawn" (its stage, without a termination
            \* record) or "terminated" (with one)
  iv,       \* the interview: status, number of the schedule in force, whether it
            \* is by video, the event its meeting_url belongs to (0: it has none)
  enabled,  \* the organization's Feishu configuration is enabled
  sync,     \* feishu_interview_syncs; generations are numbered; tried: attempts > 0
  box,      \* the outbox message of each generation
  proc,     \* what each worker process does with which message
  remote,   \* the provider's events, by the generation whose message made them
  lost,     \* events whose making the platform was not told of or did not record
  ledger    \* the termination's calendar items; whether a person attested them

vars == <<app, iv, enabled, sync, box, proc, remote, lost, ledger>>

Plans == 0..MaxPlan
Gens  == 1..MaxPlan + 2

(* A meeting_url that a user entered belongs to no event.                   *)
OwnLink == MaxPlan + 3
Urls    == {0, OwnLink} \cup Gens

(* "planned" stands for draft, scheduled, rescheduled and confirmed, "held"  *)
(* for pending_feedback, "over" for feedback_completed and no_show.          *)
Statuses    == {"none", "planned", "held", "over", "cancelled"}
Cancellable == {"planned", "held"}

NoMessage == [st |-> "none", tries |-> 0]
Idle      == [pc |-> "idle", gen |-> 0, res |-> "none"]

Items == [gen : Gens, ref : {0} \cup Gens, state : {"unknown", "needs_action", "resolved"}]

TypeOK ==
  /\ app \in {"open", "withdrawn", "terminated"} /\ enabled \in BOOLEAN
  /\ iv \in [status : Statuses, plan : Plans, video : BOOLEAN, url : Urls]
  /\ sync \in [action : {"create", "update", "cancel"}, gen : {0} \cup Gens, ext : {0} \cup Gens,
               tried : BOOLEAN, status : {"disabled", "pending", "synced", "failed", "cancelled"}]
  /\ box \in [Gens -> [st : {"none", "queued", "running", "published", "failed"},
                       tries : 0..OutboxTries]]
  /\ proc \in [Procs -> [pc : {"idle", "claimed", "called", "done"}, gen : {0} \cup Gens,
                         res : {"none", "ok", "error"}]]
  /\ remote \in [Gens -> [st : {"none", "live", "deleted"}, shows : Plans]]
  /\ lost \subseteq Gens
  /\ ledger \in [items : SUBSET Items, attested : BOOLEAN]

Init ==
  /\ app = "open" /\ enabled \in BOOLEAN
  /\ iv = [status |-> "none", plan |-> 0, video |-> FALSE, url |-> 0]
  /\ sync = [action |-> "create", gen |-> 0, ext |-> 0, tried |-> FALSE, status |-> "disabled"]
  /\ box = [g \in Gens |-> NoMessage]
  /\ proc = [p \in Procs |-> Idle]
  /\ remote = [g \in Gens |-> [st |-> "none", shows |-> 0]]
  /\ lost = {}
  /\ ledger = [items |-> {}, attested |-> FALSE]

(* application_is_terminated: by its record, or by its stage.               *)
Ended == app # "open"

Live == {g \in Gens : remote[g].st = "live"}

-----------------------------------------------------------------------------
(* Commands.  They take the locks a delivery in progress holds.             *)

(* Deviation: the provider is called without the locks.                     *)
UnlockedAlways == TRUE

(* _lock_application_candidate_retention, the interview's row lock.         *)
Unlocked == \A p \in Procs : proc[p].pc # "called"

(* schedule_interview_sync: a new generation, and a message for it.         *)
ScheduleSync(action) ==
  LET g == sync.gen + 1 IN
  /\ sync' = [sync EXCEPT !.action = IF action = "update" /\ sync.ext = 0 THEN "create" ELSE action,
                          !.gen = g, !.status = IF enabled THEN "pending" ELSE "disabled"]
  /\ box' = IF enabled THEN [box EXCEPT ![g] = [NoMessage EXCEPT !.st = "queued"]] ELSE box

(* create_interview.                                                        *)
CreateInterview ==
  /\ Unlocked /\ ~Ended /\ iv.status = "none"
  /\ \E video \in BOOLEAN : \E url \in IF video THEN {0, OwnLink} ELSE {0} :
       iv' = [iv EXCEPT !.status = "planned", !.video = video, !.url = url]
  /\ ScheduleSync("create")
  /\ UNCHANGED <<app, enabled, proc, remote, lost, ledger>>

(* patch_interview: a new schedule; only a video interview keeps its link.  *)
Reschedule ==
  /\ Unlocked /\ ~Ended /\ iv.status = "planned" /\ iv.plan < MaxPlan
  /\ \E video \in BOOLEAN :
       \E url \in IF video THEN {0, OwnLink, iv.url} ELSE {0} :
         iv' = [iv EXCEPT !.plan = @ + 1, !.video = video, !.url = url]
  /\ ScheduleSync("update")
  /\ UNCHANGED <<app, enabled, proc, remote, lost, ledger>>

(* cancel_interview_record; an ended application does not forbid it.         *)
CancelRecord ==
  /\ iv.status \in Cancellable
  /\ iv' = [iv EXCEPT !.status = "cancelled"]
  /\ ScheduleSync("cancel")

(* transition_interview to "cancelled".                                     *)
CancelInterview ==
  /\ Unlocked /\ CancelRecord
  /\ UNCHANGED <<app, enabled, proc, remote, lost, ledger>>

(* transition_interview otherwise, submit_my_feedback: Feishu is not told.  *)
Progress ==
  /\ Unlocked /\ ~Ended
  /\ \/ iv.status = "planned" /\ iv' = [iv EXCEPT !.status = "held"]
     \/ iv.status \in Cancellable /\ iv' = [iv EXCEPT !.status = "over"]
  /\ UNCHANGED <<app, enabled, sync, box, proc, remote, lost, ledger>>

(* Another command withdraws the application (transition_application_record,*)
(* withdraw_candidate_applications_for_deletion): its interview stays.      *)
Withdraw ==
  /\ Unlocked /\ ~Ended /\ app' = "withdrawn"
  /\ UNCHANGED <<iv, enabled, sync, box, proc, remote, lost, ledger>>

(* An administrator switches the integration.                               *)
Configure ==
  /\ enabled' = ~enabled
  /\ UNCHANGED <<app, iv, sync, box, proc, remote, lost, ledger>>

-----------------------------------------------------------------------------
(* Delivery of an outbox message.                                           *)

(* claim_outbox: a queued message, or a running one, whose lease has lapsed *)
(* by then whatever became of the worker that held it.                      *)
ClaimMessage(p, g) ==
  /\ proc[p].pc = "idle" /\ box[g].tries < OutboxTries /\ box[g].st \in {"queued", "running"}
  /\ box' = [box EXCEPT ![g] = [st |-> "running", tries |-> @.tries + 1]]
  /\ proc' = [proc EXCEPT ![p] = [pc |-> "claimed", gen |-> g, res |-> "none"]]
  /\ UNCHANGED <<app, iv, enabled, sync, remote, lost, ledger>>

(* _reap_expired_outbox: the lease of the last attempt has lapsed.          *)
ReapMessage(g) ==
  /\ box[g].st = "running" /\ box[g].tries >= OutboxTries
  /\ box' = [box EXCEPT ![g] = [NoMessage EXCEPT !.st = "failed"]]
  /\ UNCHANGED <<app, iv, enabled, sync, proc, remote, lost, ledger>>

AtStep(p, pc) == proc[p].pc = pc
Goto(p, pc, res) == proc' = [proc EXCEPT ![p].pc = pc, ![p].res = res]

(* The handler's early returns: another generation is in force, or the      *)
(* application has ended.                                                   *)
Outdated(g) == sync.gen # g
StoppedNever == FALSE
Stopped == sync.action # "cancel" /\ Ended

ReturnEarly(p) ==
  LET g == proc[p].gen IN
  /\ AtStep(p, "claimed") /\ Unlocked
  /\ Outdated(g) \/ ~enabled \/ Stopped
  /\ sync' = IF ~Outdated(g) /\ ~enabled THEN [sync EXCEPT !.status = "disabled"] ELSE sync
  /\ Goto(p, "done", "ok")
  /\ UNCHANGED <<app, iv, enabled, box, remote, lost, ledger>>

MayCall(p) == AtStep(p, "claimed") /\ Unlocked
              /\ ~Outdated(proc[p].gen) /\ enabled /\ ~Stopped

(* create_event: one event per idempotency key.  An error may come after    *)
(* the event was made, from the attendees' requests or a lost answer.       *)
CallCreate(p) ==
  LET g == proc[p].gen
      made == IF remote[g].st = "none"
                THEN [remote EXCEPT ![g] = [st |-> "live", shows |-> iv.plan]] ELSE remote IN
  /\ MayCall(p)
  /\ sync.action = "create" \/ (sync.action = "update" /\ sync.ext = 0)
  /\ \/ remote' = made /\ UNCHANGED lost /\ Goto(p, "called", "ok")
     \/ /\ Goto(p, "called", "error")
          /\ \/ remote' = made /\ lost' = IF sync.ext = g THEN lost ELSE lost \cup {g}
             \/ UNCHANGED <<remote, lost>>
  /\ UNCHANGED <<app, iv, enabled, sync, box, ledger>>

CallUpdate(p) ==
  /\ MayCall(p) /\ sync.action = "update" /\ sync.ext # 0
  /\ \/ /\ remote' = [remote EXCEPT ![sync.ext].shows = iv.plan]
        /\ \E res \in {"ok", "error"} : Goto(p, "called", res)
     \/ UNCHANGED remote /\ Goto(p, "called", "error")
  /\ UNCHANGED <<app, iv, enabled, sync, box, lost, ledger>>

(* Without an event there is nothing to cancel; an event already deleted    *)
(* by an attempt whose answer was lost may be an error.                     *)
CallCancel(p) ==
  /\ MayCall(p) /\ sync.action = "cancel"
  /\ \/ sync.ext = 0 /\ UNCHANGED remote /\ Goto(p, "called", "ok")
     \/ /\ sync.ext # 0 /\ remote' = [remote EXCEPT ![sync.ext].st = "deleted"]
        /\ \E res \in {"ok", "error"} : Goto(p, "called", res)
     \/ sync.ext # 0 /\ UNCHANGED remote /\ Goto(p, "called", "error")
  /\ UNCHANGED <<app, iv, enabled, sync, box, lost, ledger>>

(* _apply_fact for a definite answer: it closes the item of the same event  *)
(* and generation, or an open one of that generation without an event.      *)
Attested(g, ref) ==
  LET same == {i \in ledger.items : i.gen = g /\ i.ref = ref}
      open == {i \in ledger.items : i.gen = g /\ i.ref = 0 /\ i.state = "unknown"} IN
  [ledger EXCEPT !.items = (@ \ (IF same # {} THEN same ELSE open))
                           \cup {[gen |-> g, ref |-> ref, state |-> "resolved"]}]

(* The transaction of the call commits with the provider's answer.          *)
CommitCancel(p) ==
  /\ AtStep(p, "called") /\ proc[p].res = "ok" /\ sync.action = "cancel"
  /\ sync' = [sync EXCEPT !.status = "cancelled", !.tried = TRUE]
  /\ ledger' = IF app = "terminated" /\ sync.ext # 0 THEN Attested(sync.gen, sync.ext) ELSE ledger
  /\ Goto(p, "done", "ok")
  /\ UNCHANGED <<app, iv, enabled, box, remote, lost>>

CommitEvent(p) ==
  LET e == IF sync.action = "update" /\ sync.ext # 0 THEN sync.ext ELSE proc[p].gen IN
  /\ AtStep(p, "called") /\ proc[p].res = "ok" /\ sync.action # "cancel"
  /\ sync' = [sync EXCEPT !.ext = e, !.status = "synced", !.tried = TRUE]
  /\ \E url \in IF iv.video THEN {e, iv.url} ELSE {0} : iv' = [iv EXCEPT !.url = url]
  /\ lost' = lost \ {e}
  /\ Goto(p, "done", "ok")
  /\ UNCHANGED <<app, enabled, box, remote, ledger>>

CommitError(p) ==
  /\ AtStep(p, "called") /\ proc[p].res # "ok"
  /\ sync' = [sync EXCEPT !.status = "failed", !.tried = TRUE]
  /\ Goto(p, "done", "error")
  /\ UNCHANGED <<app, iv, enabled, box, remote, lost, ledger>>

(* publish_outbox and fail_outbox.  An error is retried while attempts are  *)
(* left, unless it is a permanent one.  Nothing reads the attempts of a     *)
(* finished message: they are kept as 0.                                    *)
Settle(p) ==
  LET g == proc[p].gen
      Becomes(st) == box' = [box EXCEPT ![g] = [NoMessage EXCEPT !.st = st]] IN
  /\ AtStep(p, "done") /\ box[g].st = "running"
  /\ proc' = [proc EXCEPT ![p] = Idle]
  /\ \/ proc[p].res = "ok" /\ Becomes("published")
     \/ proc[p].res = "error" /\ Becomes("failed")
     \/ /\ proc[p].res = "error" /\ box[g].tries < OutboxTries
        /\ box' = [box EXCEPT ![g].st = "queued"]
  /\ UNCHANGED <<app, iv, enabled, sync, remote, lost, ledger>>

(* The process dies: an open transaction is rolled back, a call is not.  At *)
(* its last step this is also the worker whose lease has lapsed, and whose  *)
(* result is refused.                                                       *)
Crash(p) ==
  LET g == proc[p].gen IN
  /\ proc[p].pc # "idle"
  /\ lost' = IF AtStep(p, "called") /\ remote[g].st = "live" /\ sync.ext # g
               THEN lost \cup {g} ELSE lost
  /\ proc' = [proc EXCEPT ![p] = Idle]
  /\ UNCHANGED <<app, iv, enabled, sync, box, remote, ledger>>

-----------------------------------------------------------------------------
(* The termination of the application, as far as the calendar goes.         *)

(* _uncertain_calendar_create: an attempt may have left an event behind; an *)
(* error code is only left by an attempt that was counted.                  *)
UncertainCreate ==
  sync.gen # 0 /\ sync.action \in {"create", "update"} /\ sync.ext = 0 /\ sync.tried

(* terminate_application: the interview is cancelled, and what may be left  *)
(* on the provider's side becomes an item of the ledger.                    *)
Terminate ==
  /\ Unlocked /\ ~Ended
  /\ app' = "terminated"
  /\ \/ CancelRecord
     \/ iv.status \notin Cancellable /\ UNCHANGED <<iv, sync, box>>
  /\ ledger' = [ledger EXCEPT !.items =
       (IF UncertainCreate THEN {[gen |-> sync.gen, ref |-> 0, state |-> "unknown"]} ELSE {})
       \cup (IF sync'.ext # 0 /\ sync'.status # "cancelled"
               THEN {[gen |-> sync'.gen, ref |-> sync'.ext, state |-> "needs_action"]} ELSE {})]
  /\ UNCHANGED <<enabled, proc, remote, lost>>

(* confirm_external_resolution: a person attests what is known by then.     *)
ConfirmExternal ==
  /\ app = "terminated"
  /\ \E i \in ledger.items : i.state # "resolved"
  /\ \A i \in ledger.items : i.state # "unknown"
  /\ ledger' = [items |-> {[i EXCEPT !.state = "resolved"] : i \in ledger.items}, attested |-> TRUE]
  /\ UNCHANGED <<app, iv, enabled, sync, box, proc, remote, lost>>

-----------------------------------------------------------------------------
Deliver(p) ==
  \/ \E g \in Gens : ClaimMessage(p, g)
  \/ ReturnEarly(p)
  \/ CallCreate(p) \/ CallUpdate(p) \/ CallCancel(p)
  \/ CommitCancel(p) \/ CommitEvent(p) \/ CommitError(p)
  \/ Settle(p)

Next ==
  \/ CreateInterview \/ Reschedule \/ CancelInterview \/ Progress
  \/ Withdraw \/ Configure \/ Terminate \/ ConfirmExternal
  \/ \E p \in Procs : Deliver(p) \/ Crash(p)
  \/ \E g \in Gens : ReapMessage(g)

Spec == Init /\ [][Next]_vars

-----------------------------------------------------------------------------
(* Properties.                                                              *)

(* Outside a call in progress, every event on the provider's calendar is    *)
(* the one the sync row names, or one whose making the platform was never   *)
(* told of or could not record: the generation check and the locks let no   *)
(* stale message add another.                                               *)
RemoteIsKnown ==
  Live \subseteq {sync.ext} \cup lost \cup {proc[p].gen : p \in {q \in Procs : AtStep(q, "called")}}

(* A row that says "synced" has a live event that shows the schedule in     *)
(* force, whatever was rescheduled while the provider answered.             *)
SyncedShowsCurrent ==
  sync.status = "synced" => sync.ext \in Live /\ remote[sync.ext].shows = iv.plan

(* A meeting link the candidate and the interviewers see is the user's own  *)
(* or that of the event the row names, and only an interview by video has   *)
(* one.                                                                     *)
UrlIsOfEvent == iv.url # 0 => iv.video /\ iv.url \in {sync.ext, OwnLink}

(* When a termination has nothing left to resolve and nobody attested       *)
(* anything, no event is left but those the platform never knew of.         *)
LedgerHonest ==
  app = "terminated" /\ ~ledger.attested /\ (\A i \in ledger.items : i.state = "resolved")
    => Live \subseteq lost

(* A row that says "pending" is waited for by a message of its generation,  *)
(* or that message ran out of attempts: no settled delivery leaves it so.   *)
PendingHasMessage ==
  sync.status = "pending" /\ ~Ended => box[sync.gen].st \in {"queued", "running", "failed"}

(* The row, the event and the message that joins them agree.                *)
CalendarSafety == RemoteIsKnown /\ SyncedShowsCurrent /\ UrlIsOfEvent /\ PendingHasMessage

-----------------------------------------------------------------------------
(* server/README.md:515-519: no stale event races a reschedule and creates  *)
(* a duplicate on the Feishu calendar.                                      *)
NoDuplicateEvent == Cardinality(Live) <= 1

-----------------------------------------------------------------------------
(* The inductive invariant.                                                 *)

(* The generations count the changes of the schedule, its cancellation last.*)
GenerationsCount ==
  /\ iv.status = "none" => sync.gen = 0 /\ iv.plan = 0
  /\ iv.status \in {"planned", "held", "over"} => sync.gen = iv.plan + 1
  /\ iv.status = "cancelled" => sync.gen = iv.plan + 2
  /\ sync.action = "cancel" <=> iv.status = "cancelled"

(* The row names an event there is, which only a cancellation deletes; as   *)
(* long as it is to be created, it can be no other than its generation's.   *)
RowOK ==
  /\ sync.action = "create" => sync.ext \in {0, sync.gen}
  /\ sync.action = "update" => sync.ext # 0
  /\ sync.ext # 0 => remote[sync.ext].st # "none" /\ (sync.action # "cancel" => sync.ext \in Live)
  /\ sync.gen = 0 => sync.status = "disabled"
  /\ sync.status = "synced" => sync.action # "cancel"
  /\ sync.status = "cancelled" => sync.action = "cancel" /\ sync.ext \notin Live

(* What is to come is not there yet; the event of a generation is made by   *)
(* its creation only, and shows its schedule.                               *)
EventsOK ==
  /\ \A g \in Gens : g > sync.gen => remote[g].st = "none" /\ box[g].st = "none"
  /\ \A g \in Gens : g = sync.gen /\ remote[g].st # "none" =>
       sync.action = "create" /\ remote[g] = [st |-> "live", shows |-> iv.plan]

(* A call is made with the locks, for the generation in force; what it      *)
(* answered is true; and who has returned early had nothing left to do.     *)
Answered(p) ==
  /\ proc[p].res = "ok" =>
       /\ sync.action = "create" => proc[p].gen \in Live
       /\ sync.action = "update" => remote[sync.ext].shows = iv.plan
       /\ sync.action = "cancel" => sync.ext \notin Live
  /\ proc[p].res = "error" /\ proc[p].gen \in Live => proc[p].gen \in lost \cup {sync.ext}
WorkerOK(p) ==
  /\ proc[p].pc # "idle" => proc[p].gen \in 1..sync.gen
  /\ AtStep(p, "called") => proc[p].gen = sync.gen /\ proc[p].res # "none" /\ ~Stopped /\ Answered(p)
  /\ AtStep(p, "done") /\ proc[p].gen = sync.gen /\ proc[p].res = "ok" => sync.status # "pending" \/ Ended
OneCall == \A p, q \in Procs : AtStep(p, "called") /\ AtStep(q, "called") => p = q

IInv ==
  /\ TypeOK /\ GenerationsCount /\ RowOK /\ EventsOK /\ OneCall /\ (\A p \in Procs : WorkerOK(p))
  /\ RemoteIsKnown /\ SyncedShowsCurrent /\ UrlIsOfEvent /\ PendingHasMessage /\ LedgerHonest
=============================================================================
