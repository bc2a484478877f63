----------------------------- MODULE WorkNotices -----------------------------
(***************************************************************************)
(* How members are told that work waits for them: the review task of an    *)
(* application, the Feishu cards about its stage and its interview, and    *)
(* the receipts of the workbench (server/app/recruiting/tasks.py,          *)
(* integrations/feishu/notifications.py and worker.py, notifications).     *)
(*                                                                         *)
(* A command schedules its cards in its own transaction, one message of    *)
(* the outbox for each recipient.  A worker looks at the world when it     *)
(* handles a message: in a first transaction it asks whether the card is   *)
(* still due and builds it, in a second whether the application has ended, *)
(* and only then it calls Feishu.  One application is followed, with one   *)
(* interview (Hiring has the rounds and the feedback) and the outbox as    *)
(* its messages see it: they are claimed, retried, lost and given up.      *)
(***************************************************************************)
EXTENDS Integers, FiniteSets

CONSTANTS
  Managers,   \* members who may review, decide and interview
  Recruiters, \* members who may own the application
  Lead,       \* jobs.hiring_owner_id, one of the managers
  Reader,     \* the member whose workbench and receipt are followed
  Nobody,     \* neither
  Actors,     \* who plans, cancels and terminates: Nobody of them, or some manager
  Juries,     \* what a command asks of each manager
  Places,     \* messages under way at once, a bound
  Tries,      \* outbox_events.max_attempts
  MaxMoves    \* bound on the reschedulings of the interview

ASSUME WorkAssumption ==
  /\ Lead \in Managers /\ Reader \in Managers /\ Recruiters # {}
  /\ Managers \cap Recruiters = {} /\ Nobody \notin Managers \cup Recruiters
  /\ IsFiniteSet(Managers) /\ IsFiniteSet(Places)
  /\ Actors \subseteq Managers \cup {Nobody}
  /\ Juries \subseteq [Managers -> {"out", "optional", "required"}]
  /\ Tries \in Nat \ {0} /\ MaxMoves \in Nat

VARIABLES
  application, \* applications.stage and owner_id, and whether it was terminated
  task,        \* the application's review task
  iv,          \* the interview: status, the number of its plan, the part of each manager
  on,          \* whether the Feishu configuration is enabled
  msg,         \* outbox_events of topic feishu.notification.send
  settled,     \* history: the duties announced, and those nobody is told of (Settle)
  page,        \* whether the Reader's page shows the application as it is now
  receipt,     \* whether notification_reads holds the version there is now
  mark         \* the Reader's request to mark as read, between its checks and its write

WorkVars == <<application, task, iv, on, msg, settled, page, receipt, mark>>
work == <<application, task, iv>>
reading == <<page, receipt, mark>>

WorkStages == {"new", "deferred", "review", "interview_pending", "interviewing", "decision",
               "passed", "hired", "rejected", "withdrawn"}
Planned == {"scheduled", "rescheduled", "confirmed"}
Kinds == {"review_requested", "arrangement_requested", "hiring_decision_requested", "candidate_passed",
          "candidate_rejected", "offer_accepted", "offer_declined", "interview_scheduled",
          "interview_rescheduled", "interview_cancelled", "interview_assignment_removed",
          "feedback_requested"}
(* "arrangement_requested" stands for interview_arrangement_requested and   *)
(* next_interview_requested, which are asked of the same member.            *)
OwnerKinds == {"arrangement_requested", "candidate_passed", "candidate_rejected", "offer_accepted", "offer_declined"}
StageOf == [arrangement_requested |-> "interview_pending", candidate_passed |-> "passed",
            candidate_rejected |-> "rejected", offer_accepted |-> "hired", offer_declined |-> "withdrawn"]
PlanKind == [scheduled |-> "interview_scheduled", rescheduled |-> "interview_rescheduled",
             cancelled |-> "interview_cancelled"]

NoMessage == [st |-> "free", kind |-> "review_requested", to |-> Nobody, tries |-> 0, plan |-> 0]
Message == [st : {"queued", "built", "calling"}, kind : Kinds, to : Managers \cup Recruiters,
            tries : 0..Tries, plan : 0..MaxMoves]
SentTo(card) == [st |-> "queued", kind |-> card[1], to |-> card[2], tries |-> 0, plan |-> 0]

WorkTypeOK ==
  /\ application \in [stage : WorkStages, owner : Recruiters, ended : BOOLEAN]
  /\ task \in [st : {"none", "open", "closed"}, who : Managers]
  /\ iv \in [st : Planned \cup {"none", "pending_feedback", "feedback_completed", "cancelled", "no_show"},
             plan : 0..MaxMoves, part : [Managers -> {"out", "optional", "required", "done"}]]
  /\ on \in BOOLEAN /\ msg \in [Places -> Message \cup {NoMessage}]
  /\ settled \subseteq Kinds \X (Managers \cup Recruiters)
  /\ page \in BOOLEAN /\ receipt \in BOOLEAN /\ mark \in {"none", "current", "old"}

WorkInit ==
  /\ \E o \in Recruiters : application = [stage |-> "new", owner |-> o, ended |-> FALSE]
  /\ task = [st |-> "none", who |-> Lead]
  /\ iv = [st |-> "none", plan |-> 0, part |-> [m \in Managers |-> "out"]]
  /\ on \in BOOLEAN /\ msg = [s \in Places |-> NoMessage] /\ settled = {}
  /\ page = FALSE /\ receipt = FALSE /\ mark = "none"

-----------------------------------------------------------------------------
(* What is due, and how it is announced.                                    *)

(* application_is_terminated: a withdrawn application counts too.           *)
WorkEnded == application.ended \/ application.stage = "withdrawn"
Panel == {m \in Managers : iv.part[m] # "out"}
Asked == {m \in Managers : iv.part[m] = "required"}

(* Work that waits for somebody, as get_workbench and my_tasks list it, and *)
(* the plan of an interview that is to take place.                          *)
Duties ==
  (IF application.stage = "review" /\ task.st = "open" THEN {<<"review_requested", task.who>>} ELSE {})
  \cup {<<k, application.owner>> : k \in {j \in {"arrangement_requested", "candidate_passed"} : StageOf[j] = application.stage}}
  \cup (IF application.stage = "decision" THEN {<<"hiring_decision_requested", Lead>>} ELSE {})
  \cup (IF iv.st \in {"scheduled", "rescheduled"} /\ ~WorkEnded
          THEN {<<PlanKind[iv.st], m>> : m \in Panel} ELSE {})
  \cup (IF iv.st = "pending_feedback" /\ ~WorkEnded THEN {<<"feedback_requested", m>> : m \in Asked} ELSE {})

Spare == {s \in Places : msg[s] = NoMessage}

(* schedule_feishu_notification for the given cards; nothing without an     *)
(* enabled configuration.  The excused are told in no other way: the actor  *)
(* himself, and those who get their work by a handover.                     *)
Notify(cards, excused) ==
  /\ on => Cardinality(cards) <= Cardinality(Spare)
  /\ msg' = IF ~on THEN msg
            ELSE LET at == CHOOSE f \in [cards -> Spare] : \A c, d \in cards : f[c] = f[d] => c = d
                 IN  [s \in Places |-> IF \E c \in cards : at[c] = s
                                       THEN LET c == CHOOSE x \in cards : at[x] = s
                                            IN  SentTo(c)
                                       ELSE msg[s]]
  /\ settled' = ((IF on THEN settled \ cards ELSE settled \cup cards) \cup excused) \cap Duties'
  /\ UNCHANGED on

Silently == Notify({}, {})

(* The application or its task has another version: what the Reader saw,    *)
(* and what he marked, is of an earlier one (workbench_notification_version).*)
Touched ==
  /\ page' = FALSE /\ receipt' = FALSE
  /\ mark' = IF mark = "none" THEN mark ELSE "old"

-----------------------------------------------------------------------------
(* The review task.                                                         *)

(* ensure_review_task; no command comes here with a task that is open.      *)
NewTask(m) == task' = [st |-> "open", who |-> m] /\ Notify({<<"review_requested", m>>}, {})

(* route_llm_screening_terminal: review, or the deferred pool.              *)
Route ==
  /\ application.stage = "new"
  /\ \/ application' = [application EXCEPT !.stage = "review"] /\ UNCHANGED iv /\ NewTask(Lead)
     \/ application' = [application EXCEPT !.stage = "deferred"] /\ UNCHANGED <<iv, task>> /\ Silently
  /\ Touched

(* refer_deferred_membership_to_review.                                     *)
Refer(m) ==
  /\ application.stage = "deferred" /\ application' = [application EXCEPT !.stage = "review"]
  /\ UNCHANGED iv /\ NewTask(m) /\ Touched

(* apply_bulk_action: no task is made, and none is closed.  An advance is   *)
(* undone only if the last move was that advance, hence without a task.     *)
Bulk ==
  /\ \/ application.stage = "new" /\ application' = [application EXCEPT !.stage = "review"]
     \/ application.stage = "review" /\ task.st = "none" /\ application' = [application EXCEPT !.stage = "new"]
     \/ application.stage \notin {"hired", "rejected", "withdrawn"} /\ application' = [application EXCEPT !.stage = "rejected"]
  /\ UNCHANGED <<task, iv>> /\ Silently /\ Touched

(* Mutant: the member who loses the task is told.                           *)
ReassignTellsOld(m) ==
  /\ task.st = "open" /\ m # task.who /\ task' = [task EXCEPT !.who = m]
  /\ UNCHANGED <<application, iv>> /\ Notify({<<"review_requested", task.who>>}, {})
  /\ UNCHANGED reading

(* reassign_review_task, of an open task whatever became of the application.*)
(* The version that receipts compare does not name the assignee.            *)
Reassign(m) ==
  /\ task.st = "open" /\ m # task.who /\ task' = [task EXCEPT !.who = m]
  /\ UNCHANGED <<application, iv>> /\ Notify({<<"review_requested", m>>}, {})
  /\ UNCHANGED reading

(* apply_handover gives the tasks and the applications of a member who      *)
(* leaves to another, and tells nobody.                                     *)
HandTask(m) ==
  /\ task.st = "open" /\ m # task.who /\ task' = [task EXCEPT !.who = m]
  /\ UNCHANGED <<application, iv>> /\ Notify({}, {<<"review_requested", m>>})
  /\ UNCHANGED reading

HandApplication(o) ==
  /\ o # application.owner /\ application.stage \notin {"rejected", "withdrawn"} /\ application' = [application EXCEPT !.owner = o]
  /\ UNCHANGED <<task, iv>> /\ Notify({}, OwnerKinds \X {o})
  /\ Touched

(* close_review_task.                                                       *)
CloseTask == task' = [task EXCEPT !.st = IF @ = "open" THEN "closed" ELSE @]

-----------------------------------------------------------------------------
(* The stage.                                                               *)

ToldActions ==
  [review_approved |-> <<"review", "arrangement_requested">>, review_rejected |-> <<"review", "candidate_rejected">>,
   hiring_approved |-> <<"decision", "candidate_passed">>, hiring_rejected |-> <<"decision", "candidate_rejected">>,
   offer_accepted |-> <<"passed", "offer_accepted">>, offer_declined |-> <<"passed", "offer_declined">>]

(* apply_application_workflow_action_record: the owner is told, but not of  *)
(* an answer that he recorded himself.                                      *)
DecideAndTell(action) ==
  LET kind == ToldActions[action][2]
      told == {{<<kind, application.owner>>}} \cup (IF action \in {"offer_accepted", "offer_declined"} THEN {{}} ELSE {})
  IN
  /\ application.stage = ToldActions[action][1] /\ application' = [application EXCEPT !.stage = StageOf[kind]]
  /\ IF action \in {"review_approved", "review_rejected"} THEN CloseTask ELSE UNCHANGED task
  /\ UNCHANGED iv /\ (\E cards \in told : Notify(cards, {})) /\ Touched

(* withdraw_candidate_applications_for_deletion: the interview stays.       *)
WithdrawWork ==
  /\ application.stage \notin {"hired", "rejected", "withdrawn"} /\ application' = [application EXCEPT !.stage = "withdrawn"]
  /\ CloseTask /\ UNCHANGED iv /\ Silently /\ Touched

ToPanel(kind, people) == {<<kind, m>> : m \in people}

(* terminate_application; of its interview as cancel_interview_record says. *)
TerminateAndTell ==
  /\ application.stage \notin {"rejected", "withdrawn"}
  /\ application' = [application EXCEPT !.stage = "withdrawn", !.ended = TRUE] /\ CloseTask
  /\ IF iv.st \in Planned \cup {"pending_feedback"}
       THEN /\ iv' = [iv EXCEPT !.st = "cancelled"]
            /\ \E actor \in Actors : Notify(ToPanel("interview_cancelled", Panel \ {actor}), {})
       ELSE UNCHANGED iv /\ Silently
  /\ Touched

-----------------------------------------------------------------------------
(* The interview.                                                           *)

(* create_interview: the members of the panel but the one who plans it.     *)
Book(part) ==
  /\ application.stage = "interview_pending" /\ iv.st = "none"
  /\ application' = [application EXCEPT !.stage = "interviewing"]
  /\ iv' = [st |-> "scheduled", plan |-> 0, part |-> part] /\ UNCHANGED task
  /\ \E actor \in Actors :
       Notify(ToPanel("interview_scheduled", Panel' \ {actor}), {<<"interview_scheduled", actor>>})
  /\ Touched

(* patch_interview; the panel stays once somebody has handed in feedback.   *)
Reschedule(part) ==
  /\ iv.st \in Planned /\ ~WorkEnded /\ iv.plan < MaxMoves
  /\ part # iv.part => \A m \in Managers : iv.part[m] # "done"
  /\ iv' = [st |-> "rescheduled", plan |-> iv.plan + 1, part |-> part] /\ UNCHANGED <<application, task>>
  /\ \E actor \in Actors :
       Notify(ToPanel("interview_rescheduled", Panel' \ {actor})
                \cup ToPanel("interview_assignment_removed", Panel \ Panel'),
              {<<"interview_rescheduled", actor>>})
  /\ UNCHANGED reading

ConfirmPlan ==
  /\ iv.st \in {"scheduled", "rescheduled"} /\ ~WorkEnded /\ iv' = [iv EXCEPT !.st = "confirmed"]
  /\ UNCHANGED <<application, task, reading>> /\ Silently

CancelInterview ==
  /\ iv.st \in Planned \cup {"pending_feedback"} /\ iv' = [iv EXCEPT !.st = "cancelled"]
  /\ UNCHANGED <<application, task, reading>>
  /\ \E actor \in Actors : Notify(ToPanel("interview_cancelled", Panel \ {actor}), {})

(* transition_interview to no_show: nothing stands, and nothing advances.   *)
MissPlan ==
  /\ iv.st \in Planned /\ ~WorkEnded /\ iv' = [iv EXCEPT !.st = "no_show"]
  /\ UNCHANGED <<application, task, reading>> /\ Silently

(* _advance_application_if_interviews_complete, after a round that another  *)
(* follows or none does.                                                    *)
AdvanceAndTell ==
  /\ application.stage = "interviewing" /\ UNCHANGED task /\ Touched
  /\ \/ application' = [application EXCEPT !.stage = "interview_pending"] /\ Notify({<<"arrangement_requested", application.owner>>}, {})
     \/ application' = [application EXCEPT !.stage = "decision"] /\ Notify({<<"hiring_decision_requested", Lead>>}, {})

(* transition_interview to completed: everybody whose feedback is required  *)
(* is asked, the actor too.                                                 *)
CompleteAndAsk ==
  /\ iv.st = "confirmed" /\ ~WorkEnded
  /\ IF \E m \in Managers : iv.part[m] \in {"required", "done"}
       THEN /\ iv' = [iv EXCEPT !.st = "pending_feedback"] /\ UNCHANGED <<application, task, reading>>
            /\ Notify(ToPanel("feedback_requested", {m \in Managers : iv.part[m] \in {"required", "done"}}), {})
       ELSE iv' = [iv EXCEPT !.st = "feedback_completed"] /\ AdvanceAndTell

(* submit_my_feedback of somebody required; the last one ends the interview.*)
SubmitAsked(m) ==
  /\ iv.st \in Planned \cup {"pending_feedback"} /\ m \in Asked /\ ~WorkEnded
  /\ IF Asked = {m}
            THEN iv' = [iv EXCEPT !.st = "feedback_completed", !.part[m] = "done"] /\ AdvanceAndTell
            ELSE iv' = [iv EXCEPT !.part[m] = "done"] /\ UNCHANGED <<application, task, reading>> /\ Silently

-----------------------------------------------------------------------------
(* The worker (FeishuNotificationOutboxHandler).                            *)

(* _notification_recipient_is_current.                                      *)
Current(kind, to) ==
  CASE kind = "review_requested" -> application.stage = "review" /\ task = [st |-> "open", who |-> to]
    [] kind \in OwnerKinds -> application.stage = StageOf[kind] /\ application.owner = to
    [] kind = "hiring_decision_requested" -> application.stage = "decision" /\ to = Lead
    [] kind = "interview_assignment_removed" -> to \notin Panel
    [] kind = "feedback_requested" -> iv.st = "pending_feedback" /\ to \in Asked
    [] OTHER -> to \in Panel /\ iv.st \in DOMAIN PlanKind /\ kind = PlanKind[iv.st]

(* The cards that say that something goes on.                               *)
Forward == Kinds \ {"interview_cancelled", "interview_assignment_removed", "candidate_rejected", "offer_declined"}

(* _notification_card: of what can change, a card shows the interview's plan.*)
Shown(kind) == IF kind \in {"interview_scheduled", "interview_rescheduled"} THEN iv.plan ELSE 0

Put(s, m) == msg' = [msg EXCEPT ![s] = m] /\ UNCHANGED <<work, on, reading>>
Requeued(s) == [msg[s] EXCEPT !.st = "queued", !.plan = 0]

(* The message ends, and with it the attempt to announce the duty.          *)
Settle(s) == Put(s, NoMessage) /\ settled' = (settled \cup {<<msg[s].kind, msg[s].to>>}) \cap Duties
Drop(s) == Put(s, NoMessage) /\ UNCHANGED settled

(* The first transaction: nothing without a configuration; a failure for    *)
(* good when the member is inactive or not bound; nothing when the card is  *)
(* not due any more; otherwise the card.                                    *)
Handle(s) ==
  /\ msg[s].st = "queued" /\ msg[s].tries < Tries
  /\ \/ Settle(s)
     \/ on /\ ~Current(msg[s].kind, msg[s].to) /\ Drop(s)
     \/ /\ on /\ Current(msg[s].kind, msg[s].to)
        /\ Put(s, [msg[s] EXCEPT !.st = "built", !.tries = @ + 1, !.plan = Shown(msg[s].kind)])
        /\ UNCHANGED settled

(* Mutant: the card goes out as it was built.                               *)
GateOpen(s) ==
  /\ msg[s].st = "built" /\ Put(s, [msg[s] EXCEPT !.st = "calling"]) /\ UNCHANGED settled

(* The second transaction.                                                  *)
Gate(s) ==
  /\ msg[s].st = "built"
  /\ IF msg[s].kind \in Forward /\ WorkEnded THEN Drop(s)
     ELSE Put(s, [msg[s] EXCEPT !.st = "calling"]) /\ UNCHANGED settled

(* send_card outside of a transaction, and the end of the message: a card   *)
(* that shows an earlier plan announces nothing.                            *)
Send(s) ==
  /\ msg[s].st = "calling"
  /\ \/ IF msg[s].plan = Shown(msg[s].kind) THEN Settle(s) ELSE Drop(s)
     \/ Settle(s)
     \/ msg[s].tries < Tries /\ Put(s, Requeued(s)) /\ UNCHANGED settled

(* The worker dies, the lease lapses: claim_outbox hands the message out    *)
(* again, or _reap_expired_outbox gives it up.                              *)
Lose(s) ==
  /\ msg[s].st \in {"built", "calling"}
  /\ IF msg[s].tries < Tries THEN Put(s, Requeued(s)) /\ UNCHANGED settled ELSE Settle(s)

(* Somebody enables or disables the configuration.                          *)
Configure == on' = ~on /\ UNCHANGED <<work, msg, settled, reading>>

-----------------------------------------------------------------------------
(* The workbench of the Reader.                                             *)

(* _current_notification: his review task, or a stage that members act on.  *)
Listed ==
  \/ task = [st |-> "open", who |-> Reader]
  \/ application.stage \in {"interview_pending", "decision", "passed"}

(* What get_workbench counts: what is listed without a receipt of its       *)
(* present version.                                                         *)
Unread == Listed /\ ~receipt

(* get_workbench, read or unread.                                           *)
Look == Listed /\ page' = TRUE /\ UNCHANGED <<work, on, msg, settled, receipt, mark>>

(* Mutant: whatever version the request names, the present one is marked.   *)
BeginMarkAny == Unread /\ mark = "none" /\ mark' = "current" /\ UNCHANGED <<work, on, msg, settled, page, receipt>>

(* mark_workbench_notification_read up to its write: the request names the  *)
(* version it was shown, which must be the one there is, and has no receipt.*)
BeginMark ==
  /\ Unread /\ page /\ mark = "none" /\ mark' = "current"
  /\ UNCHANGED <<work, on, msg, settled, page, receipt>>

(* The receipt is inserted or written over.                                 *)
EndMark ==
  /\ mark # "none" /\ receipt' = (mark = "current") /\ mark' = "none"
  /\ UNCHANGED <<work, on, msg, settled, page>>

-----------------------------------------------------------------------------
Reviewing ==
  \/ Route \/ Bulk
  \/ \E m \in Managers : Refer(m) \/ Reassign(m) \/ HandTask(m)
  \/ \E o \in Recruiters : HandApplication(o)
WorkDecisions == (\E action \in DOMAIN ToldActions : DecideAndTell(action)) \/ WithdrawWork \/ TerminateAndTell
InterviewWork ==
  \/ ConfirmPlan \/ CancelInterview \/ MissPlan \/ CompleteAndAsk
  \/ \E part \in Juries : Book(part) \/ Reschedule(part)
  \/ \E m \in Managers : SubmitAsked(m)
Attempt(s) == Handle(s) \/ Gate(s) \/ Send(s) \/ Lose(s)

WorkNext ==
  \/ Reviewing \/ WorkDecisions \/ InterviewWork \/ Configure
  \/ Look \/ BeginMark \/ EndMark
  \/ \E s \in Places : Attempt(s)

WorkSpec == WorkInit /\ [][WorkNext]_WorkVars

-----------------------------------------------------------------------------
(* A worker has the message, or can still take it.                          *)
UnderWay(s) == msg[s].st \in {"built", "calling"} \/ (msg[s].st = "queued" /\ msg[s].tries < Tries)

(* Nobody waits for work he was never told of.  Whoever an open review, an  *)
(* arrangement, a decision, a plan or a feedback waits for was sent the     *)
(* card that says so, with the plan in force; or its message is under way;  *)
(* or it failed on record, or went nowhere since Feishu is off.  However    *)
(* the work changes hands while earlier messages, dropped as outdated or    *)
(* sent late, are still on their way.                                       *)
DutyIsAnnounced ==
  \A d \in Duties \ settled : \E s \in Places : UnderWay(s) /\ <<msg[s].kind, msg[s].to>> = d

(* Once an application has ended no card that says it goes on starts on its *)
(* way, whatever a worker had built before.                                 *)
NoForwardAfterEnd ==
  [][WorkEnded => \A s \in Places : msg'[s].st = "calling" /\ msg'[s].kind \in Forward => msg[s].st = "calling"]_WorkVars

(* What counts as read was on the Reader's page as it is now: a change      *)
(* between his look, the check and the write makes it unread.               *)
ReadMeansSeen == receipt => page

-----------------------------------------------------------------------------
(* The inductive invariant.  A message announces a duty as long as nothing  *)
(* it shows is outdated; then an ended application waits for nobody, and    *)
(* one that has not come to its review yet has no task.                     *)
Announces(s, d) ==
  UnderWay(s) /\ <<msg[s].kind, msg[s].to>> = d /\ (msg[s].st = "queued" \/ msg[s].plan = Shown(d[1]))

WorkInv ==
  /\ WorkTypeOK /\ settled \subseteq Duties
  /\ application.ended => application.stage = "withdrawn"
  /\ application.stage \in {"new", "deferred"} => task.st = "none"
  /\ \A d \in Duties \ settled : \E s \in Places : Announces(s, d)
  /\ ReadMeansSeen /\ (mark = "current" => page)

-----------------------------------------------------------------------------
(* What the code does not do.  A confirmation that overtakes the card of a  *)
(* plan silences it: the worker asks for "scheduled" or "rescheduled".      *)
ConfirmingKeepsNotice ==
  [][iv.st \in {"scheduled", "rescheduled"} /\ iv'.st = "confirmed"
       => \A m \in Panel : <<PlanKind[iv.st], m>> \in settled]_WorkVars

(* A bulk rejection leaves the review task open, and get_workbench lists it;*)
(* a bulk advance brings an application to its review that no task lists.   *)
TaskOfReview == task.st = "open" <=> application.stage = "review"
=============================================================================
