-------------------------- MODULE InterviewNotices --------------------------
(***************************************************************************)
(* The mails that tell a candidate of an interview: invitation, change and *)
(* cancellation (interviews/api.py, communications/interview_messages.py,  *)
(* communications/worker.py).  A notice carries the calendar_sequence the  *)
(* interview had when it was queued.  A worker sends it in three           *)
(* transactions with the SMTP call after the second, and waits a few       *)
(* attempts for the meeting link that the calendar sync of                 *)
(* InterviewCalendar is to bring; of that sync only the answers are kept,  *)
(* each one step, since it holds the application's lock from its call to   *)
(* its commit.  Of the job queue (JobQueue) only the promise is kept: at   *)
(* most MailTries attempts, any of which may be lost with its worker.      *)
(***************************************************************************)
EXTENDS Integers

CONSTANTS
  MaxSeq,     \* bound on calendar_sequence
  MaxMails,   \* bound on the deliveries
  MailTries,  \* max_attempts of a notice's job (INTERVIEW_EMAIL_JOB_MAX_ATTEMPTS)
  SendTries,  \* sends of one delivery before it fails
  WaitTries   \* attempts that wait for a link (INTERVIEW_FEISHU_WAIT_ATTEMPTS)

ASSUME NoticesAssumption ==
  /\ MaxSeq \in Nat /\ MaxMails \in Nat
  /\ MailTries \in Nat \ {0} /\ SendTries \in 1..MailTries /\ WaitTries \in 0..MailTries - 1

VARIABLES
  application, \* "open", "hired", "rejected" or "ended" (terminated, or withdrawn)
  interview,   \* the interview: status, calendar_sequence, by video, meeting_url known
  answer,      \* the sync row: no sync wanted, an answer pending, or answered
  mail         \* the deliveries

NoticesVars == <<application, interview, answer, mail>>

Mails == 1..MaxMails
Kinds == {"invite", "cancel"}
(* "planned" stands for draft, scheduled, rescheduled and confirmed.         *)
OpenStatuses == {"planned", "pending_feedback"}
MeetingStatuses == OpenStatuses \cup {"none", "feedback_completed", "cancelled", "no_show"}
Final == {"sent", "failed", "cancelled"}

NoMail == [st |-> "none", kind |-> "invite", seq |-> 0, tries |-> 0, sends |-> 0, mark |-> FALSE, note |-> "none"]

NoticesTypeOK ==
  /\ application \in {"open", "hired", "rejected", "ended"}
  /\ interview \in [status : MeetingStatuses, seq : 0..MaxSeq, video : BOOLEAN, link : BOOLEAN]
  /\ answer \in {"off", "pending", "answered"}
  /\ mail \in [Mails -> [st : Final \cup {"none", "queued", "prepared", "smtp"}, kind : Kinds,
                         seq : 0..MaxSeq, tries : 0..MailTries, sends : 0..MailTries,
                         mark : BOOLEAN, note : {"none", "member", "nobody"}]]

NoticesInit ==
  /\ application = "open" /\ answer = "off"
  /\ interview = [status |-> "none", seq |-> 0, video |-> FALSE, link |-> FALSE]
  /\ mail = [d \in Mails |-> NoMail]

-----------------------------------------------------------------------------
NewMail == {d \in Mails : mail[d].st = "none" /\ \A e \in 1..d - 1 : mail[e].st # "none"}

(* Nothing reads the attempts of a settled delivery: they are kept as 0.    *)
Settled(d, st) == [mail[d] EXCEPT !.st = st, !.tries = 0, !.sends = 0, !.mark = FALSE]

Queued(d, kind, seq) ==
  mail' = [mail EXCEPT ![d] = [NoMail EXCEPT !.st = "queued", !.kind = kind, !.seq = seq]]

(* _enqueue_candidate_interview_email: nothing without a mail configuration.*)
Notify(kind, seq) == UNCHANGED mail \/ \E d \in NewMail : Queued(d, kind, seq)

(* schedule_interview_sync, with or without an enabled configuration.       *)
AwaitSync == answer' \in {"off", "pending"}

(* create_interview; a user may enter a link for an interview by video.     *)
CreateAndInvite ==
  /\ application = "open" /\ interview.status = "none"
  /\ \E video \in BOOLEAN : \E link \in {FALSE, video} :
       interview' = [status |-> "planned", seq |-> 0, video |-> video, link |-> link]
  /\ Notify("invite", 0) /\ AwaitSync
  /\ UNCHANGED application

(* patch_interview: the link is kept, entered or removed; an onsite or      *)
(* telephone interview has none.                                            *)
RescheduleAndInvite ==
  /\ application # "ended" /\ interview.status = "planned" /\ interview.seq < MaxSeq
  /\ \E video \in BOOLEAN : \E link \in {FALSE, video} :
       interview' = [status |-> "planned", seq |-> interview.seq + 1, video |-> video, link |-> link]
  /\ Notify("invite", interview.seq + 1) /\ AwaitSync
  /\ UNCHANGED application

Cancelled == [interview EXCEPT !.status = "cancelled", !.seq = @ + 1]

(* transition_interview to "cancelled", cancel_interview_record.            *)
CancelAndNotify ==
  /\ interview.status \in OpenStatuses /\ interview.seq < MaxSeq
  /\ interview' = Cancelled /\ Notify("cancel", interview.seq + 1) /\ AwaitSync
  /\ UNCHANGED application

(* transition_interview otherwise, and the last feedback.                   *)
MeetingProgress ==
  /\ application # "ended"
  /\ \/ interview.status = "planned" /\ interview' = [interview EXCEPT !.status = "pending_feedback"]
     \/ interview.status \in OpenStatuses
        /\ interview' = [interview EXCEPT !.status = "feedback_completed"]
     \/ interview.status = "planned" /\ interview.seq < MaxSeq
        /\ interview' = [interview EXCEPT !.status = "no_show", !.seq = @ + 1]
  /\ UNCHANGED <<application, answer, mail>>

(* Another command gives the application a final stage; its interview stays.*)
CloseApplication ==
  /\ application = "open" /\ application' \in {"hired", "rejected", "ended"} /\ UNCHANGED <<interview, answer, mail>>

(* terminate_application: no notice, and those not in flight are cancelled. *)
TerminateNotices ==
  /\ application \in {"open", "hired"} /\ application' = "ended"
  /\ \/ interview.status \in OpenStatuses /\ interview.seq < MaxSeq
        /\ interview' = Cancelled /\ AwaitSync
     \/ interview.status \notin OpenStatuses /\ UNCHANGED <<interview, answer>>
  /\ mail' = [d \in Mails |-> IF mail[d].st \in {"queued", "prepared"} /\ ~mail[d].mark
                               THEN Settled(d, "cancelled") ELSE mail[d]]

(* The calendar sync answers: with the link, without one, or with an error. *)
CalendarAnswers ==
  /\ answer = "pending" /\ answer' = "answered"
  /\ \E link \in IF interview.video THEN {TRUE, interview.link} ELSE {FALSE} :
       interview' = [interview EXCEPT !.link = link]
  /\ UNCHANGED <<application, mail>>

(* resend_delivery: another delivery of the same message, whatever became   *)
(* of the first.                                                            *)
Resend(d) ==
  /\ mail[d].st # "none"
  /\ \E e \in NewMail : Queued(e, mail[d].kind, mail[d].seq)
  /\ UNCHANGED <<application, interview, answer>>

-----------------------------------------------------------------------------
(* The worker (EmailDeliveryJobHandler).                                    *)

(* _delivery_obsolete.                                                      *)
Obsolete(d) ==
  \/ application = "ended"
  \/ /\ mail[d].kind = "invite"
     /\ application \in {"hired", "rejected"} \/ interview.status \in {"cancelled", "no_show", "feedback_completed"}

(* Deviation: a notice is superseded by its own sequence too.               *)
SupersededToo(d) == mail[d].kind = "invite" /\ mail[d].seq <= interview.seq

(* _prepare_interview_delivery: the ICS has another sequence by now.        *)
Superseded(d) == mail[d].kind = "invite" /\ mail[d].seq # interview.seq

Bare(d) == mail[d].kind = "invite" /\ interview.video /\ ~interview.link

(* The attempt that is being made is the tries + 1st.                       *)
AwaitsLink(d) == Bare(d) /\ answer = "pending" /\ mail[d].tries + 1 <= WaitTries

SettleMail(d, st) == mail' = [mail EXCEPT ![d] = Settled(d, st)]

(* _responsible_notification_user_id: whoever queued the mail or an         *)
(* administrator, and nobody if all of them have left.                      *)
Responsible == {"member", "nobody"}

(* mark_delivery_failed, with create_user_notification.                     *)
Fail(d) ==
  \E who \in Responsible : mail' = [mail EXCEPT ![d] = [Settled(d, "failed") EXCEPT !.note = who]]

(* The queue's attempts < max_attempts.                                     *)
AttemptsLeft(d) == mail[d].tries < MailTries

(* The first transaction: cancel, fail without a configuration or a secret, *)
(* wait for the link, or render the message.                                *)
Prepare(d) ==
  /\ mail[d].st = "queued" /\ AttemptsLeft(d)
  /\ \/ (Obsolete(d) \/ Superseded(d)) /\ SettleMail(d, "cancelled")
     \/ ~Obsolete(d) /\ Fail(d)
     \/ /\ ~Obsolete(d) /\ ~Superseded(d) /\ AwaitsLink(d)
        /\ mail' = [mail EXCEPT ![d].tries = @ + 1]
     \/ /\ ~Obsolete(d) /\ ~Superseded(d) /\ ~AwaitsLink(d)
        /\ mail' = [mail EXCEPT ![d].st = "prepared", ![d].tries = @ + 1, ![d].sends = @ + 1]
  /\ UNCHANGED <<application, interview, answer>>

(* The second transaction looks again, and marks the message in flight.     *)
Recheck(d) ==
  /\ mail[d].st = "prepared"
  /\ \/ Obsolete(d) /\ SettleMail(d, "cancelled")
     \/ ~Obsolete(d) /\ mail' = [mail EXCEPT ![d].st = "smtp", ![d].mark = TRUE]
  /\ UNCHANGED <<application, interview, answer>>

(* SMTP, and the third transaction, which records its outcome.              *)
Record(d) ==
  /\ mail[d].st = "smtp"
  /\ \/ SettleMail(d, "sent")
     \/ Obsolete(d) /\ SettleMail(d, "cancelled")
     \/ ~Obsolete(d) /\ Fail(d)
     \/ /\ ~Obsolete(d) /\ mail[d].sends < SendTries /\ AttemptsLeft(d)
        /\ mail' = [mail EXCEPT ![d].st = "queued", ![d].mark = FALSE]
  /\ UNCHANGED <<application, interview, answer>>

(* Deviation: the job of a lost last attempt is buried, its delivery stays. *)
LoseSilently(d) ==
  /\ mail[d].st \in {"prepared", "smtp"}
  /\ mail' = [mail EXCEPT ![d].st = "queued"]
  /\ UNCHANGED <<application, interview, answer>>

(* Deviation: only the status of a delivery whose last attempt is lost.     *)
LoseUntold(d) ==
  /\ mail[d].st \in {"prepared", "smtp"}
  /\ IF AttemptsLeft(d) THEN mail' = [mail EXCEPT ![d].st = "queued"]
     ELSE SettleMail(d, "failed")
  /\ UNCHANGED <<application, interview, answer>>

(* The worker dies.  The job is retried, or its last attempt is lost and    *)
(* email_delivery_terminal_callback fails the delivery.                     *)
Lose(d) ==
  /\ mail[d].st \in {"prepared", "smtp"}
  /\ IF AttemptsLeft(d) THEN mail' = [mail EXCEPT ![d].st = "queued"]
     ELSE Fail(d)
  /\ UNCHANGED <<application, interview, answer>>

-----------------------------------------------------------------------------
Attempt(d) == Prepare(d) \/ Recheck(d) \/ Record(d) \/ Lose(d)

NoticesNext ==
  \/ CreateAndInvite \/ RescheduleAndInvite \/ CancelAndNotify \/ MeetingProgress
  \/ CloseApplication \/ TerminateNotices \/ CalendarAnswers
  \/ \E d \in Mails : Resend(d) \/ Attempt(d)

NoticesSpec == NoticesInit /\ [][NoticesNext]_NoticesVars

(* Workers poll for ever (Worker.run), and a job whose lease lapsed is      *)
(* claimed again or buried: a notice that is not settled is worked on.      *)
FairNotices == NoticesSpec /\ \A d \in Mails : WF_NoticesVars(Attempt(d))

-----------------------------------------------------------------------------
(* Properties.                                                              *)

(* A calendar takes the notice with the highest sequence for the valid one: *)
(* a cancellation outranks every invitation ever queued.                    *)
CancelOutranks ==
  \A d, e \in Mails :
    mail[d].st # "none" /\ mail[d].kind = "cancel" /\ mail[e].st # "none" /\ mail[e].kind = "invite"
      => mail[d].seq > mail[e].seq

(* The invitation to the schedule in force is not dropped in silence: as    *)
(* long as the interview is to take place it is sent, or fails and says so. *)
CurrentInviteNotDropped ==
  application = "open" /\ interview.status = "planned" =>
    \A d \in Mails : mail[d].kind = "invite" /\ mail[d].seq = interview.seq => mail[d].st # "cancelled"

(* A mail that failed, on whatever path, is reported in the same step: a    *)
(* member who can act on it finds a notification, unless none is left.      *)
FailureIsReported == \A d \in Mails : mail[d].st = "failed" => mail[d].note # "none"

(* What the candidate's calendar ends up with is the last word, or somebody *)
(* knows that it is not.                                                    *)
NoticeSafety == CancelOutranks /\ CurrentInviteNotDropped /\ FailureIsReported

(* Every notice is sent, cancelled or failed in the end.                    *)
NoticeEnds == \A d \in Mails : mail[d].st = "queued" ~> mail[d].st \in Final

-----------------------------------------------------------------------------
(* server/README.md:533: "Compare the delivery ICS sequence with the        *)
(* current interview sequence and mark superseded deliveries cancelled      *)
(* before any provider call".                                               *)
OldInviteNeverLeaves ==
  [][\A d \in Mails : mail[d].st # "smtp" /\ mail'[d].st = "smtp" => ~Superseded(d)]_NoticesVars

-----------------------------------------------------------------------------
(* The inductive invariant: the notices of an interview have the sequences  *)
(* it had, and only the last is its cancellation's.                         *)
NoticeOK(d) ==
  /\ mail[d].sends <= mail[d].tries
  /\ mail[d].st # "none" =>
       /\ interview.status # "none" /\ mail[d].seq <= interview.seq
       /\ mail[d].kind = "cancel" => interview.status = "cancelled" /\ mail[d].seq = interview.seq
       /\ mail[d].kind = "invite" /\ interview.status = "cancelled" => mail[d].seq < interview.seq

NoticesInv == NoticesTypeOK /\ (\A d \in Mails : NoticeOK(d)) /\ CurrentInviteNotDropped /\ FailureIsReported
=============================================================================
