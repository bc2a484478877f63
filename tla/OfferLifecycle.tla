--------------------------- MODULE OfferLifecycle ---------------------------
(***************************************************************************)
(* The Offer of one job application: its versions and approvals, the link  *)
(* that is mailed to the candidate, the candidate's or HR's answer, and    *)
(* the termination of the application with its ledger of e-mails whose     *)
(* fate is open (server/app/offers, communications/worker.py,              *)
(* recruiting/termination.py).                                             *)
(*                                                                         *)
(* Every command is one transaction under the candidate's and the          *)
(* application's row locks (_lock_application, lock_application,           *)
(* _lock_delivery) and checks the version its caller saw, so a command is  *)
(* one step.  Sending a mail is three transactions with the SMTP call in   *)
(* between.  Of the job queue only JobContract's promise is kept: a job is *)
(* handed out at most MailAttempts times, may lose its lease, and its      *)
(* death runs the e-mail's terminal callback.                              *)
(***************************************************************************)
EXTENDS Integers, Sequences, FiniteSets

CONSTANTS
  Workers,        \* worker processes that send mail
  MaxVersion,     \* bound on the versions of the Offer
  MaxTokens,      \* bound on the links issued
  MaxMails,       \* bound on the e-mail deliveries
  MailAttempts,   \* max_attempts of a mail job, and of EmailDelivery.attempts
  Chains,         \* lengths of an approval chain: 1, or more for a special Offer
  StaleHandlers,  \* TRUE: a handler may outlive its lease
  NoWorkItem

ASSUME ConstantsAssumption ==
  /\ MaxVersion \in Nat \ {0} /\ MaxTokens \in Nat /\ MaxMails \in Nat
  /\ MailAttempts \in Nat \ {0} /\ Chains \subseteq Nat \ {0} /\ IsFiniteSet(Chains)
  /\ StaleHandlers \in BOOLEAN

VARIABLES
  app,     \* stage of the application; an ApplicationTermination exists
  offer,   \* status of the Offer in force and its current version; versions are
           \* counted over all Offers of the application
  appr,    \* the approvals of each version, in order
  late,    \* versions whose candidate_response_deadline has passed
  token,   \* offer_access_tokens: the version a link is for, revoked, delivered
  mail,    \* email_deliveries
  job,     \* the job of each delivery
  worker,  \* what each worker is doing
  inbox,   \* deliveries that a mail server has accepted at least once
  resp,    \* the answer: offer_responses
  facts    \* external_items and resolution_history of the termination

vars == <<app, offer, appr, late, token, mail, job, worker, inbox, resp, facts>>

Versions == 1..MaxVersion
Tokens   == 1..MaxTokens
Mails    == 1..MaxMails

Preparing == {"draft", "pending_approval", "changes_requested", "ready_to_send"}
Effective == Preparing \cup {"sent", "accepted"}
MailEnds  == {"sent", "failed", "cancelled"}
Open      == {"in_flight", "unknown"}

NoToken == [v |-> 0, revoked |-> FALSE, delivered |-> FALSE]
NoMail  == [st |-> "none", about |-> 0, tries |-> 0, flight |-> FALSE]
NoJob   == [st |-> "none", n |-> 0]
Idle    == [pc |-> "idle", d |-> NoWorkItem, n |-> 0, res |-> "none"]
Item    == [d : Mails, gen : 0..MailAttempts, ref : 0..MailAttempts,
            st : Open \cup {"needs_action", "resolved"}]

TypeOK ==
  /\ app \in [stage : {"passed", "hired", "rejected", "withdrawn"}, stopped : BOOLEAN]
  /\ offer \in [st : Effective \cup {"none", "declined", "withdrawn"}, cur : 0..MaxVersion]
  /\ appr \in [Versions -> Seq({"waiting", "pending", "approved", "rejected", "cancelled"})]
  /\ late \subseteq Versions
  /\ token \in [Tokens -> [v : 0..MaxVersion, revoked : BOOLEAN, delivered : BOOLEAN]]
  /\ mail \in [Mails -> [st : MailEnds \cup {"none", "queued"}, about : 0..MaxTokens,
                         tries : 0..MailAttempts, flight : BOOLEAN]]
  /\ job \in [Mails -> [st : {"none", "queued", "running", "done", "dead"}, n : 0..MailAttempts]]
  /\ worker \in [Workers -> [pc : {"idle", "prepare", "recheck", "smtp", "record", "settle"},
                             d : Mails \cup {NoWorkItem}, n : 0..MailAttempts,
                             res : {"none", "accepted", "temporary", "permanent",
                                    "done", "retry", "dead"}]]
  /\ inbox \subseteq Mails
  /\ resp \in [st : {"none", "accepted", "declined"}, v : 0..MaxVersion, by : {"none", "candidate", "proxy"}]
  /\ facts \in [items : SUBSET Item, history : SUBSET Item]

Init ==
  /\ app = [stage |-> "passed", stopped |-> FALSE]
  /\ offer = [st |-> "none", cur |-> 0]
  /\ appr = [v \in Versions |-> <<>>]
  /\ late = {}
  /\ token = [t \in Tokens |-> NoToken]
  /\ mail = [d \in Mails |-> NoMail]
  /\ job = [d \in Mails |-> NoJob]
  /\ worker = [w \in Workers |-> Idle]
  /\ inbox = {}
  /\ resp = [st |-> "none", v |-> 0, by |-> "none"]
  /\ facts = [items |-> {}, history |-> {}]

-----------------------------------------------------------------------------
(* Helpers.                                                                 *)

(* application_is_terminated.                                               *)
Terminated == app.stopped \/ app.stage = "withdrawn"

(* revoke_offer_access_tokens.                                              *)
AllRevoked == [t \in Tokens |-> IF token[t].v # 0 THEN [token[t] EXCEPT !.revoked = TRUE] ELSE token[t]]

(* _delivery_obsolete of an Offer mail and of the confirmation of an answer. *)
Obsolete(d) ==
  LET t == mail[d].about
  IN \/ Terminated
     \/ /\ t # 0
        /\ \/ token[t].revoked \/ token[t].v \in late
           \/ offer.st # "ready_to_send" \/ offer.cur # token[t].v \/ app.stage # "passed"
     \/ t = 0 /\ (offer.st # resp.st \/ offer.cur # resp.v)

(* A new delivery and its job (enqueue_delivery); at the bound none is made. *)
NewMail == {d \in Mails : mail[d].st = "none" /\ \A e \in 1..d - 1 : mail[e].st # "none"}
Enqueued(d, t) == [mail EXCEPT ![d] = [NoMail EXCEPT !.st = "queued", !.about = t]]
JobQueued(d) == [job EXCEPT ![d] = [NoJob EXCEPT !.st = "queued"]]

SameIdentity(a, b) == a.d = b.d /\ a.gen = b.gen /\ a.ref = b.ref

(* _apply_fact: the items after a fact about an e-mail was recorded.  A fact *)
(* already attested is not reopened; a definite one replaces the open item  *)
(* of the same attempt.                                                     *)
WithFact(items, history, new) ==
  LET same == {i \in items : SameIdentity(i, new)}
      open == {i \in items : i.d = new.d /\ i.gen = new.gen /\ i.ref = 0 /\ i.st \in Open}
      old  == IF same # {} THEN same ELSE open
  IN IF \/ new.st # "resolved" /\ \E h \in history : SameIdentity(h, new)
        \/ new.st \in Open /\ \E i \in old : i.st \in {"needs_action", "resolved"}
     THEN items ELSE (items \ old) \cup {new}

(* Deviation: a confirmation mail is not traced to its application.         *)
RecordedLinksOnly(d, st, ref) ==
  IF app.stopped /\ mail[d].about # 0
  THEN [facts EXCEPT !.items =
          WithFact(@, facts.history, [d |-> d, gen |-> mail[d].tries, ref |-> ref, st |-> st])]
  ELSE facts

(* _record_email_fact: only a terminated application keeps a ledger; the    *)
(* generation is the delivery's attempt number when the result arrives.     *)
Recorded(d, st, ref) ==
  IF app.stopped
  THEN [facts EXCEPT !.items =
          WithFact(@, facts.history, [d |-> d, gen |-> mail[d].tries, ref |-> ref, st |-> st])]
  ELSE facts

-----------------------------------------------------------------------------
(* The Offer and its approval (offers/service.py).                          *)

(* create_offer: after a withdrawal a new Offer may be made.                *)
CreateOffer ==
  /\ ~Terminated /\ app.stage = "passed"
  /\ offer.st \in {"none", "withdrawn"} /\ offer.cur < MaxVersion
  /\ offer' = [st |-> "draft", cur |-> offer.cur + 1]
  /\ UNCHANGED <<app, appr, late, token, mail, job, worker, inbox, resp, facts>>

(* update_offer_version: a new version, whose approval starts afresh.       *)
ReviseOffer ==
  /\ ~Terminated
  /\ offer.st \in {"draft", "changes_requested", "ready_to_send", "sent"}
  /\ offer.cur < MaxVersion
  /\ token' = IF offer.st = "sent" THEN AllRevoked ELSE token
  /\ offer' = [st |-> "draft", cur |-> offer.cur + 1]
  /\ UNCHANGED <<app, appr, late, mail, job, worker, inbox, resp, facts>>

(* submit_offer: the chain of approvers is fixed; a rejected version is not *)
(* submitted again.                                                         *)
SubmitOffer(k) ==
  /\ ~Terminated /\ offer.st \in {"draft", "changes_requested"}
  /\ ~(offer.st = "changes_requested"
       /\ \E i \in DOMAIN appr[offer.cur] : appr[offer.cur][i] = "rejected")
  /\ appr' = [appr EXCEPT ![offer.cur] = [i \in 1..k |-> IF i = 1 THEN "pending" ELSE "waiting"]]
  /\ offer' = [offer EXCEPT !.st = "pending_approval"]
  /\ UNCHANGED <<app, late, token, mail, job, worker, inbox, resp, facts>>

(* Deviation: the first approval of a chain is enough.                      *)
DecideFirstOnly(i, decision) ==
  /\ ~Terminated /\ offer.st = "pending_approval"
  /\ i \in DOMAIN appr[offer.cur] /\ appr[offer.cur][i] = "pending"
  /\ appr' = [appr EXCEPT ![offer.cur][i] = decision]
  /\ offer' = [offer EXCEPT !.st = IF decision = "rejected" THEN "changes_requested" ELSE "ready_to_send"]
  /\ UNCHANGED <<app, late, token, mail, job, worker, inbox, resp, facts>>

(* decide_approval by the i-th approver.                                    *)
DecideApproval(i, decision) ==
  LET chain == appr[offer.cur]
      last  == i = Len(chain)
  IN /\ ~Terminated /\ offer.st = "pending_approval"
     /\ i \in DOMAIN chain /\ chain[i] = "pending"
     /\ appr' = [appr EXCEPT ![offer.cur] =
                   [j \in DOMAIN chain |->
                      IF j = i THEN decision
                      ELSE IF j = i + 1 /\ decision = "approved" THEN "pending" ELSE chain[j]]]
     /\ offer' = [offer EXCEPT !.st = IF decision = "rejected" THEN "changes_requested"
                                      ELSE IF last THEN "ready_to_send" ELSE @]
     /\ UNCHANGED <<app, late, token, mail, job, worker, inbox, resp, facts>>

(* withdraw_offer: a declined Offer may still be withdrawn; a termination   *)
(* does not keep HR from it.                                                *)
WithdrawOffer ==
  /\ offer.cur # 0 /\ offer.st \notin {"accepted", "withdrawn"}
  /\ token' = AllRevoked /\ offer' = [offer EXCEPT !.st = "withdrawn"]
  /\ UNCHANGED <<app, appr, late, mail, job, worker, inbox, resp, facts>>

NewToken == {t \in Tokens : token[t].v = 0 /\ \A s \in 1..t - 1 : token[s].v # 0}

(* send_offer: every earlier link is revoked and a new one is mailed.       *)
SendOffer ==
  /\ ~Terminated /\ offer.st = "ready_to_send" /\ offer.cur \notin late
  /\ \A t \in Tokens : token[t].v = offer.cur => token[t].revoked
  /\ \E t \in NewToken, d \in NewMail :
       /\ token' = [AllRevoked EXCEPT ![t] = [NoToken EXCEPT !.v = offer.cur]]
       /\ mail' = Enqueued(d, t) /\ job' = JobQueued(d)
  /\ UNCHANGED <<app, offer, appr, late, worker, inbox, resp, facts>>

(* resend_delivery: the same message again, whatever became of the first.   *)
ResendMail(old) ==
  /\ mail[old].st # "none"
  /\ \E d \in NewMail : mail' = Enqueued(d, mail[old].about) /\ job' = JobQueued(d)
  /\ UNCHANGED <<app, offer, appr, late, token, worker, inbox, resp, facts>>

(* Only the deadline of the current version still decides anything.         *)
DeadlinePasses ==
  /\ offer.cur \in Versions \ late
  /\ late' = late \cup {offer.cur}
  /\ UNCHANGED <<app, offer, appr, token, mail, job, worker, inbox, resp, facts>>

(* The candidate follows a link that reached the inbox.                     *)
CandidateMay ==
  \E t \in Tokens :
    /\ \E d \in inbox : mail[d].about = t
    /\ token[t].v = offer.cur /\ ~token[t].revoked /\ token[t].delivered /\ token[t].v \notin late

(* record_offer_response and the confirmation mail; without a confirmed     *)
(* address or mail configuration HR gets a notification instead.            *)
Respond(by, decision) ==
  /\ resp.st = "none" /\ ~Terminated
  /\ offer.cur # 0 /\ offer.st = "sent" /\ app.stage = "passed"
  /\ by = "candidate" => CandidateMay
  /\ app' = [app EXCEPT !.stage = IF decision = "accepted" THEN "hired" ELSE "withdrawn"]
  /\ offer' = [offer EXCEPT !.st = decision]
  /\ resp' = [st |-> decision, v |-> offer.cur, by |-> by]
  /\ token' = AllRevoked
  /\ \/ UNCHANGED <<mail, job>>
     \/ \E d \in NewMail : mail' = Enqueued(d, 0) /\ job' = JobQueued(d)
  /\ UNCHANGED <<appr, late, worker, inbox, facts>>

-----------------------------------------------------------------------------
(* A worker sends a mail (communications/worker.py).                        *)

TakeMail(w, d) ==
  /\ worker[w].pc = "idle" /\ job[d].st = "queued"
  /\ job' = [job EXCEPT ![d] = [st |-> "running", n |-> @.n + 1]]
  /\ worker' = [worker EXCEPT ![w] = [pc |-> "prepare", d |-> d, n |-> job[d].n + 1, res |-> "none"]]
  /\ UNCHANGED <<app, offer, appr, late, token, mail, inbox, resp, facts>>

AtStep(w, pc) == worker[w].pc = pc
Goto(w, pc, res) == worker' = [worker EXCEPT ![w].pc = pc, ![w].res = res]

Cancelled(d) == [mail EXCEPT ![d].st = "cancelled", ![d].flight = FALSE]

(* mark_delivery_failed: nothing happens to a delivery that has ended.      *)
Failed(m, d) == IF m[d].st \in MailEnds THEN m
                ELSE [m EXCEPT ![d].st = "failed", ![d].flight = FALSE]
Unlinked(m, d) == IF m[d].st \in MailEnds \/ m[d].about = 0 THEN token
                  ELSE [token EXCEPT ![m[d].about].revoked = TRUE]

(* The first transaction: is there still something to send, and can it be   *)
(* sent with the mail configuration of the delivery?                        *)
Prepare(w) ==
  LET d == worker[w].d IN
  /\ AtStep(w, "prepare")
  /\ \/ /\ mail[d].st \in {"sent", "cancelled"}
        /\ Goto(w, "settle", "done") /\ UNCHANGED <<mail, token>>
     \/ /\ mail[d].st \in {"queued", "failed"} /\ Obsolete(d)
        /\ mail' = Cancelled(d) /\ Goto(w, "settle", "done") /\ UNCHANGED token
     \/ /\ mail[d].st = "failed" /\ ~Obsolete(d)
        /\ Goto(w, "settle", "dead") /\ UNCHANGED <<mail, token>>
     \/ /\ mail[d].st = "queued" /\ ~Obsolete(d)
        /\ mail' = Failed(mail, d) /\ token' = Unlinked(mail, d) /\ Goto(w, "settle", "dead")
     \/ /\ mail[d].st = "queued" /\ ~Obsolete(d)
        /\ mail' = [mail EXCEPT ![d].tries = @ + 1] /\ Goto(w, "recheck", "none")
        /\ UNCHANGED token
  /\ UNCHANGED <<app, offer, appr, late, job, inbox, resp, facts>>

(* The second transaction looks again and marks the mail as in flight.      *)
Recheck(w) ==
  LET d == worker[w].d IN
  /\ AtStep(w, "recheck")
  /\ \/ mail[d].st # "queued" /\ UNCHANGED mail /\ Goto(w, "settle", "done")
     \/ mail[d].st = "queued" /\ Obsolete(d) /\ mail' = Cancelled(d) /\ Goto(w, "settle", "done")
     \/ /\ mail[d].st = "queued" /\ ~Obsolete(d)
        /\ mail' = [mail EXCEPT ![d].flight = TRUE] /\ Goto(w, "smtp", "none")
  /\ UNCHANGED <<app, offer, appr, late, token, job, inbox, resp, facts>>

(* SMTP itself: a temporary failure may come after the server accepted.     *)
Smtp(w) ==
  /\ AtStep(w, "smtp")
  /\ \E res \in {"accepted", "temporary", "permanent"} :
       /\ Goto(w, "record", res)
       /\ \/ res = "accepted" /\ inbox' = inbox \cup {worker[w].d}
          \/ res = "temporary" /\ inbox' \in {inbox, inbox \cup {worker[w].d}}
          \/ res = "permanent" /\ UNCHANGED inbox
  /\ UNCHANGED <<app, offer, appr, late, token, mail, job, resp, facts>>

(* Deviation: the Offer is now sent, whatever became of it meanwhile, and   *)
(* nothing is said to a termination.                                        *)
RecordAcceptedBlindly(w) ==
  LET d == worker[w].d  t == mail[d].about IN
  /\ AtStep(w, "record") /\ worker[w].res = "accepted"
  /\ token' = IF t = 0 THEN token ELSE [token EXCEPT ![t].delivered = TRUE]
  /\ offer' = IF t = 0 THEN offer ELSE [offer EXCEPT !.st = "sent"]
  /\ mail' = [mail EXCEPT ![d].st = "sent", ![d].flight = FALSE]
  /\ Goto(w, "settle", "done")
  /\ UNCHANGED <<app, appr, late, job, inbox, resp, facts>>

(* The mail was accepted (mark_offer_delivery_sent): a fact even when its   *)
(* link is void, but then the Offer does not become sent.                   *)
RecordAccepted(w) ==
  LET d == worker[w].d
      t == mail[d].about
      live == t # 0 /\ ~token[t].revoked /\ offer.st = "ready_to_send"
                    /\ offer.cur = token[t].v /\ ~Terminated
  IN /\ AtStep(w, "record") /\ worker[w].res = "accepted"
     /\ facts' = Recorded(d, "needs_action", worker[w].n)
     /\ token' = IF t = 0 THEN token ELSE [token EXCEPT ![t].delivered = TRUE]
     /\ offer' = IF live THEN [offer EXCEPT !.st = "sent"] ELSE offer
     /\ mail' = [mail EXCEPT ![d].st = "sent", ![d].flight = FALSE]
     /\ Goto(w, "settle", "done")
     /\ UNCHANGED <<app, appr, late, job, inbox, resp>>

(* The outcome is open: try again, unless the mail is no longer wanted or   *)
(* was tried often enough.                                                  *)
RecordTemporary(w) ==
  LET d == worker[w].d
      over == mail[d].st = "queued" /\ mail[d].tries >= MailAttempts
  IN /\ AtStep(w, "record") /\ worker[w].res = "temporary"
     /\ facts' = Recorded(d, "unknown", 0)
     /\ \/ Obsolete(d) /\ mail' = Cancelled(d) /\ UNCHANGED token /\ Goto(w, "settle", "done")
        \/ /\ ~Obsolete(d) /\ over
           /\ mail' = Failed(mail, d) /\ token' = Unlinked(mail, d) /\ Goto(w, "settle", "dead")
        \/ /\ ~Obsolete(d) /\ ~over /\ UNCHANGED token /\ Goto(w, "settle", "retry")
           /\ mail' = IF mail[d].st = "queued" THEN [mail EXCEPT ![d].flight = FALSE] ELSE mail
     /\ UNCHANGED <<app, offer, appr, late, job, inbox, resp>>

RecordPermanent(w) ==
  LET d == worker[w].d IN
  /\ AtStep(w, "record") /\ worker[w].res = "permanent"
  /\ facts' = Recorded(d, "resolved", 0)
  /\ \/ Obsolete(d) /\ mail' = Cancelled(d) /\ UNCHANGED token /\ Goto(w, "settle", "done")
     \/ /\ ~Obsolete(d)
        /\ mail' = Failed(mail, d) /\ token' = Unlinked(mail, d) /\ Goto(w, "settle", "dead")
  /\ UNCHANGED <<app, offer, appr, late, job, inbox, resp>>

(* The job dies: its terminal callback marks the delivery as failed.        *)
Dies(d) ==
  /\ job' = [job EXCEPT ![d].st = "dead"]
  /\ mail' = Failed(mail, d) /\ token' = Unlinked(mail, d)

(* The worker tells the queue, which listens only to the attempt it knows.  *)
Settle(w) ==
  LET d == worker[w].d
      owned == job[d].st = "running" /\ job[d].n = worker[w].n
  IN /\ AtStep(w, "settle")
     /\ worker' = [worker EXCEPT ![w] = Idle]
     /\ \/ ~owned /\ UNCHANGED <<job, mail, token>>
        \/ /\ owned /\ worker[w].res = "done"
           /\ job' = [job EXCEPT ![d].st = "done"] /\ UNCHANGED <<mail, token>>
        \/ /\ owned /\ worker[w].res = "retry" /\ job[d].n < MailAttempts
           /\ job' = [job EXCEPT ![d].st = "queued"] /\ UNCHANGED <<mail, token>>
        \/ /\ owned
           /\ worker[w].res = "dead" \/ (worker[w].res = "retry" /\ job[d].n = MailAttempts)
           /\ Dies(d)
     /\ UNCHANGED <<app, offer, appr, late, inbox, resp, facts>>

(* Deviation: nobody is told of the death.                                  *)
LoseLeaseSilently(d) ==
  /\ job[d].st = "running"
  /\ ~StaleHandlers => \A w \in Workers : worker[w].d # d
  /\ job' = [job EXCEPT ![d].st = IF job[d].n < MailAttempts THEN "queued" ELSE "dead"]
  /\ UNCHANGED <<app, offer, appr, late, token, mail, worker, inbox, resp, facts>>

(* The lease of a mail job runs out.                                        *)
LoseLease(d) ==
  /\ job[d].st = "running"
  /\ ~StaleHandlers => \A w \in Workers : worker[w].d # d
  /\ \/ /\ job[d].n < MailAttempts
        /\ job' = [job EXCEPT ![d].st = "queued"] /\ UNCHANGED <<mail, token>>
     \/ job[d].n = MailAttempts /\ Dies(d)
  /\ UNCHANGED <<app, offer, appr, late, worker, inbox, resp, facts>>

Crash(w) ==
  /\ worker[w].pc # "idle"
  /\ worker' = [worker EXCEPT ![w] = Idle]
  /\ UNCHANGED <<app, offer, appr, late, token, mail, job, inbox, resp, facts>>

-----------------------------------------------------------------------------
(* The end of the application (recruiting/termination.py and others).       *)

(* terminate_application under its preview: what it finds is what its       *)
(* caller confirmed.  A mail whose SMTP outcome is open goes to the ledger. *)
Terminate ==
  /\ app.stage \notin {"rejected", "withdrawn"} /\ ~app.stopped
  /\ app' = [stage |-> "withdrawn", stopped |-> TRUE]
  /\ offer' = IF offer.st \in Effective THEN [offer EXCEPT !.st = "withdrawn"] ELSE offer
  /\ appr' = [v \in Versions |-> [i \in DOMAIN appr[v] |->
                IF appr[v][i] \in {"waiting", "pending"} THEN "cancelled" ELSE appr[v][i]]]
  /\ token' = AllRevoked
  /\ mail' = [d \in Mails |-> IF mail[d].st = "queued" /\ ~mail[d].flight
                                THEN [mail[d] EXCEPT !.st = "cancelled"] ELSE mail[d]]
  /\ facts' = [facts EXCEPT !.items =
                 {[d |-> d, gen |-> mail[d].tries, ref |-> 0, st |-> "in_flight"] :
                    d \in {e \in Mails : mail[e].st = "queued" /\ mail[e].flight}}]
  /\ UNCHANGED <<late, job, worker, inbox, resp>>

(* confirm_external_resolution: nothing may be in the air any more.         *)
ConfirmExternal ==
  /\ app.stopped
  /\ \A i \in facts.items : i.st \notin Open
  /\ \E i \in facts.items : i.st # "resolved"
  /\ facts' = [items   |-> {[i EXCEPT !.st = "resolved"] : i \in facts.items},
               history |-> facts.history \cup facts.items]
  /\ UNCHANGED <<app, offer, appr, late, token, mail, job, worker, inbox, resp>>

(* The approval of the candidate's deletion withdraws the application       *)
(* without a termination record; a bulk rejection from the screening list   *)
(* rejects it in any stage that is not final.                               *)
WithdrawForDeletion ==
  /\ app.stage = "passed" /\ app' = [app EXCEPT !.stage = "withdrawn"]
  /\ UNCHANGED <<offer, appr, late, token, mail, job, worker, inbox, resp, facts>>

BulkReject ==
  /\ app.stage = "passed" /\ app' = [app EXCEPT !.stage = "rejected"]
  /\ UNCHANGED <<offer, appr, late, token, mail, job, worker, inbox, resp, facts>>

-----------------------------------------------------------------------------
Offering ==
  \/ CreateOffer \/ ReviseOffer \/ WithdrawOffer \/ SendOffer \/ DeadlinePasses
  \/ \E k \in Chains : SubmitOffer(k)
  \/ \E v \in Versions, decision \in {"approved", "rejected"} :
       v = offer.cur /\ \E i \in DOMAIN appr[v] : DecideApproval(i, decision)
  \/ \E d \in Mails : ResendMail(d)
  \/ \E by \in {"candidate", "proxy"}, decision \in {"accepted", "declined"} : Respond(by, decision)

Ending == Terminate \/ ConfirmExternal \/ WithdrawForDeletion \/ BulkReject

Working(w) ==
  \/ Prepare(w) \/ Recheck(w) \/ Smtp(w)
  \/ RecordAccepted(w) \/ RecordTemporary(w) \/ RecordPermanent(w) \/ Settle(w)

Next ==
  \/ Offering \/ Ending
  \/ \E w \in Workers : Working(w) \/ Crash(w) \/ \E d \in Mails : TakeMail(w, d)
  \/ \E d \in Mails : LoseLease(d)

Spec == Init /\ [][Next]_vars

(* Workers keep polling and working, and a lost lease runs out.             *)
FairSpec ==
  /\ Spec
  /\ \A w \in Workers : WF_vars(Working(w)) /\ WF_vars(\E d \in Mails : TakeMail(w, d))
  /\ \A d \in Mails : WF_vars(LoseLease(d))

-----------------------------------------------------------------------------
(* Properties.                                                              *)

(* The answered version was approved by its whole chain and was mailed, and *)
(* so no revision, resend, late mail or bulk decision can slip another text *)
(* under the candidate's answer (record_offer_response).                    *)
AnswerWasApproved ==
  resp.st # "none" =>
    /\ appr[resp.v] # <<>> /\ \A i \in DOMAIN appr[resp.v] : appr[resp.v][i] = "approved"
    /\ \E d \in inbox : mail[d].about # 0 /\ token[mail[d].about].v = resp.v

(* While the application is not stopped, an accepted Offer, an accepted     *)
(* answer and a hired application are the same thing: the three tables that *)
(* record_offer_response writes never disagree afterwards.                  *)
OutcomeAgrees ==
  ~app.stopped =>
    /\ (resp.st = "accepted") <=> (app.stage = "hired")
    /\ (resp.st = "accepted") <=> (offer.st = "accepted")

(* At any time at most one link is valid                                    *)
(* (docs/candidate-email-and-offer-operations.md:40).                       *)
OneActiveToken ==
  \A s, t \in Tokens : (token[s].v # 0 /\ ~token[s].revoked /\ token[t].v # 0 /\ ~token[t].revoked) => s = t

(* A stopped application stays stopped: no result of a mail that was in the *)
(* air, and no command, brings the Offer, an approval or a link back.       *)
StopHolds ==
  app.stopped =>
    /\ offer.st \notin Effective
    /\ \A t \in Tokens : token[t].v # 0 => token[t].revoked
    /\ \A v \in Versions : \A i \in DOMAIN appr[v] : appr[v][i] \notin {"waiting", "pending"}

(* As long as a mail of a stopped application is at the mail server, or its *)
(* result has not been written down, the ledger has it as open, so that HR  *)
(* cannot attest to a clean end too early (terminate_application,           *)
(* confirm_external_resolution).                                            *)
MailInAirIsOpen ==
  app.stopped =>
    \A w \in Workers : worker[w].pc \in {"smtp", "record"} =>
      \E i \in facts.items : i.d = worker[w].d /\ i.st \in Open

(* No delivery is forgotten: when its job is over, it is sent, failed or    *)
(* cancelled, whichever attempt, result, lost lease or callback ended it.   *)
EndedJobEndsMail == \A d \in Mails : job[d].st \in {"done", "dead"} => mail[d].st \in MailEnds

(* What every state of an Offer and of its mail satisfies.                  *)
OfferSafety ==
  AnswerWasApproved /\ OutcomeAgrees /\ OneActiveToken /\ StopHolds /\ MailInAirIsOpen /\ EndedJobEndsMail

(* What a mail server accepted for a stopped application is on the ledger   *)
(* before the delivery counts as sent, also when a resend or a retry was in *)
(* the air (_record_email_fact).                                            *)
LateSendIsAttested ==
  [][\A d \in Mails : (app.stopped /\ mail[d].st # "sent" /\ mail'[d].st = "sent")
       => \E i \in facts'.items \cup facts'.history : i.d = d /\ i.ref # 0]_vars

(* Every delivery ends.                                                     *)
MailEndsEventually == \A d \in Mails : mail[d].st = "queued" ~> mail[d].st \in MailEnds

(* The Offer does what OfferContract says, whatever the mails do.           *)
Contract == INSTANCE OfferContract WITH
  stage <- app.stage, stopped <- app.stopped, status <- offer.st, answer <- resp.st,
  approved <- /\ offer.cur # 0
              /\ \A v \in Versions : v = offer.cur =>
                   appr[v] # <<>> /\ \A i \in DOMAIN appr[v] : appr[v][i] = "approved"
KeepsContract == Contract!ContractSpec

-----------------------------------------------------------------------------
(* Statements of the documents that the code does not keep.                 *)

(* docs/candidate-email-and-offer-operations.md:21: the candidate gets a    *)
(* confirmation of the answer, of a declined one too; only a termination    *)
(* cancels it.                                                              *)
ConfirmationIsWanted ==
  \A d \in Mails : (mail[d].st = "cancelled" /\ mail[d].about = 0) => app.stopped \/ offer.st # resp.st

(* docs/candidate-email-and-offer-operations.md:19: the candidate of a sent *)
(* Offer answers through the link of the mail.                              *)
SentOfferHasLink ==
  (offer.st = "sent" /\ offer.cur \notin late) =>
    \E t \in Tokens : token[t].v = offer.cur /\ ~token[t].revoked /\ token[t].delivered

(* docs/candidate-email-and-offer-operations.md:40: a new version revokes   *)
(* the link of the old one.                                                 *)
LinkIsOfCurrentVersion ==
  \A t \in Tokens : (token[t].v # 0 /\ ~token[t].revoked) => token[t].v = offer.cur

(* docs/superpowers/specs/2026-10-28-recruiting-termination-design.md:90:   *)
(* what is pending outside can be closed; an open mail needs a job that may *)
(* still report its result.                                                 *)
OpenItemCanClose ==
  \A i \in facts.items : i.st \in Open => job[i.d].st \in {"queued", "running"}

(* 2026-10-28-recruiting-termination-design.md:86: the result of a mail     *)
(* that was in the air is recorded as the fact it is.                       *)
SentStaysSent == [][\A d \in Mails : mail[d].st = "sent" => mail'[d].st = "sent"]_vars

(* 2026-08-06-candidate-email-offer-design.md:161: an Offer is expired when *)
(* its deadline has passed without an answer.                               *)
LateOfferExpires == (offer.st = "sent" /\ offer.cur \in late) ~> offer.st # "sent"

-----------------------------------------------------------------------------
(* The inductive invariant.                                                 *)

(* The approvals of a version come in turn; only a wholly approved version  *)
(* is ready or sent; a version to come has none.                            *)
Approved(v) == appr[v] # <<>> /\ \A i \in DOMAIN appr[v] : appr[v][i] = "approved"
InTurn(chain) ==
  \A i \in DOMAIN chain : chain[i] = "pending" =>
    \A j \in DOMAIN chain : /\ j < i => chain[j] = "approved"
                            /\ j > i => chain[j] = "waiting"
ChainsOK ==
  /\ offer.cur = 0 <=> offer.st = "none"
  /\ offer.st = "pending_approval" => InTurn(appr[offer.cur])
  /\ offer.st \in {"ready_to_send", "sent"} => Approved(offer.cur)
  /\ \A v \in Versions : v > offer.cur => appr[v] = <<>>

(* An answer is final, and nothing else makes an Offer accepted or declined *)
(* or an application hired.                                                 *)
AnswerIsFinal ==
  /\ resp.st # "none" => resp.v \in Versions /\ offer.st \in {resp.st, "withdrawn"} /\ app.stage # "passed"
  /\ offer.st \in {"accepted", "declined"} => resp.st = offer.st
  /\ resp.st = "declined" \/ app.stopped => app.stage = "withdrawn"

(* Of a sent version a mail has arrived, and a mail keeps the link it has.  *)
HasArrived(v) == \E d \in inbox : mail[d].about # 0 /\ token[mail[d].about].v = v
LinksOK ==
  /\ offer.st = "sent" => HasArrived(offer.cur)
  /\ \A d \in Mails : mail[d].about # 0 => token[mail[d].about].v # 0

(* Deliveries and their jobs; an attempt is counted when it is prepared, so *)
(* those that have yet to be prepared fit into the attempts handed out.     *)
Starting(d) == {w \in Workers : worker[w].pc = "prepare" /\ worker[w].d = d}
MailsOK ==
  \A d \in Mails :
    /\ mail[d].st = "none" <=> job[d].st = "none"
    /\ mail[d].st = "none" => d \notin inbox /\ mail[d] = NoMail /\ job[d] = NoJob
    /\ job[d].st = "queued" => job[d].n < MailAttempts
    /\ IsFiniteSet(Starting(d)) /\ mail[d].tries + Cardinality(Starting(d)) <= job[d].n

(* What a worker carries: a delivery there is, the number of its attempt,   *)
(* a result that is true.                                                   *)
Carries(h) ==
  /\ h.d \in Mails /\ mail[h.d].st # "none" /\ h.n # 0
  /\ h.pc = "record" => h.res \in {"accepted", "temporary", "permanent"}
  /\ h.pc = "record" /\ h.res = "accepted" => h.d \in inbox
  /\ h.pc = "settle" /\ h.res = "done" => mail[h.d].st \in MailEnds
WorkersOK == \A w \in Workers : worker[w].pc # "idle" => Carries(worker[w])

(* As long as no handler outlives its lease, each delivery has one at most, *)
(* and it is marked as in flight while it may be at the server.             *)
AtServer == {"smtp", "record"}
OneHandler ==
  /\ \A w \in Workers : worker[w].pc # "idle" =>
       /\ job[worker[w].d].st = "running"
       /\ worker[w].pc \in AtServer => mail[worker[w].d].st = "queued" /\ mail[worker[w].d].flight
  /\ \A v, w \in Workers : (worker[v].pc # "idle" /\ worker[w].pc # "idle" /\ v # w) => worker[v].d # worker[w].d

IInv ==
  /\ TypeOK /\ ChainsOK /\ AnswerIsFinal /\ LinksOK /\ MailsOK /\ WorkersOK
  /\ AnswerWasApproved /\ OutcomeAgrees /\ OneActiveToken /\ StopHolds /\ EndedJobEndsMail
Unlapsed == OneHandler /\ MailInAirIsOpen
=============================================================================
