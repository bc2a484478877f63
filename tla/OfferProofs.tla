---------------------------- MODULE OfferProofs ----------------------------
(* Proofs about OfferLifecycle, for every value of its constants.           *)
EXTENDS OfferLifecycle, FiniteSetTheorems, SequenceTheorems, TLAPS

(* The types, table by table.                                               *)
Decisions == {"waiting", "pending", "approved", "rejected", "cancelled"}
Apps == [stage : {"passed", "hired", "rejected", "withdrawn"}, stopped : BOOLEAN]
Offers == [st : Effective \cup {"none", "declined", "withdrawn"}, cur : 0..MaxVersion]
Answers == [st : {"none", "accepted", "declined"}, v : 0..MaxVersion, by : {"none", "candidate", "proxy"}]
TokenRows == [v : 0..MaxVersion, revoked : BOOLEAN, delivered : BOOLEAN]
MailRows == [st : MailEnds \cup {"none", "queued"}, about : 0..MaxTokens, tries : 0..MailAttempts, flight : BOOLEAN]
JobRows == [st : {"none", "queued", "running", "done", "dead"}, n : 0..MailAttempts]
Places == {"idle", "prepare", "recheck", "smtp", "record", "settle"}
Results == {"none", "accepted", "temporary", "permanent", "done", "retry", "dead"}
Handlers == [pc : Places, d : Mails \cup {NoWorkItem}, n : 0..MailAttempts, res : Results]
Ledgers == [items : SUBSET Item, history : SUBSET Item]

OfferTypes ==
  /\ app \in Apps /\ offer \in Offers /\ appr \in [Versions -> Seq(Decisions)] /\ late \subseteq Versions
  /\ token \in [Tokens -> TokenRows] /\ resp \in Answers
MailTypes ==
  /\ mail \in [Mails -> MailRows] /\ job \in [Mails -> JobRows] /\ worker \in [Workers -> Handlers]
  /\ inbox \subseteq Mails /\ facts \in Ledgers

(* The invariant as the Offer's tables see it, and as the mail's do.        *)
OfferSide ==
  ChainsOK /\ AnswerIsFinal /\ LinksOK /\ AnswerWasApproved /\ OutcomeAgrees /\ OneActiveToken /\ StopHolds
MailSide == MailsOK /\ WorkersOK /\ EndedJobEndsMail

LEMMA Sides ==
  /\ IInv <=> OfferTypes /\ MailTypes /\ OfferSide /\ MailSide
  /\ IInv' <=> OfferTypes' /\ MailTypes' /\ OfferSide' /\ MailSide'
<1>1. TypeOK <=> OfferTypes /\ MailTypes
  BY DEF TypeOK, OfferTypes, MailTypes, Decisions, Apps, Offers, Answers, TokenRows, MailRows, JobRows, Places,
         Results, Handlers, Ledgers
<1>2. TypeOK' <=> OfferTypes' /\ MailTypes'
  BY DEF TypeOK, OfferTypes, MailTypes, Decisions, Apps, Offers, Answers, TokenRows, MailRows, JobRows, Places,
         Results, Handlers, Ledgers
<1> QED
  BY <1>1, <1>2 DEF IInv, OfferSide, MailSide

LEMMA LinksAreTyped ==
  ASSUME IInv, NEW d \in Mails
  PROVE  mail[d] \in MailRows /\ job[d] \in JobRows /\ (mail[d].about # 0 => mail[d].about \in Tokens)
<1>1. mail[d] \in MailRows /\ job[d] \in JobRows
  BY Sides DEF MailTypes
<1> QED
  BY <1>1, ConstantsAssumption DEF MailRows, Tokens

-----------------------------------------------------------------------------
(* What has arrived has arrived.                                            *)
LinksKept ==
  /\ \A d \in Mails : mail[d].st # "none" => mail'[d].about = mail[d].about
  /\ \A t \in Tokens : token[t].v # 0 => token'[t].v = token[t].v
  /\ inbox \subseteq inbox'

LEMMA ArrivedKept ==
  ASSUME IInv, LinksKept, NEW v, HasArrived(v)
  PROVE  \E d \in inbox' : mail'[d].about # 0 /\ token'[mail'[d].about].v = v
<1>1. PICK d \in inbox : mail[d].about # 0 /\ token[mail[d].about].v = v
  BY DEF HasArrived
<1>2. d \in Mails /\ mail[d].st # "none"
  BY Sides DEF MailTypes, MailSide, MailsOK
<1>3. mail[d].about \in Tokens /\ token[mail[d].about].v # 0
  BY <1>1, <1>2, LinksAreTyped DEF IInv, LinksOK
<1> QED
  BY <1>1, <1>2, <1>3 DEF LinksKept

(* A delivery that there is keeps its link and its end; a link its version  *)
(* and its revocation.                                                      *)
MailsKeep(m) ==
  /\ m \in [Mails -> MailRows]
  /\ \A d \in Mails : /\ m[d].about = mail[d].about
                      /\ m[d].st = "none" <=> mail[d].st = "none"
                      /\ mail[d].st = "none" => m[d] = mail[d]
                      /\ mail[d].st \in MailEnds => m[d].st \in MailEnds
TokensKeep(tokens) ==
  /\ tokens \in [Tokens -> TokenRows]
  /\ \A t \in Tokens : /\ tokens[t].v = token[t].v
                       /\ token[t].revoked => tokens[t].revoked

LEMMA KeptIfUnchanged ==
  ASSUME IInv
  PROVE  MailsKeep(mail) /\ TokensKeep(token)
  BY Sides DEF MailTypes, OfferTypes, MailsKeep, TokensKeep

LinksHold == \A d \in Mails : mail'[d].about # 0 => token'[mail'[d].about].v # 0

LEMMA LinksKeptIf ==
  ASSUME IInv, MailsKeep(mail'), TokensKeep(token'), inbox \subseteq inbox'
  PROVE  LinksKept /\ LinksHold
<1>1. LinksKept
  BY DEF LinksKept, MailsKeep, TokensKeep
<1>2. ASSUME NEW d \in Mails, mail'[d].about # 0 PROVE token'[mail'[d].about].v # 0
  BY <1>2, LinksAreTyped DEF MailsKeep, TokensKeep, IInv, LinksOK
<1> QED
  BY <1>1, <1>2 DEF LinksHold

LEMMA OfferSideKept ==
  ASSUME IInv, UNCHANGED <<app, offer, appr, resp>>, TokensKeep(token'), LinksKept, LinksHold
  PROVE  OfferSide'
<1> USE DEF IInv
<1>1. ChainsOK'
  BY DEF ChainsOK, Approved, InTurn
<1>2. AnswerIsFinal' /\ OutcomeAgrees'
  BY DEF AnswerIsFinal, OutcomeAgrees
<1>3. OneActiveToken' /\ StopHolds'
  BY DEF OneActiveToken, StopHolds, TokensKeep
<1>4. LinksOK'
  <2>1. offer.st = "sent" => HasArrived(offer.cur)'
    BY ArrivedKept DEF LinksOK, HasArrived
  <2> QED
    BY <2>1 DEF LinksOK, LinksHold, Mails
<1>5. AnswerWasApproved'
  <2>1. resp.st # "none" => HasArrived(resp.v)'
    BY ArrivedKept DEF AnswerWasApproved, HasArrived
  <2> QED
    BY <2>1 DEF AnswerWasApproved, HasArrived
<1> QED
  BY <1>1, <1>2, <1>3, <1>4, <1>5 DEF OfferSide

-----------------------------------------------------------------------------
(* The mail's side of a step that hands out no attempt and prepares none.   *)
CarriesNext(h) ==
  /\ h.d \in Mails /\ mail'[h.d].st # "none" /\ h.n # 0
  /\ h.pc = "record" => h.res \in {"accepted", "temporary", "permanent"}
  /\ h.pc = "record" /\ h.res = "accepted" => h.d \in inbox'
  /\ h.pc = "settle" /\ h.res = "done" => mail'[h.d].st \in MailEnds
HandlersKeep ==
  /\ worker' \in [Workers -> Handlers]
  /\ \A w \in Workers : \/ worker'[w] = worker[w] \/ worker'[w].pc = "idle"
                        \/ worker'[w].pc # "prepare" /\ CarriesNext(worker'[w])
JobsKeep ==
  /\ job' \in [Mails -> JobRows]
  /\ \A d \in Mails : /\ job'[d].n = job[d].n
                      /\ job'[d].st = "none" <=> job[d].st = "none"
                      /\ job[d].st = "none" => job'[d] = job[d]
                      /\ job'[d].st = "queued" => job[d].n < MailAttempts
                      /\ job'[d].st \in {"done", "dead"} => job[d].st \in {"done", "dead"} \/ mail'[d].st \in MailEnds
InboxKeeps ==
  /\ inbox \subseteq inbox' /\ inbox' \subseteq Mails
  /\ \A d \in inbox' : mail[d].st # "none"
TriesKeep == \A d \in Mails : mail'[d].tries = mail[d].tries

LEMMA WorkersKept ==
  ASSUME IInv, MailsKeep(mail'), HandlersKeep, inbox \subseteq inbox'
  PROVE  WorkersOK'
<1> SUFFICES ASSUME NEW w \in Workers, worker'[w].pc # "idle" PROVE CarriesNext(worker'[w])
  BY DEF WorkersOK, Carries, CarriesNext, Mails, MailEnds
<1>1. CASE worker'[w] = worker[w]
  BY <1>1 DEF IInv, WorkersOK, Carries, CarriesNext, MailsKeep
<1> QED
  BY <1>1 DEF HandlersKeep

LEMMA EndsKept ==
  ASSUME IInv, MailsKeep(mail'), JobsKeep
  PROVE  EndedJobEndsMail'
  BY DEF IInv, EndedJobEndsMail, JobsKeep, MailsKeep, Mails, MailEnds

(* Fewer handlers that have yet to prepare a delivery need fewer attempts.  *)
LEMMA StartingShrinks ==
  ASSUME IInv, NEW d \in Mails, HandlersKeep
  PROVE  /\ Starting(d)' \subseteq Starting(d) /\ IsFiniteSet(Starting(d)')
         /\ Cardinality(Starting(d)') \in Nat /\ Cardinality(Starting(d)) \in Nat
         /\ Cardinality(Starting(d)') <= Cardinality(Starting(d))
<1>1. Starting(d)' \subseteq Starting(d)
  BY DEF Starting, HandlersKeep
<1>2. IsFiniteSet(Starting(d))
  BY DEF IInv, MailsOK
<1> QED
  BY <1>1, <1>2, FS_Subset, FS_CardinalityType

LEMMA MailsKept ==
  ASSUME IInv, MailsKeep(mail'), HandlersKeep, JobsKeep, InboxKeeps, TriesKeep
  PROVE  MailsOK'
<1> SUFFICES ASSUME NEW d \in Mails
             PROVE  /\ mail'[d].st = "none" <=> job'[d].st = "none"
                    /\ mail'[d].st = "none" => d \notin inbox' /\ mail'[d] = NoMail /\ job'[d] = NoJob
                    /\ job'[d].st = "queued" => job'[d].n < MailAttempts
                    /\ IsFiniteSet(Starting(d)') /\ mail'[d].tries + Cardinality(Starting(d)') <= job'[d].n
  BY DEF MailsOK, Mails, NoMail, NoJob, Starting
<1>1. mail'[d].st = "none" <=> job'[d].st = "none"
  BY DEF IInv, MailsOK, MailsKeep, JobsKeep
<1>2. mail'[d].st = "none" => d \notin inbox' /\ mail'[d] = NoMail /\ job'[d] = NoJob
  BY DEF IInv, MailsOK, MailsKeep, JobsKeep, InboxKeeps
<1>3. job'[d].st = "queued" => job'[d].n < MailAttempts
  BY DEF JobsKeep
<1>4. mail'[d].tries + Cardinality(Starting(d)') <= job'[d].n
  <2>1. mail'[d].tries = mail[d].tries /\ job'[d].n = job[d].n
    BY DEF TriesKeep, JobsKeep
  <2>2. mail[d].tries \in Nat /\ job[d].n \in Nat /\ mail[d].tries + Cardinality(Starting(d)) <= job[d].n
    BY LinksAreTyped DEF IInv, MailsOK, MailRows, JobRows
  <2> QED
    BY <2>1, <2>2, StartingShrinks
<1> QED
  BY <1>1, <1>2, <1>3, <1>4, StartingShrinks

LEMMA MailSideKept ==
  ASSUME IInv, MailsKeep(mail'), HandlersKeep, JobsKeep, InboxKeeps, TriesKeep
  PROVE  MailSide'
  BY WorkersKept, EndsKept, MailsKept DEF MailSide, InboxKeeps

LEMMA QuietMail ==
  ASSUME IInv
  PROVE  /\ worker' = worker => HandlersKeep
         /\ job' = job => JobsKeep
         /\ inbox' = inbox => InboxKeeps
         /\ mail' = mail => MailsKeep(mail') /\ TriesKeep
         /\ UNCHANGED <<mail, job, worker, inbox>> => MailSide' /\ (facts' \in Ledgers => MailTypes')
<1>1. worker' = worker => HandlersKeep
  BY Sides DEF MailTypes, HandlersKeep
<1>2. job' = job => JobsKeep
  BY Sides DEF MailTypes, JobsKeep, MailSide, MailsOK
<1>3. inbox' = inbox => InboxKeeps
  BY Sides DEF MailTypes, InboxKeeps, MailSide, MailsOK
<1>4. mail' = mail => MailsKeep(mail') /\ TriesKeep
  BY KeptIfUnchanged DEF TriesKeep
<1>5. UNCHANGED <<mail, job, worker, inbox>> /\ facts' \in Ledgers => MailTypes'
  BY Sides DEF MailTypes
<1> QED
  BY <1>1, <1>2, <1>3, <1>4, <1>5, MailSideKept

-----------------------------------------------------------------------------
(* The commands that only concern the Offer.                                *)

(* The revocation of every link.                                            *)
LEMMA AllRevokedKeeps ==
  ASSUME IInv
  PROVE  TokensKeep(AllRevoked) /\ \A t \in Tokens : AllRevoked[t].v # 0 => AllRevoked[t].revoked
<1>1. token \in [Tokens -> TokenRows]
  BY Sides DEF OfferTypes
<1>2. ASSUME NEW t \in Tokens
      PROVE  /\ AllRevoked[t] \in TokenRows /\ AllRevoked[t].v = token[t].v
             /\ token[t].revoked => AllRevoked[t].revoked
             /\ AllRevoked[t].v # 0 => AllRevoked[t].revoked
  <2>1. token[t] \in TokenRows /\ AllRevoked[t] = IF token[t].v # 0 THEN [token[t] EXCEPT !.revoked = TRUE] ELSE token[t]
    BY <1>1 DEF AllRevoked
  <2> QED
    BY <2>1 DEF TokenRows
<1>3. AllRevoked \in [Tokens -> TokenRows]
  BY <1>2 DEF AllRevoked
<1> QED
  BY <1>2, <1>3 DEF TokensKeep

(* An Offer that is being worked on has no answer yet.                      *)
LEMMA Unanswered ==
  ASSUME IInv, offer.st \in Preparing \cup {"sent"}
  PROVE  resp.st = "none" /\ offer.cur \in Versions
<1>1. offer \in Offers /\ resp \in Answers
  BY Sides DEF OfferTypes
<1>2. resp.st = "none"
  BY <1>1 DEF IInv, AnswerIsFinal, Preparing, Answers
<1>3. offer.cur # 0
  BY DEF IInv, ChainsOK, Preparing
<1> QED
  BY <1>1, <1>2, <1>3 DEF Offers, Versions

(* A step of the preparation of an Offer.                                   *)
LEMMA PreparationStep ==
  ASSUME IInv, ~app.stopped, resp.st = "none", UNCHANGED <<app, late, resp, mail, job, worker, inbox, facts>>,
         offer' \in Offers, offer'.st \in Preparing, appr' \in [Versions -> Seq(Decisions)], ChainsOK',
         TokensKeep(token')
  PROVE  IInv'
<1>1. OfferTypes' /\ MailTypes' /\ MailSide'
  BY Sides, QuietMail DEF OfferTypes, MailTypes, TokensKeep
<1>2. LinksOK' /\ OneActiveToken'
  <2>1. LinksHold
    BY LinksKeptIf, KeptIfUnchanged
  <2> QED
    BY <2>1 DEF IInv, LinksOK, LinksHold, OneActiveToken, TokensKeep, Preparing, Mails
<1>3. AnswerIsFinal' /\ AnswerWasApproved' /\ OutcomeAgrees' /\ StopHolds'
  BY DEF IInv, AnswerIsFinal, AnswerWasApproved, OutcomeAgrees, StopHolds, Preparing
<1> QED
  BY <1>1, <1>2, <1>3, Sides DEF OfferSide

LEMMA DraftStep ==
  ASSUME IInv, CreateOffer \/ ReviseOffer
  PROVE  IInv'
<1>1. /\ ~Terminated /\ offer.cur < MaxVersion /\ offer' = [st |-> "draft", cur |-> offer.cur + 1]
      /\ UNCHANGED <<app, appr, late, resp, mail, job, worker, inbox, facts>>
  BY DEF CreateOffer, ReviseOffer
<1>2. resp.st = "none"
  <2>1. CASE CreateOffer
    BY <2>1 DEF CreateOffer, IInv, AnswerIsFinal
  <2>2. CASE ReviseOffer
    BY <2>2, Unanswered DEF ReviseOffer, Preparing
  <2> QED
    BY <2>1, <2>2
<1>3. offer.cur \in 0..MaxVersion /\ appr \in [Versions -> Seq(Decisions)]
  BY Sides DEF OfferTypes, Offers
<1>4. offer' \in Offers /\ offer'.st \in Preparing
  BY <1>1, <1>3, ConstantsAssumption DEF Offers, Effective, Preparing
<1>5. ChainsOK'
  BY <1>1, <1>3, ConstantsAssumption DEF IInv, ChainsOK, Versions
<1>6. TokensKeep(token')
  BY AllRevokedKeeps, KeptIfUnchanged DEF CreateOffer, ReviseOffer
<1> QED
  BY <1>1, <1>2, <1>3, <1>4, <1>5, <1>6, PreparationStep DEF Terminated

LEMMA SubmitOfferStep ==
  ASSUME IInv, NEW k \in Chains, SubmitOffer(k)
  PROVE  IInv'
<1> DEFINE chain == [i \in 1..k |-> IF i = 1 THEN "pending" ELSE "waiting"]
<1>1. /\ ~Terminated /\ offer.st \in {"draft", "changes_requested"}
      /\ appr' = [appr EXCEPT ![offer.cur] = chain] /\ offer' = [offer EXCEPT !.st = "pending_approval"]
      /\ UNCHANGED <<app, late, token, resp, mail, job, worker, inbox, facts>>
  BY DEF SubmitOffer
<1>2. resp.st = "none" /\ offer.cur \in Versions
  BY <1>1, Unanswered DEF Preparing
<1>3. offer \in Offers /\ appr \in [Versions -> Seq(Decisions)] /\ k \in Nat
  BY Sides, ConstantsAssumption DEF OfferTypes
<1>4. chain \in Seq(Decisions) /\ InTurn(chain)
  BY <1>3 DEF Decisions, InTurn
<1> HIDE DEF chain
<1>5. /\ appr' \in [Versions -> Seq(Decisions)] /\ appr'[offer.cur] = chain
      /\ \A v \in Versions \ {offer.cur} : appr'[v] = appr[v]
  BY <1>1, <1>2, <1>3, <1>4
<1>6. offer' \in Offers /\ offer'.st = "pending_approval" /\ offer'.cur = offer.cur
  BY <1>1, <1>3 DEF Offers, Effective, Preparing
<1>7. ChainsOK'
  BY <1>1, <1>2, <1>4, <1>5, <1>6 DEF IInv, ChainsOK, Versions
<1> QED
  BY <1>1, <1>2, <1>5, <1>6, <1>7, PreparationStep, KeptIfUnchanged DEF Terminated, Preparing

LEMMA DecideApprovalStep ==
  ASSUME IInv, NEW i, NEW decision \in {"approved", "rejected"}, DecideApproval(i, decision)
  PROVE  IInv'
<1> DEFINE chain == appr[offer.cur]
           next == [j \in DOMAIN chain |-> IF j = i THEN decision
                                           ELSE IF j = i + 1 /\ decision = "approved" THEN "pending" ELSE chain[j]]
           status == IF decision = "rejected" THEN "changes_requested"
                     ELSE IF i = Len(chain) THEN "ready_to_send" ELSE offer.st
<1>1. /\ ~Terminated /\ offer.st = "pending_approval" /\ i \in DOMAIN chain /\ chain[i] = "pending"
      /\ appr' = [appr EXCEPT ![offer.cur] = next] /\ offer' = [offer EXCEPT !.st = status]
      /\ UNCHANGED <<app, late, token, resp, mail, job, worker, inbox, facts>>
  BY DEF DecideApproval
<1>2. resp.st = "none" /\ offer.cur \in Versions
  BY <1>1, Unanswered DEF Preparing
<1>3. offer \in Offers /\ appr \in [Versions -> Seq(Decisions)] /\ chain \in Seq(Decisions)
  BY <1>2, Sides DEF OfferTypes
<1>4. InTurn(chain)
  BY <1>1 DEF IInv, ChainsOK
<1>5. Len(chain) \in Nat /\ DOMAIN chain = 1..Len(chain) /\ i \in 1..Len(chain)
  BY <1>1, <1>3
<1>6. next \in Seq(Decisions) /\ DOMAIN next = 1..Len(chain) /\ next # <<>>
  <2>1. \A j \in 1..Len(chain) : next[j] \in Decisions
    BY <1>3, <1>5 DEF Decisions
  <2>2. next \in [1..Len(chain) -> Decisions]
    BY <1>5, <2>1
  <2> QED
    BY <1>5, <2>2
<1>7. status = "pending_approval" => InTurn(next)
  BY <1>4, <1>5, <1>1 DEF InTurn
<1>8. status = "ready_to_send" => \A j \in DOMAIN next : next[j] = "approved"
  BY <1>1, <1>4, <1>5 DEF InTurn
<1>9. status \in {"pending_approval", "changes_requested", "ready_to_send"}
  BY <1>1
<1> HIDE DEF next, status, chain
<1>10. /\ appr' \in [Versions -> Seq(Decisions)] /\ appr'[offer.cur] = next
       /\ \A v \in Versions \ {offer.cur} : appr'[v] = appr[v]
  BY <1>1, <1>2, <1>3, <1>6
<1>11. offer' \in Offers /\ offer'.st = status /\ offer'.cur = offer.cur
  BY <1>1, <1>3, <1>9 DEF Offers, Effective, Preparing
<1>12. ChainsOK'
  BY <1>1, <1>2, <1>6, <1>7, <1>8, <1>9, <1>10, <1>11 DEF IInv, ChainsOK, Approved, Versions
<1> QED
  BY <1>1, <1>2, <1>9, <1>10, <1>11, <1>12, PreparationStep, KeptIfUnchanged DEF Terminated, Preparing

LEMMA WithdrawOfferStep ==
  ASSUME IInv, WithdrawOffer
  PROVE  IInv'
<1>1. /\ offer.cur # 0 /\ offer.st \notin {"accepted", "withdrawn"} /\ token' = AllRevoked
      /\ offer' = [offer EXCEPT !.st = "withdrawn"]
      /\ UNCHANGED <<app, appr, late, mail, job, worker, inbox, resp, facts>>
  BY DEF WithdrawOffer
<1>2. offer \in Offers /\ TokensKeep(token')
  BY <1>1, Sides, AllRevokedKeeps DEF OfferTypes
<1>3. offer' \in Offers /\ offer'.st = "withdrawn" /\ offer'.cur = offer.cur
  BY <1>1, <1>2 DEF Offers
<1>4. OfferTypes' /\ MailTypes' /\ MailSide'
  BY <1>1, <1>2, <1>3, Sides, QuietMail DEF OfferTypes, MailTypes, TokensKeep
<1>5. ChainsOK' /\ AnswerIsFinal'
  BY <1>1, <1>3 DEF IInv, ChainsOK, AnswerIsFinal
<1>6. OutcomeAgrees' /\ StopHolds' /\ OneActiveToken'
  BY <1>1, <1>2, <1>3, AllRevokedKeeps DEF IInv, OutcomeAgrees, StopHolds, OneActiveToken, Effective, Preparing
<1>7. LinksKept /\ LinksHold
  BY <1>1, <1>2, LinksKeptIf, KeptIfUnchanged
<1>8. LinksOK' /\ AnswerWasApproved'
  <2>1. resp.st # "none" => HasArrived(resp.v)'
    BY <1>1, <1>7, ArrivedKept DEF IInv, AnswerWasApproved, HasArrived
  <2> QED
    BY <1>1, <1>3, <1>7, <2>1 DEF IInv, LinksOK, LinksHold, AnswerWasApproved, HasArrived, Mails
<1> QED
  BY <1>4, <1>5, <1>6, <1>8, Sides DEF OfferSide

LEMMA DeadlinePassesStep ==
  ASSUME IInv, DeadlinePasses
  PROVE  IInv'
<1>1. late' \subseteq Versions /\ UNCHANGED <<app, offer, appr, token, mail, job, worker, inbox, resp, facts>>
  BY Sides DEF DeadlinePasses, OfferTypes
<1> QED
  BY <1>1, Sides, QuietMail, KeptIfUnchanged, LinksKeptIf, OfferSideKept DEF OfferTypes, MailTypes

LEMMA ConfirmExternalStep ==
  ASSUME IInv, ConfirmExternal
  PROVE  IInv'
<1>1. /\ facts' = [items   |-> {[i EXCEPT !.st = "resolved"] : i \in facts.items},
                   history |-> facts.history \cup facts.items]
      /\ UNCHANGED <<app, offer, appr, late, token, mail, job, worker, inbox, resp>>
  BY DEF ConfirmExternal
<1>2. facts' \in Ledgers
  <2>1. facts.items \subseteq Item /\ facts.history \subseteq Item
    BY Sides DEF MailTypes, Ledgers
  <2>2. \A i \in Item : [i EXCEPT !.st = "resolved"] \in Item
    BY DEF Item
  <2> QED
    BY <1>1, <2>1, <2>2 DEF Ledgers
<1> QED
  BY <1>1, <1>2, Sides, QuietMail, KeptIfUnchanged, LinksKeptIf, OfferSideKept DEF OfferTypes

(* The application ends beside its Offer.                                   *)
LEMMA LeaveStep ==
  ASSUME IInv, WithdrawForDeletion \/ BulkReject
  PROVE  IInv'
<1>1. /\ app.stage = "passed" /\ app' = [app EXCEPT !.stage = app'.stage] /\ app'.stage \in {"withdrawn", "rejected"}
      /\ UNCHANGED <<offer, appr, late, token, mail, job, worker, inbox, resp, facts>>
  BY Sides DEF WithdrawForDeletion, BulkReject, OfferTypes, Apps
<1>2. app \in Apps /\ ~app.stopped /\ resp.st = "none"
  BY <1>1, Sides DEF OfferTypes, IInv, AnswerIsFinal
<1>3. app' \in Apps /\ app'.stopped = app.stopped
  BY <1>1, <1>2 DEF Apps
<1>4. OfferTypes' /\ MailTypes' /\ MailSide'
  BY <1>1, <1>3, Sides, QuietMail DEF OfferTypes, MailTypes
<1>5. ChainsOK' /\ AnswerIsFinal' /\ OutcomeAgrees' /\ StopHolds'
  BY <1>1, <1>2, <1>3 DEF IInv, ChainsOK, Approved, InTurn, AnswerIsFinal, OutcomeAgrees, StopHolds
<1>6. LinksOK' /\ AnswerWasApproved' /\ OneActiveToken'
  BY <1>1 DEF IInv, LinksOK, HasArrived, AnswerWasApproved, OneActiveToken
<1> QED
  BY <1>4, <1>5, <1>6, Sides DEF OfferSide

-----------------------------------------------------------------------------
(* The commands that put a mail in the queue.                               *)

LEMMA EnqueuedIs ==
  ASSUME IInv, NEW d \in NewMail, NEW t \in 0..MaxTokens, mail' = Enqueued(d, t), job' = JobQueued(d),
         UNCHANGED <<worker, inbox, facts>>
  PROVE  /\ MailTypes' /\ MailSide'
         /\ d \in Mails /\ mail[d].st = "none" /\ mail'[d].about = t
         /\ \A e \in Mails \ {d} : mail'[e] = mail[e] /\ job'[e] = job[e]
<1> DEFINE row == [NoMail EXCEPT !.st = "queued", !.about = t]
           new == [NoJob EXCEPT !.st = "queued"]
<1>1. d \in Mails /\ mail[d].st = "none" /\ mail \in [Mails -> MailRows] /\ job \in [Mails -> JobRows]
  BY Sides DEF NewMail, MailTypes
<1>2. row \in MailRows /\ row.st = "queued" /\ row.about = t /\ row.tries = 0
  <2>1. NoMail \in MailRows /\ NoMail.tries = 0
    BY ConstantsAssumption DEF NoMail, MailRows
  <2> QED
    BY <2>1 DEF MailRows
<1>3. new \in JobRows /\ new.st = "queued" /\ new.n = 0
  BY ConstantsAssumption DEF NoJob, JobRows
<1>4. mail' = [mail EXCEPT ![d] = row] /\ job' = [job EXCEPT ![d] = new]
  BY DEF Enqueued, JobQueued
<1> HIDE DEF row, new
<1>5. /\ mail' \in [Mails -> MailRows] /\ job' \in [Mails -> JobRows] /\ mail'[d] = row /\ job'[d] = new
      /\ \A e \in Mails \ {d} : mail'[e] = mail[e] /\ job'[e] = job[e]
  BY <1>1, <1>2, <1>3, <1>4
<1>6. MailTypes'
  BY <1>5, Sides DEF MailTypes
<1>7. \A w \in Workers : worker[w].pc # "idle" => worker[w].d # d
  BY <1>1 DEF IInv, WorkersOK, Carries
<1>8. WorkersOK'
  BY <1>1, <1>5, <1>7 DEF IInv, WorkersOK, Carries
<1>9. MailsOK'
  <2>1. Starting(d)' = {} /\ d \notin inbox
    BY <1>1, <1>7 DEF Starting, IInv, MailsOK
  <2>2. IsFiniteSet(Starting(d)') /\ Cardinality(Starting(d)') = 0
    BY <2>1, FS_EmptySet
  <2>3. \A e \in Mails : Starting(e)' = Starting(e)
    BY DEF Starting
  <2>4. ASSUME NEW e \in Mails
        PROVE  /\ mail'[e].st = "none" <=> job'[e].st = "none"
               /\ mail'[e].st = "none" => e \notin inbox' /\ mail'[e] = NoMail /\ job'[e] = NoJob
               /\ job'[e].st = "queued" => job'[e].n < MailAttempts
               /\ IsFiniteSet(Starting(e)') /\ mail'[e].tries + Cardinality(Starting(e)') <= job'[e].n
    <3>1. CASE e = d
      <4>1. mail'[d].tries + Cardinality(Starting(d)') <= job'[d].n
        BY <1>2, <1>3, <1>5, <2>2
      <4>2. job'[d].n < MailAttempts
        BY <1>3, <1>5, ConstantsAssumption
      <4> QED
        BY <1>2, <1>3, <1>5, <2>2, <3>1, <4>1, <4>2
    <3>2. CASE e # d
      BY <1>5, <2>3, <3>2 DEF IInv, MailsOK
    <3> QED
      BY <3>1, <3>2
  <2> QED
    BY <2>4 DEF MailsOK, Mails, NoMail, NoJob, Starting
<1>10. EndedJobEndsMail'
  BY <1>2, <1>3, <1>5 DEF IInv, EndedJobEndsMail, Mails, MailEnds
<1> QED
  BY <1>1, <1>2, <1>5, <1>6, <1>8, <1>9, <1>10 DEF MailSide

LEMMA ResendMailStep ==
  ASSUME IInv, NEW old \in Mails, ResendMail(old)
  PROVE  IInv'
<1>1. UNCHANGED <<app, offer, appr, late, token, worker, inbox, resp, facts>> /\ mail[old].st # "none"
  BY DEF ResendMail
<1>2. PICK d \in NewMail : mail' = Enqueued(d, mail[old].about) /\ job' = JobQueued(d)
  BY DEF ResendMail
<1>3. mail[old].about \in 0..MaxTokens
  BY LinksAreTyped DEF MailRows
<1>4. /\ MailTypes' /\ MailSide'
      /\ d \in Mails /\ mail[d].st = "none" /\ mail'[d].about = mail[old].about
      /\ \A e \in Mails \ {d} : mail'[e] = mail[e]
  BY <1>1, <1>2, <1>3, EnqueuedIs
<1>5. LinksKept /\ LinksHold
  BY <1>1, <1>4 DEF LinksKept, LinksHold, IInv, LinksOK
<1> QED
  BY <1>1, <1>4, <1>5, Sides, OfferSideKept, KeptIfUnchanged DEF OfferTypes

LEMMA SendOfferStep ==
  ASSUME IInv, SendOffer
  PROVE  IInv'
<1>1. /\ ~Terminated /\ offer.st = "ready_to_send"
      /\ UNCHANGED <<app, offer, appr, late, worker, inbox, resp, facts>>
  BY DEF SendOffer
<1>2. PICK t \in NewToken, d \in NewMail :
        /\ token' = [AllRevoked EXCEPT ![t] = [NoToken EXCEPT !.v = offer.cur]]
        /\ mail' = Enqueued(d, t) /\ job' = JobQueued(d)
  BY DEF SendOffer
<1>3. t \in Tokens /\ token[t].v = 0 /\ t \in 0..MaxTokens /\ resp.st = "none" /\ offer.cur \in Versions
  BY <1>1, Unanswered, ConstantsAssumption DEF NewToken, Tokens, Preparing
<1>4. /\ MailTypes' /\ MailSide'
      /\ d \in Mails /\ mail[d].st = "none" /\ mail'[d].about = t
      /\ \A e \in Mails \ {d} : mail'[e] = mail[e]
  BY <1>1, <1>2, <1>3, EnqueuedIs
<1> DEFINE row == [NoToken EXCEPT !.v = offer.cur]
<1>5. row \in TokenRows /\ row.v = offer.cur /\ offer.cur # 0
  <2>1. NoToken \in TokenRows
    BY ConstantsAssumption DEF NoToken, TokenRows
  <2>2. offer.cur \in 0..MaxVersion /\ offer.cur # 0
    BY <1>3, ConstantsAssumption DEF Versions
  <2> QED
    BY <2>1, <2>2 DEF TokenRows
<1> HIDE DEF row
<1>6. AllRevoked \in [Tokens -> TokenRows] /\ token' = [AllRevoked EXCEPT ![t] = row]
  BY <1>2, AllRevokedKeeps DEF TokensKeep, row
<1>7. /\ token' \in [Tokens -> TokenRows] /\ token'[t].v = offer.cur
      /\ \A u \in Tokens \ {t} : token'[u].v = token[u].v /\ (token'[u].v # 0 => token'[u].revoked)
  <2>1. token' \in [Tokens -> TokenRows] /\ token'[t] = row /\ \A u \in Tokens \ {t} : token'[u] = AllRevoked[u]
    BY <1>3, <1>5, <1>6
  <2> QED
    BY <1>5, <2>1, AllRevokedKeeps DEF TokensKeep
<1>8. LinksHold
  BY <1>3, <1>4, <1>5, <1>7, LinksAreTyped DEF LinksHold, IInv, LinksOK
<1>9. OfferTypes'
  BY <1>1, <1>7, Sides DEF OfferTypes
<1>10. ChainsOK' /\ AnswerIsFinal' /\ OutcomeAgrees' /\ StopHolds'
  BY <1>1 DEF IInv, ChainsOK, Approved, InTurn, AnswerIsFinal, OutcomeAgrees, StopHolds, Terminated
<1>11. LinksOK' /\ AnswerWasApproved'
  BY <1>1, <1>3, <1>8 DEF LinksOK, LinksHold, AnswerWasApproved, Mails
<1>12. OneActiveToken'
  BY <1>7 DEF OneActiveToken, Tokens
<1> QED
  BY <1>4, <1>9, <1>10, <1>11, <1>12, Sides DEF OfferSide

LEMMA RespondStep ==
  ASSUME IInv, NEW by \in {"candidate", "proxy"}, NEW decision \in {"accepted", "declined"}, Respond(by, decision)
  PROVE  IInv'
<1>1. /\ resp.st = "none" /\ ~Terminated /\ offer.cur # 0 /\ offer.st = "sent" /\ app.stage = "passed"
      /\ app' = [app EXCEPT !.stage = IF decision = "accepted" THEN "hired" ELSE "withdrawn"]
      /\ offer' = [offer EXCEPT !.st = decision]
      /\ resp' = [st |-> decision, v |-> offer.cur, by |-> by]
      /\ token' = AllRevoked /\ UNCHANGED <<appr, late, worker, inbox, facts>>
  BY DEF Respond
<1>2. app \in Apps /\ offer \in Offers /\ offer.cur \in Versions
  BY <1>1, Sides, Unanswered DEF OfferTypes
<1>3. /\ app' \in Apps /\ app'.stopped = app.stopped
      /\ app'.stage = IF decision = "accepted" THEN "hired" ELSE "withdrawn"
  BY <1>1, <1>2 DEF Apps
<1>4. offer' \in Offers /\ offer'.st = decision /\ offer'.cur = offer.cur
  BY <1>1, <1>2 DEF Offers, Effective
<1>5. resp' \in Answers /\ resp'.st = decision /\ resp'.v = offer.cur
  BY <1>1, <1>2, ConstantsAssumption DEF Answers, Versions
<1>6. TokensKeep(token')
  BY <1>1, AllRevokedKeeps
<1>7. MailTypes' /\ MailSide' /\ LinksKept /\ LinksHold
  <2>1. CASE UNCHANGED <<mail, job>>
    BY <1>1, <1>6, <2>1, Sides, QuietMail, LinksKeptIf, KeptIfUnchanged DEF MailTypes
  <2>2. ASSUME NEW d \in NewMail, mail' = Enqueued(d, 0), job' = JobQueued(d)
        PROVE  MailTypes' /\ MailSide' /\ LinksKept /\ LinksHold
    <3>1. 0 \in 0..MaxTokens
      BY ConstantsAssumption
    <3>2. /\ MailTypes' /\ MailSide' /\ d \in Mails /\ mail[d].st = "none" /\ mail'[d].about = 0
          /\ \A e \in Mails \ {d} : mail'[e] = mail[e]
      BY <1>1, <2>2, <3>1, EnqueuedIs
    <3>3. LinksKept
      BY <1>1, <1>6, <3>2 DEF LinksKept, TokensKeep
    <3>4. LinksHold
      BY <1>6, <3>2, LinksAreTyped DEF LinksHold, TokensKeep, IInv, LinksOK
    <3> QED
      BY <3>2, <3>3, <3>4
  <2> QED
    BY <2>1, <2>2 DEF Respond
<1>8. OfferTypes'
  BY <1>1, <1>3, <1>4, <1>5, <1>6, Sides DEF OfferTypes, TokensKeep
<1>9. ChainsOK' /\ LinksOK'
  BY <1>1, <1>4, <1>7 DEF IInv, ChainsOK, LinksOK, LinksHold, Mails
<1>10. AnswerIsFinal' /\ OutcomeAgrees'
  BY <1>2, <1>3, <1>4, <1>5, <1>1 DEF AnswerIsFinal, OutcomeAgrees, Terminated, Versions
<1>11. AnswerWasApproved'
  <2>1. \E d \in inbox' : mail'[d].about # 0 /\ token'[mail'[d].about].v = offer.cur
    BY <1>1, <1>7, ArrivedKept DEF IInv, LinksOK
  <2> QED
    BY <1>1, <1>5, <2>1 DEF AnswerWasApproved, IInv, ChainsOK, Approved
<1>12. OneActiveToken' /\ StopHolds'
  BY <1>1, <1>3, AllRevokedKeeps DEF OneActiveToken, StopHolds, Terminated
<1> QED
  BY <1>7, <1>8, <1>9, <1>10, <1>11, <1>12, Sides DEF OfferSide

-----------------------------------------------------------------------------
(* The termination.                                                         *)
Cut(chain) == [i \in DOMAIN chain |-> IF chain[i] \in {"waiting", "pending"} THEN "cancelled" ELSE chain[i]]

LEMMA CutIs ==
  ASSUME NEW chain \in Seq(Decisions)
  PROVE  /\ Cut(chain) \in Seq(Decisions) /\ DOMAIN Cut(chain) = DOMAIN chain
         /\ Cut(chain) = <<>> <=> chain = <<>>
         /\ \A i \in DOMAIN chain : /\ Cut(chain)[i] \notin {"waiting", "pending"}
                                    /\ Cut(chain)[i] = "approved" <=> chain[i] = "approved"
<1>1. Len(chain) \in Nat /\ DOMAIN chain = 1..Len(chain) /\ \A i \in DOMAIN chain : chain[i] \in Decisions
  OBVIOUS
<1>2. Cut(chain) \in [1..Len(chain) -> Decisions]
  BY <1>1 DEF Cut, Decisions
<1>3. Cut(chain) \in Seq(Decisions) /\ Len(Cut(chain)) = Len(chain)
  BY <1>1, <1>2
<1>4. Cut(chain) = <<>> <=> chain = <<>>
  BY <1>3, EmptySeq
<1> QED
  BY <1>1, <1>2, <1>3, <1>4 DEF Cut

LEMMA TerminateStep ==
  ASSUME IInv, Terminate
  PROVE  IInv'
<1>1. /\ app.stage \notin {"rejected", "withdrawn"} /\ ~app.stopped
      /\ app' = [stage |-> "withdrawn", stopped |-> TRUE]
      /\ offer' = IF offer.st \in Effective THEN [offer EXCEPT !.st = "withdrawn"] ELSE offer
      /\ appr' = [v \in Versions |-> Cut(appr[v])]
      /\ token' = AllRevoked
      /\ UNCHANGED <<late, job, worker, inbox, resp>>
  BY DEF Terminate, Cut
<1>2. offer \in Offers /\ appr \in [Versions -> Seq(Decisions)]
  BY Sides DEF OfferTypes
<1>3. app' \in Apps /\ app'.stopped /\ app'.stage = "withdrawn"
  BY <1>1 DEF Apps
<1>4. /\ offer' \in Offers /\ offer'.cur = offer.cur /\ offer'.st \in {"none", "declined", "withdrawn"}
      /\ offer'.st = "none" <=> offer.st = "none"
      /\ offer'.st = "declined" => offer.st = "declined"
      /\ offer'.st = "withdrawn" \/ offer' = offer
  BY <1>1, <1>2 DEF Offers, Effective, Preparing
<1>5. /\ appr' \in [Versions -> Seq(Decisions)]
      /\ \A v \in Versions : appr'[v] = Cut(appr[v])
  BY <1>1, <1>2, CutIs
<1>6. TokensKeep(token') /\ \A t \in Tokens : token'[t].v # 0 => token'[t].revoked
  BY <1>1, AllRevokedKeeps
<1>7. MailsKeep(mail') /\ TriesKeep
  <2>1. ASSUME NEW d \in Mails
        PROVE  /\ mail'[d] \in MailRows /\ mail'[d].about = mail[d].about /\ mail'[d].tries = mail[d].tries
               /\ mail'[d] = mail[d] \/ (mail[d].st = "queued" /\ mail'[d].st = "cancelled")
    <3>1. mail'[d] = mail[d] \/ (mail[d].st = "queued" /\ mail'[d] = [mail[d] EXCEPT !.st = "cancelled"])
      BY DEF Terminate
    <3> QED
      BY <3>1, LinksAreTyped DEF MailRows, MailEnds
  <2>2. mail' \in [Mails -> MailRows]
    BY <2>1 DEF Terminate
  <2> QED
    BY <2>1, <2>2 DEF MailsKeep, TriesKeep, MailEnds
<1>8. facts' \in Ledgers
  <2>1. facts \in Ledgers
    BY Sides DEF MailTypes
  <2>2. facts' = [facts EXCEPT !.items =
                    {[d |-> d, gen |-> mail[d].tries, ref |-> 0, st |-> "in_flight"] :
                       d \in {e \in Mails : mail[e].st = "queued" /\ mail[e].flight}}]
    BY DEF Terminate
  <2>3. ASSUME NEW d \in Mails PROVE [d |-> d, gen |-> mail[d].tries, ref |-> 0, st |-> "in_flight"] \in Item
    BY LinksAreTyped, ConstantsAssumption DEF Item, Open, MailRows
  <2>4. {[d |-> d, gen |-> mail[d].tries, ref |-> 0, st |-> "in_flight"] :
                       d \in {e \in Mails : mail[e].st = "queued" /\ mail[e].flight}} \subseteq Item
    BY <2>3
  <2> QED
    BY <2>1, <2>2, <2>4 DEF Ledgers
<1>9. MailSide' /\ MailTypes'
  BY <1>1, <1>7, <1>8, Sides, QuietMail, MailSideKept DEF MailTypes, MailsKeep
<1>10. OfferTypes'
  BY <1>1, <1>3, <1>4, <1>5, <1>6, Sides DEF OfferTypes, TokensKeep
<1>11. ChainsOK'
  <2>1. \A v \in Versions : appr[v] = <<>> => appr'[v] = <<>>
    BY <1>2, <1>5, CutIs
  <2> QED
    BY <1>4, <2>1 DEF IInv, ChainsOK, Versions
<1>12. AnswerIsFinal' /\ OutcomeAgrees'
  BY <1>1, <1>3, <1>4 DEF IInv, AnswerIsFinal, OutcomeAgrees
<1>13. LinksKept /\ LinksHold
  BY <1>1, <1>6, <1>7, LinksKeptIf
<1>14. LinksOK' /\ AnswerWasApproved'
  <2>1. resp.st # "none" => HasArrived(resp.v)'
    BY <1>1, <1>13, ArrivedKept DEF IInv, AnswerWasApproved, HasArrived
  <2>2. resp.st # "none" => appr'[resp.v] # <<>> /\ \A i \in DOMAIN appr'[resp.v] : appr'[resp.v][i] = "approved"
    BY <1>2, <1>5, CutIs DEF IInv, AnswerWasApproved, AnswerIsFinal
  <2> QED
    BY <1>1, <1>4, <1>13, <2>1, <2>2 DEF LinksOK, LinksHold, AnswerWasApproved, HasArrived, Mails
<1>15. OneActiveToken' /\ StopHolds'
  <2>1. \A v \in Versions : \A i \in DOMAIN appr'[v] : appr'[v][i] \notin {"waiting", "pending"}
    BY <1>2, <1>5, CutIs
  <2> QED
    BY <1>4, <1>6, <2>1 DEF OneActiveToken, StopHolds, Tokens, Versions, Effective, Preparing
<1> QED
  BY <1>9, <1>10, <1>11, <1>12, <1>14, <1>15, Sides DEF OfferSide

-----------------------------------------------------------------------------
(* The worker's steps.                                                      *)

LEMMA GotoIs ==
  ASSUME IInv, NEW w \in Workers, NEW pc \in Places, NEW res \in Results, Goto(w, pc, res)
  PROVE  /\ worker' \in [Workers -> Handlers]
         /\ worker'[w].pc = pc /\ worker'[w].res = res /\ worker'[w].d = worker[w].d /\ worker'[w].n = worker[w].n
         /\ \A v \in Workers \ {w} : worker'[v] = worker[v]
<1> DEFINE h == [worker[w] EXCEPT !.pc = pc, !.res = res]
<1>1. worker \in [Workers -> Handlers] /\ worker[w] \in Handlers
  BY Sides DEF MailTypes
<1>2. h \in Handlers /\ h.pc = pc /\ h.res = res /\ h.d = worker[w].d /\ h.n = worker[w].n
  BY <1>1 DEF Handlers
<1>3. worker' = [worker EXCEPT ![w] = h]
  BY <1>1 DEF Goto
<1> HIDE DEF h
<1> QED
  BY <1>1, <1>2, <1>3

LEMMA Carried ==
  ASSUME IInv, NEW w \in Workers, worker[w].pc # "idle"
  PROVE  /\ worker[w] \in Handlers /\ worker[w].d \in Mails /\ mail[worker[w].d].st # "none"
         /\ worker[w].n \in 1..MailAttempts /\ mail[worker[w].d] \in MailRows
<1>1. worker[w] \in Handlers /\ Carries(worker[w])
  BY Sides DEF MailTypes, MailSide, WorkersOK
<1> QED
  BY <1>1, LinksAreTyped, ConstantsAssumption DEF Carries, Handlers

(* Where a handler may go next.                                             *)
LEMMA GotoKeeps ==
  ASSUME IInv, NEW w \in Workers, worker[w].pc # "idle", MailsKeep(mail'),
         NEW pc \in Places \ {"idle", "prepare"}, NEW res \in Results, Goto(w, pc, res),
         pc = "record" => res \in {"accepted", "temporary", "permanent"},
         pc = "record" /\ res = "accepted" => worker[w].d \in inbox',
         pc = "settle" /\ res = "done" => mail'[worker[w].d].st \in MailEnds
  PROVE  HandlersKeep
<1>1. CarriesNext(worker'[w])
  BY GotoIs, Carried DEF CarriesNext, MailsKeep
<1> QED
  BY <1>1, GotoIs DEF HandlersKeep

LEMMA CancelledKeeps ==
  ASSUME IInv, NEW d \in Mails, mail[d].st # "none"
  PROVE  /\ MailsKeep(Cancelled(d)) /\ Cancelled(d)[d].st = "cancelled"
         /\ \A e \in Mails : Cancelled(d)[e].tries = mail[e].tries /\ (e # d => Cancelled(d)[e] = mail[e])
<1> DEFINE row == [mail[d] EXCEPT !.st = "cancelled", !.flight = FALSE]
<1>1. mail \in [Mails -> MailRows] /\ mail[d] \in MailRows
  BY Sides DEF MailTypes
<1>2. row \in MailRows /\ row.st = "cancelled" /\ row.about = mail[d].about /\ row.tries = mail[d].tries
  BY <1>1 DEF MailRows, MailEnds
<1>3. Cancelled(d) = [mail EXCEPT ![d] = row]
  BY <1>1 DEF Cancelled
<1> HIDE DEF row
<1> QED
  BY <1>1, <1>2, <1>3 DEF MailsKeep, MailEnds

LEMMA FailedKeeps ==
  ASSUME IInv, NEW d \in Mails, mail[d].st # "none"
  PROVE  /\ MailsKeep(Failed(mail, d)) /\ Failed(mail, d)[d].st \in MailEnds
         /\ \A e \in Mails : Failed(mail, d)[e].tries = mail[e].tries /\ (e # d => Failed(mail, d)[e] = mail[e])
<1> DEFINE row == [mail[d] EXCEPT !.st = "failed", !.flight = FALSE]
<1>1. mail \in [Mails -> MailRows] /\ mail[d] \in MailRows
  BY Sides DEF MailTypes
<1>2. row \in MailRows /\ row.st = "failed" /\ row.about = mail[d].about /\ row.tries = mail[d].tries
  BY <1>1 DEF MailRows, MailEnds
<1>3. CASE mail[d].st \in MailEnds
  BY <1>3, KeptIfUnchanged DEF Failed
<1>4. CASE mail[d].st \notin MailEnds
  <2>1. Failed(mail, d) = [mail EXCEPT ![d] = row]
    BY <1>1, <1>4 DEF Failed
  <2> HIDE DEF row
  <2> QED
    BY <1>1, <1>2, <2>1 DEF MailsKeep, MailEnds
<1> QED
  BY <1>3, <1>4

LEMMA UnlinkedKeeps ==
  ASSUME IInv, NEW d \in Mails
  PROVE  TokensKeep(Unlinked(mail, d))
<1>1. CASE Unlinked(mail, d) = token
  BY <1>1, KeptIfUnchanged
<1>2. CASE Unlinked(mail, d) # token
  <2> DEFINE t == mail[d].about
             row == [token[t] EXCEPT !.revoked = TRUE]
  <2>1. t \in Tokens /\ Unlinked(mail, d) = [token EXCEPT ![t].revoked = TRUE]
    BY <1>2, LinksAreTyped DEF Unlinked
  <2> HIDE DEF t
  <2>2. token \in [Tokens -> TokenRows] /\ token[t] \in TokenRows
    BY <2>1, Sides DEF OfferTypes
  <2>3. row \in TokenRows /\ row.v = token[t].v /\ row.revoked
    BY <2>2 DEF TokenRows
  <2>4. Unlinked(mail, d) = [token EXCEPT ![t] = row]
    BY <2>1, <2>2
  <2> HIDE DEF row
  <2> QED
    BY <2>1, <2>2, <2>3, <2>4 DEF TokensKeep
<1> QED
  BY <1>1, <1>2

LEMMA IdleKeeps ==
  ASSUME IInv, NEW w \in Workers, worker' = [worker EXCEPT ![w] = Idle]
  PROVE  HandlersKeep
<1>1. Idle \in Handlers /\ Idle.pc = "idle"
  BY ConstantsAssumption DEF Idle, Handlers, Places, Results
<1> QED
  BY <1>1, Sides DEF MailTypes, HandlersKeep

(* A step of a handler that leaves the Offer alone.                         *)
LEMMA HandlerStep ==
  ASSUME IInv, UNCHANGED <<app, offer, appr, late, resp>>, MailsKeep(mail'), TokensKeep(token'), TriesKeep,
         HandlersKeep, JobsKeep, InboxKeeps, facts' \in Ledgers
  PROVE  IInv'
<1>1. OfferTypes' /\ MailTypes'
  BY Sides DEF OfferTypes, MailTypes, MailsKeep, TokensKeep, HandlersKeep, JobsKeep, InboxKeeps
<1>2. OfferSide'
  BY LinksKeptIf, OfferSideKept DEF InboxKeeps
<1> QED
  BY <1>1, <1>2, MailSideKept, Sides

(* The ledger takes one item for one attempt, and touches no other mail.    *)
LEMMA RecordedIs ==
  ASSUME IInv, NEW d \in Mails, NEW st \in Open \cup {"needs_action", "resolved"}, NEW ref \in 0..MailAttempts,
         facts' = Recorded(d, st, ref)
  PROVE  /\ facts' \in Ledgers
         /\ \A i \in facts.items : i.d # d => i \in facts'.items
         /\ app.stopped /\ ref # 0 /\ st = "needs_action"
              => \E i \in facts'.items \cup facts'.history : i.d = d /\ i.ref # 0
<1> DEFINE new == [d |-> d, gen |-> mail[d].tries, ref |-> ref, st |-> st]
           items == WithFact(facts.items, facts.history, new)
<1>1. facts \in Ledgers /\ mail[d] \in MailRows
  BY Sides, LinksAreTyped DEF MailTypes
<1>2. new \in Item
  BY <1>1 DEF Item, MailRows
<1>3. /\ items = facts.items \/ new \in items
      /\ items \subseteq facts.items \cup {new} /\ \A i \in facts.items : i.d # d => i \in items
  BY DEF WithFact, SameIdentity
<1>4. st = "needs_action" => new \in items \/ \E h \in facts.history : h.d = d /\ h.ref = ref
  BY DEF WithFact, SameIdentity, Open
<1>5. CASE ~app.stopped
  BY <1>1, <1>5 DEF Recorded
<1>6. CASE app.stopped
  <2>1. facts' = [facts EXCEPT !.items = items]
    BY <1>6 DEF Recorded
  <2> HIDE DEF items
  <2>2. facts'.items = items /\ facts'.history = facts.history /\ facts' \in Ledgers
    BY <1>1, <1>2, <1>3, <2>1 DEF Ledgers
  <2> QED
    BY <1>3, <1>4, <2>2
<1> QED
  BY <1>5, <1>6

LEMMA PrepareStep ==
  ASSUME IInv, NEW w \in Workers, Prepare(w)
  PROVE  IInv'
<1> DEFINE d == worker[w].d
<1>1. worker[w].pc = "prepare" /\ UNCHANGED <<app, offer, appr, late, job, inbox, resp, facts>>
  BY DEF Prepare, AtStep
<1>2. d \in Mails /\ mail[d].st # "none" /\ mail[d] \in MailRows /\ facts' \in Ledgers
  BY <1>1, Carried, Sides DEF MailTypes
<1>3. CASE mail[d].st \in {"sent", "cancelled"} /\ Goto(w, "settle", "done") /\ UNCHANGED <<mail, token>>
  <2>1. HandlersKeep
    BY <1>1, <1>3, GotoKeeps, KeptIfUnchanged DEF Places, Results, MailEnds
  <2> QED
    BY <1>1, <1>2, <1>3, <2>1, HandlerStep, QuietMail, KeptIfUnchanged
<1>4. CASE mail' = Cancelled(d) /\ Goto(w, "settle", "done") /\ UNCHANGED token
  <2>1. MailsKeep(mail') /\ TriesKeep /\ mail'[d].st \in MailEnds
    BY <1>2, <1>4, CancelledKeeps DEF TriesKeep, MailEnds
  <2>2. HandlersKeep
    BY <1>1, <1>4, <2>1, GotoKeeps DEF Places, Results
  <2> QED
    BY <1>1, <1>2, <1>4, <2>1, <2>2, HandlerStep, QuietMail, KeptIfUnchanged
<1>5. CASE Goto(w, "settle", "dead") /\ UNCHANGED <<mail, token>>
  <2>1. HandlersKeep
    BY <1>1, <1>5, GotoKeeps, KeptIfUnchanged DEF Places, Results
  <2> QED
    BY <1>1, <1>2, <1>5, <2>1, HandlerStep, QuietMail, KeptIfUnchanged
<1>6. CASE mail' = Failed(mail, d) /\ token' = Unlinked(mail, d) /\ Goto(w, "settle", "dead")
  <2>1. MailsKeep(mail') /\ TriesKeep /\ TokensKeep(token')
    BY <1>2, <1>6, FailedKeeps, UnlinkedKeeps DEF TriesKeep
  <2>2. HandlersKeep
    BY <1>1, <1>6, <2>1, GotoKeeps DEF Places, Results
  <2> QED
    BY <1>1, <1>2, <2>1, <2>2, HandlerStep, QuietMail
<1>7. CASE /\ mail[d].st = "queued" /\ mail' = [mail EXCEPT ![d].tries = @ + 1] /\ Goto(w, "recheck", "none")
           /\ UNCHANGED token
  <2>1. /\ IsFiniteSet(Starting(d)) /\ w \in Starting(d) /\ mail[d].tries + Cardinality(Starting(d)) <= job[d].n
        /\ job[d].n \in 0..MailAttempts /\ mail[d].tries \in Nat
    BY <1>1, <1>2, LinksAreTyped DEF Starting, IInv, MailsOK, JobRows, MailRows
  <2>2. /\ worker' \in [Workers -> Handlers] /\ worker'[w].pc = "recheck" /\ worker'[w].d = d
        /\ \A v \in Workers \ {w} : worker'[v] = worker[v]
    BY <1>7, GotoIs DEF Places, Results
  <2>3. \A e \in Mails : Starting(e)' = IF e = d THEN Starting(e) \ {w} ELSE Starting(e)
    BY <1>1, <2>2 DEF Starting
  <2>4. ASSUME NEW e \in Mails, e = d
        PROVE  IsFiniteSet(Starting(e)') /\ mail[e].tries + 1 + Cardinality(Starting(e)') <= job[e].n
    <3>1. IsFiniteSet(Starting(e)) /\ Starting(e)' = Starting(e) \ {w} /\ w \in Starting(e)
      BY <2>1, <2>3, <2>4
    <3>2. /\ IsFiniteSet(Starting(e)') /\ Cardinality(Starting(e)') = Cardinality(Starting(e)) - 1
          /\ Cardinality(Starting(e)) \in Nat
      BY <3>1, FS_RemoveElement, FS_CardinalityType
    <3>3. mail[e].tries + Cardinality(Starting(e)) <= job[e].n /\ mail[e].tries \in Nat /\ job[e].n \in Nat
      BY <2>1, <2>4
    <3> QED
      BY <3>2, <3>3
  <2>5. mail[d].tries + 1 \in 0..MailAttempts
    <3>1. Cardinality(Starting(d)) \in Nat /\ Starting(d) # {}
      BY <2>1, FS_CardinalityType
    <3>2. Cardinality(Starting(d)) # 0
      BY <2>1, <3>1, FS_EmptySet
    <3> QED
      BY <2>1, <3>1, <3>2, ConstantsAssumption
  <2> DEFINE row == [mail[d] EXCEPT !.tries = mail[d].tries + 1]
  <2>6. row \in MailRows /\ row.tries = mail[d].tries + 1 /\ row.st = mail[d].st /\ row.about = mail[d].about
    BY <1>2, <2>5 DEF MailRows
  <2>7. mail \in [Mails -> MailRows] /\ mail' = [mail EXCEPT ![d] = row]
    BY <1>2, <1>7, Sides DEF MailTypes
  <2> HIDE DEF row
  <2>8. mail' \in [Mails -> MailRows] /\ mail'[d] = row /\ \A e \in Mails \ {d} : mail'[e] = mail[e]
    BY <1>2, <2>6, <2>7
  <2>9. MailsKeep(mail')
    BY <1>2, <2>6, <2>8 DEF MailsKeep
  <2>10. HandlersKeep
    BY <1>1, <1>7, <2>9, GotoKeeps DEF Places, Results
  <2>11. MailsOK'
    <3>1. ASSUME NEW e \in Mails
          PROVE  /\ mail'[e].st = "none" <=> job'[e].st = "none"
                 /\ mail'[e].st = "none" => e \notin inbox' /\ mail'[e] = NoMail /\ job'[e] = NoJob
                 /\ job'[e].st = "queued" => job'[e].n < MailAttempts
                 /\ IsFiniteSet(Starting(e)') /\ mail'[e].tries + Cardinality(Starting(e)') <= job'[e].n
      <4>1. CASE e = d
        <5>1. mail'[d].tries = mail[d].tries + 1 /\ mail'[d].st = mail[d].st /\ job' = job
          BY <1>1, <2>6, <2>8
        <5>2. IsFiniteSet(Starting(e)') /\ mail'[e].tries + Cardinality(Starting(e)') <= job'[e].n
          BY <2>4, <4>1, <5>1
        <5> QED
          BY <1>2, <4>1, <5>1, <5>2 DEF IInv, MailsOK
      <4>2. CASE e # d
        BY <1>1, <2>3, <2>8, <4>2 DEF IInv, MailsOK
      <4> QED
        BY <4>1, <4>2
    <3> QED
      BY <3>1 DEF MailsOK, Mails, NoMail, NoJob, Starting
  <2>12. JobsKeep /\ InboxKeeps /\ TokensKeep(token')
    BY <1>1, <1>7, QuietMail, KeptIfUnchanged
  <2>13. OfferTypes' /\ MailTypes'
    BY <1>1, <1>2, <1>7, <2>2, <2>8, Sides DEF OfferTypes, MailTypes
  <2>14. OfferSide'
    BY <1>1, <2>9, <2>12, LinksKeptIf, OfferSideKept DEF InboxKeeps
  <2>15. MailSide'
    BY <2>9, <2>10, <2>11, <2>12, WorkersKept, EndsKept DEF MailSide, InboxKeeps
  <2> QED
    BY <2>13, <2>14, <2>15, Sides
<1> QED
  BY <1>3, <1>4, <1>5, <1>6, <1>7 DEF Prepare

LEMMA RecheckStep ==
  ASSUME IInv, NEW w \in Workers, Recheck(w)
  PROVE  IInv'
<1> DEFINE d == worker[w].d
<1>1. worker[w].pc = "recheck" /\ UNCHANGED <<app, offer, appr, late, token, job, inbox, resp, facts>>
  BY DEF Recheck, AtStep
<1>2. d \in Mails /\ mail[d].st # "none" /\ mail[d] \in MailRows /\ facts' \in Ledgers
  BY <1>1, Carried, Sides DEF MailTypes
<1>3. CASE mail[d].st # "queued" /\ UNCHANGED mail /\ Goto(w, "settle", "done")
  <2>1. mail[d].st \in MailEnds
    BY <1>2, <1>3 DEF MailRows
  <2>2. HandlersKeep
    BY <1>1, <1>3, <2>1, GotoKeeps, KeptIfUnchanged DEF Places, Results
  <2> QED
    BY <1>1, <1>2, <1>3, <2>2, HandlerStep, QuietMail, KeptIfUnchanged
<1>4. CASE mail' = Cancelled(d) /\ Goto(w, "settle", "done")
  <2>1. MailsKeep(mail') /\ TriesKeep /\ mail'[d].st \in MailEnds
    BY <1>2, <1>4, CancelledKeeps DEF TriesKeep, MailEnds
  <2>2. HandlersKeep
    BY <1>1, <1>4, <2>1, GotoKeeps DEF Places, Results
  <2> QED
    BY <1>1, <1>2, <2>1, <2>2, HandlerStep, QuietMail, KeptIfUnchanged
<1>5. CASE mail[d].st = "queued" /\ mail' = [mail EXCEPT ![d].flight = TRUE] /\ Goto(w, "smtp", "none")
  <2> DEFINE row == [mail[d] EXCEPT !.flight = TRUE]
  <2>1. row \in MailRows /\ row.tries = mail[d].tries /\ row.st = mail[d].st /\ row.about = mail[d].about
    BY <1>2 DEF MailRows
  <2>2. mail \in [Mails -> MailRows] /\ mail' = [mail EXCEPT ![d] = row]
    BY <1>2, <1>5, Sides DEF MailTypes
  <2> HIDE DEF row
  <2>3. MailsKeep(mail') /\ TriesKeep
    BY <1>2, <2>1, <2>2 DEF MailsKeep, TriesKeep
  <2>4. HandlersKeep
    BY <1>1, <1>5, <2>3, GotoKeeps DEF Places, Results
  <2> QED
    BY <1>1, <1>2, <2>3, <2>4, HandlerStep, QuietMail, KeptIfUnchanged
<1> QED
  BY <1>3, <1>4, <1>5 DEF Recheck

LEMMA SmtpStep ==
  ASSUME IInv, NEW w \in Workers, Smtp(w)
  PROVE  IInv'
<1> DEFINE d == worker[w].d
<1>1. worker[w].pc = "smtp" /\ UNCHANGED <<app, offer, appr, late, token, mail, job, resp, facts>>
  BY DEF Smtp, AtStep
<1>2. d \in Mails /\ mail[d].st # "none" /\ facts' \in Ledgers
  BY <1>1, Carried, Sides DEF MailTypes
<1>3. PICK res \in {"accepted", "temporary", "permanent"} :
        Goto(w, "record", res) /\ inbox' \in {inbox, inbox \cup {d}} /\ (res = "accepted" => d \in inbox')
  BY DEF Smtp
<1>4. InboxKeeps
  BY <1>2, <1>3, QuietMail, Sides DEF InboxKeeps, MailTypes, MailSide, MailsOK
<1>5. HandlersKeep
  BY <1>1, <1>3, GotoKeeps, KeptIfUnchanged DEF Places, Results
<1> QED
  BY <1>1, <1>2, <1>4, <1>5, HandlerStep, QuietMail, KeptIfUnchanged

(* The mail was accepted: the Offer becomes sent if it is still the one     *)
(* that was approved and mailed.                                            *)
LEMMA RecordAcceptedStep ==
  ASSUME IInv, NEW w \in Workers, RecordAccepted(w)
  PROVE  IInv'
<1> DEFINE d == worker[w].d
           t == mail[d].about
           live == t # 0 /\ ~token[t].revoked /\ offer.st = "ready_to_send"
                         /\ offer.cur = token[t].v /\ ~Terminated
<1>1. /\ worker[w].pc = "record" /\ worker[w].res = "accepted" /\ facts' = Recorded(d, "needs_action", worker[w].n)
      /\ token' = IF t = 0 THEN token ELSE [token EXCEPT ![t].delivered = TRUE]
      /\ offer' = IF live THEN [offer EXCEPT !.st = "sent"] ELSE offer
      /\ mail' = [mail EXCEPT ![d].st = "sent", ![d].flight = FALSE] /\ Goto(w, "settle", "done")
      /\ UNCHANGED <<app, appr, late, job, inbox, resp>>
  BY DEF RecordAccepted, AtStep
<1>2. /\ d \in Mails /\ mail[d].st # "none" /\ mail[d] \in MailRows /\ worker[w].n \in 1..MailAttempts
      /\ d \in inbox /\ (t # 0 => t \in Tokens)
  BY <1>1, Carried, LinksAreTyped DEF IInv, WorkersOK, Carries
<1>3. facts' \in Ledgers
  BY <1>1, <1>2, RecordedIs, ConstantsAssumption
<1>4. MailsKeep(mail') /\ TriesKeep /\ mail'[d].st = "sent"
  <2> DEFINE row == [mail[d] EXCEPT !.st = "sent", !.flight = FALSE]
  <2>1. row \in MailRows /\ row.st = "sent" /\ row.about = mail[d].about /\ row.tries = mail[d].tries
    BY <1>2 DEF MailRows, MailEnds
  <2>2. mail \in [Mails -> MailRows] /\ mail' = [mail EXCEPT ![d] = row]
    BY <1>1, <1>2, Sides DEF MailTypes
  <2> HIDE DEF row
  <2> QED
    BY <1>2, <2>1, <2>2 DEF MailsKeep, TriesKeep, MailEnds
<1>5. TokensKeep(token')
  <2>1. CASE t = 0
    BY <1>1, <2>1, KeptIfUnchanged
  <2>2. CASE t # 0
    <3> DEFINE row == [token[t] EXCEPT !.delivered = TRUE]
    <3>1. token \in [Tokens -> TokenRows] /\ token[t] \in TokenRows
      BY <1>2, <2>2, Sides DEF OfferTypes
    <3>2. row \in TokenRows /\ row.v = token[t].v /\ row.revoked = token[t].revoked
      BY <3>1 DEF TokenRows
    <3>3. token' = [token EXCEPT ![t] = row]
      BY <1>1, <2>2, <3>1
    <3> HIDE DEF row, t
    <3> QED
      BY <1>2, <2>2, <3>1, <3>2, <3>3 DEF TokensKeep
  <2> QED
    BY <2>1, <2>2
<1>6. HandlersKeep
  BY <1>1, <1>4, GotoKeeps DEF Places, Results, MailEnds
<1>7. JobsKeep /\ InboxKeeps
  BY <1>1, QuietMail
<1>8. CASE ~live
  BY <1>1, <1>3, <1>4, <1>5, <1>6, <1>7, <1>8, HandlerStep
<1>9. CASE live
  <2>1. offer \in Offers /\ offer' = [offer EXCEPT !.st = "sent"]
    BY <1>1, <1>9, Sides DEF OfferTypes
  <2>2. offer' \in Offers /\ offer'.st = "sent" /\ offer'.cur = offer.cur
    BY <2>1 DEF Offers, Effective
  <2>3. OfferTypes' /\ MailTypes' /\ MailSide'
    BY <1>1, <1>3, <1>4, <1>5, <1>6, <1>7, <2>2, Sides, MailSideKept
    DEF OfferTypes, MailTypes, MailsKeep, TokensKeep, HandlersKeep, JobsKeep, InboxKeeps
  <2>4. resp.st = "none" /\ ~app.stopped
    BY <1>9, Unanswered DEF Preparing, Terminated
  <2>5. ChainsOK'
    BY <1>1, <1>9, <2>2 DEF IInv, ChainsOK, Approved
  <2>6. AnswerIsFinal' /\ AnswerWasApproved' /\ OutcomeAgrees' /\ StopHolds'
    BY <1>1, <1>9, <2>2, <2>4 DEF IInv, AnswerIsFinal, AnswerWasApproved, OutcomeAgrees, StopHolds
  <2>7. LinksOK'
    <3>1. LinksHold
      BY <1>4, <1>5, <1>7, LinksKeptIf DEF InboxKeeps
    <3>2. HasArrived(offer.cur)'
      <4>1. d \in inbox' /\ mail'[d].about = t /\ t # 0 /\ token'[t].v = offer'.cur
        BY <1>1, <1>2, <1>4, <1>5, <1>9, <2>2 DEF MailsKeep, TokensKeep
      <4> QED
        BY <4>1 DEF HasArrived
    <3> QED
      BY <3>1, <3>2 DEF LinksOK, LinksHold, Mails
  <2>8. OneActiveToken'
    BY <1>5 DEF IInv, OneActiveToken, TokensKeep, Tokens
  <2> QED
    BY <2>3, <2>5, <2>6, <2>7, <2>8, Sides DEF OfferSide
<1> QED
  BY <1>8, <1>9

(* The mail was not accepted, or nobody knows: what becomes of it.          *)
LEMMA RecordFailureStep ==
  ASSUME IInv, NEW w \in Workers, RecordTemporary(w) \/ RecordPermanent(w)
  PROVE  IInv'
<1> DEFINE d == worker[w].d
<1>1. worker[w].pc = "record" /\ UNCHANGED <<app, offer, appr, late, job, inbox, resp>>
  BY DEF RecordTemporary, RecordPermanent, AtStep
<1>2. d \in Mails /\ mail[d].st # "none" /\ mail[d] \in MailRows
  BY <1>1, Carried
<1>3. facts' \in Ledgers
  <2>1. facts' = Recorded(d, "unknown", 0) \/ facts' = Recorded(d, "resolved", 0)
    BY DEF RecordTemporary, RecordPermanent
  <2>2. 0 \in 0..MailAttempts
    BY ConstantsAssumption
  <2> QED
    BY <1>2, <2>1, <2>2, RecordedIs DEF Open
<1>4. CASE mail' = Cancelled(d) /\ UNCHANGED token /\ Goto(w, "settle", "done")
  <2>1. MailsKeep(mail') /\ TriesKeep /\ mail'[d].st \in MailEnds
    BY <1>2, <1>4, CancelledKeeps DEF TriesKeep, MailEnds
  <2>2. HandlersKeep
    BY <1>1, <1>4, <2>1, GotoKeeps DEF Places, Results
  <2> QED
    BY <1>1, <1>3, <1>4, <2>1, <2>2, HandlerStep, QuietMail, KeptIfUnchanged
<1>5. CASE mail' = Failed(mail, d) /\ token' = Unlinked(mail, d) /\ Goto(w, "settle", "dead")
  <2>1. MailsKeep(mail') /\ TriesKeep /\ TokensKeep(token')
    BY <1>2, <1>5, FailedKeeps, UnlinkedKeeps DEF TriesKeep
  <2>2. HandlersKeep
    BY <1>1, <1>5, <2>1, GotoKeeps DEF Places, Results
  <2> QED
    BY <1>1, <1>3, <2>1, <2>2, HandlerStep, QuietMail
<1>6. CASE /\ UNCHANGED token /\ Goto(w, "settle", "retry")
           /\ mail' = IF mail[d].st = "queued" THEN [mail EXCEPT ![d].flight = FALSE] ELSE mail
  <2>1. MailsKeep(mail') /\ TriesKeep
    <3>1. CASE mail' = mail
      BY <3>1, QuietMail
    <3>2. CASE mail' # mail
      <4> DEFINE row == [mail[d] EXCEPT !.flight = FALSE]
      <4>1. row \in MailRows /\ row.tries = mail[d].tries /\ row.st = mail[d].st /\ row.about = mail[d].about
        BY <1>2 DEF MailRows
      <4>2. mail \in [Mails -> MailRows] /\ mail' = [mail EXCEPT ![d] = row]
        BY <1>2, <1>6, <3>2, Sides DEF MailTypes
      <4> HIDE DEF row
      <4> QED
        BY <1>2, <4>1, <4>2 DEF MailsKeep, TriesKeep
    <3> QED
      BY <3>1, <3>2
  <2>2. HandlersKeep
    BY <1>1, <1>6, <2>1, GotoKeeps DEF Places, Results
  <2> QED
    BY <1>1, <1>3, <1>6, <2>1, <2>2, HandlerStep, QuietMail, KeptIfUnchanged
<1> QED
  BY <1>4, <1>5, <1>6 DEF RecordTemporary, RecordPermanent

-----------------------------------------------------------------------------
(* The queue.                                                               *)

LEMMA JobMovesTo ==
  ASSUME IInv, NEW d \in Mails, job[d].st = "running", NEW st \in {"queued", "done", "dead"},
         st = "queued" => job[d].n < MailAttempts, st \in {"done", "dead"} => mail'[d].st \in MailEnds,
         job' = [job EXCEPT ![d].st = st]
  PROVE  JobsKeep
<1> DEFINE row == [job[d] EXCEPT !.st = st]
<1>1. job \in [Mails -> JobRows] /\ job[d] \in JobRows
  BY Sides DEF MailTypes
<1>2. row \in JobRows /\ row.st = st /\ row.n = job[d].n
  BY <1>1 DEF JobRows
<1>3. job' = [job EXCEPT ![d] = row]
  BY <1>1
<1> HIDE DEF row
<1>4. job' \in [Mails -> JobRows] /\ job'[d] = row /\ \A e \in Mails \ {d} : job'[e] = job[e]
  BY <1>1, <1>2, <1>3
<1> QED
  BY <1>2, <1>4 DEF JobsKeep, IInv, MailsOK

LEMMA DiesKeeps ==
  ASSUME IInv, NEW d \in Mails, job[d].st = "running", Dies(d)
  PROVE  JobsKeep /\ MailsKeep(mail') /\ TriesKeep /\ TokensKeep(token')
<1>1. mail[d].st # "none"
  BY DEF IInv, MailsOK
<1>2. MailsKeep(mail') /\ TriesKeep /\ TokensKeep(token') /\ mail'[d].st \in MailEnds
  BY <1>1, FailedKeeps, UnlinkedKeeps DEF Dies, TriesKeep
<1> QED
  BY <1>2, JobMovesTo DEF Dies

LEMMA SettleStep ==
  ASSUME IInv, NEW w \in Workers, Settle(w)
  PROVE  IInv'
<1> DEFINE d == worker[w].d
<1>1. /\ worker[w].pc = "settle" /\ worker' = [worker EXCEPT ![w] = Idle]
      /\ UNCHANGED <<app, offer, appr, late, inbox, resp, facts>>
  BY DEF Settle, AtStep
<1>2. d \in Mails /\ facts' \in Ledgers /\ (worker[w].res = "done" => mail[d].st \in MailEnds)
  BY <1>1, Carried, Sides DEF MailTypes, IInv, WorkersOK, Carries
<1>3. HandlersKeep
  BY <1>1, IdleKeeps
<1>4. CASE UNCHANGED <<job, mail, token>>
  BY <1>1, <1>2, <1>3, <1>4, HandlerStep, QuietMail, KeptIfUnchanged
<1>5. CASE /\ job[d].st = "running" /\ worker[w].res = "done"
           /\ job' = [job EXCEPT ![d].st = "done"] /\ UNCHANGED <<mail, token>>
  BY <1>1, <1>2, <1>3, <1>5, JobMovesTo, HandlerStep, QuietMail, KeptIfUnchanged
<1>6. CASE /\ job[d].st = "running" /\ job[d].n < MailAttempts
           /\ job' = [job EXCEPT ![d].st = "queued"] /\ UNCHANGED <<mail, token>>
  BY <1>1, <1>2, <1>3, <1>6, JobMovesTo, HandlerStep, QuietMail, KeptIfUnchanged
<1>7. CASE job[d].st = "running" /\ Dies(d)
  BY <1>1, <1>2, <1>3, <1>7, DiesKeeps, HandlerStep, QuietMail
<1> QED
  BY <1>4, <1>5, <1>6, <1>7 DEF Settle

LEMMA LoseLeaseStep ==
  ASSUME IInv, NEW d \in Mails, LoseLease(d)
  PROVE  IInv'
<1>1. /\ job[d].st = "running" /\ facts' \in Ledgers
      /\ UNCHANGED <<app, offer, appr, late, worker, inbox, resp, facts>>
  BY Sides DEF LoseLease, MailTypes
<1>2. CASE /\ job[d].n < MailAttempts
           /\ job' = [job EXCEPT ![d].st = "queued"] /\ UNCHANGED <<mail, token>>
  BY <1>1, <1>2, JobMovesTo, HandlerStep, QuietMail, KeptIfUnchanged
<1>3. CASE Dies(d)
  BY <1>1, <1>3, DiesKeeps, HandlerStep, QuietMail
<1> QED
  BY <1>2, <1>3 DEF LoseLease

LEMMA CrashStep ==
  ASSUME IInv, NEW w \in Workers, Crash(w)
  PROVE  IInv'
<1>1. /\ worker' = [worker EXCEPT ![w] = Idle] /\ facts' \in Ledgers
      /\ UNCHANGED <<app, offer, appr, late, token, mail, job, inbox, resp, facts>>
  BY Sides DEF Crash, MailTypes
<1> QED
  BY <1>1, IdleKeeps, HandlerStep, QuietMail, KeptIfUnchanged

LEMMA TakeMailStep ==
  ASSUME IInv, NEW w \in Workers, NEW d \in Mails, TakeMail(w, d)
  PROVE  IInv'
<1> DEFINE row == [st |-> "running", n |-> job[d].n + 1]
           h == [pc |-> "prepare", d |-> d, n |-> job[d].n + 1, res |-> "none"]
<1>1. /\ worker[w].pc = "idle" /\ job[d].st = "queued" /\ job' = [job EXCEPT ![d] = row]
      /\ worker' = [worker EXCEPT ![w] = h]
      /\ UNCHANGED <<app, offer, appr, late, token, mail, inbox, resp, facts>>
  BY DEF TakeMail
<1>2. /\ job \in [Mails -> JobRows] /\ worker \in [Workers -> Handlers] /\ job[d].n \in Nat /\ job[d].n < MailAttempts
      /\ mail[d].st # "none" /\ mail[d] \in MailRows
  BY <1>1, Sides, LinksAreTyped DEF MailTypes, MailSide, MailsOK, JobRows
<1>3. row \in JobRows /\ row.st = "running" /\ row.n = job[d].n + 1
  BY <1>2, ConstantsAssumption DEF JobRows
<1>4. h \in Handlers /\ h.pc = "prepare" /\ h.d = d /\ h.n = job[d].n + 1 /\ h.n # 0
  BY <1>2, ConstantsAssumption DEF Handlers, Places, Results
<1> HIDE DEF row, h
<1>5. /\ job' \in [Mails -> JobRows] /\ job'[d] = row /\ \A e \in Mails \ {d} : job'[e] = job[e]
      /\ worker' \in [Workers -> Handlers] /\ worker'[w] = h /\ \A v \in Workers \ {w} : worker'[v] = worker[v]
  BY <1>1, <1>2, <1>3, <1>4
<1>6. OfferTypes' /\ MailTypes'
  BY <1>1, <1>5, Sides DEF OfferTypes, MailTypes
<1>7. OfferSide'
  BY <1>1, KeptIfUnchanged, LinksKeptIf, OfferSideKept
<1>8. WorkersOK' /\ EndedJobEndsMail'
  BY <1>1, <1>2, <1>3, <1>4, <1>5 DEF IInv, WorkersOK, Carries, EndedJobEndsMail, Mails, MailEnds
<1>9. MailsOK'
  <2>1. Starting(d)' = Starting(d) \cup {w} /\ w \notin Starting(d) /\ \A e \in Mails \ {d} : Starting(e)' = Starting(e)
    BY <1>1, <1>4, <1>5 DEF Starting
  <2>2. /\ IsFiniteSet(Starting(d)) /\ mail[d].tries + Cardinality(Starting(d)) <= job[d].n
        /\ mail[d].tries \in Nat
    BY <1>2 DEF IInv, MailsOK, MailRows
  <2>3. /\ IsFiniteSet(Starting(d)') /\ Cardinality(Starting(d)') = Cardinality(Starting(d)) + 1
        /\ Cardinality(Starting(d)) \in Nat
    BY <2>1, <2>2, FS_AddElement, FS_CardinalityType
  <2>4. IsFiniteSet(Starting(d)') /\ mail'[d].tries + Cardinality(Starting(d)') <= job'[d].n
    BY <1>1, <1>2, <1>3, <1>5, <2>2, <2>3
  <2>5. ASSUME NEW e \in Mails
        PROVE  /\ mail'[e].st = "none" <=> job'[e].st = "none"
               /\ mail'[e].st = "none" => e \notin inbox' /\ mail'[e] = NoMail /\ job'[e] = NoJob
               /\ job'[e].st = "queued" => job'[e].n < MailAttempts
               /\ IsFiniteSet(Starting(e)') /\ mail'[e].tries + Cardinality(Starting(e)') <= job'[e].n
    <3>1. CASE e = d
      BY <1>1, <1>2, <1>3, <1>5, <2>4, <3>1
    <3>2. CASE e # d
      BY <1>1, <1>5, <2>1, <3>2 DEF IInv, MailsOK
    <3> QED
      BY <3>1, <3>2
  <2> QED
    BY <2>5 DEF MailsOK, Mails, NoMail, NoJob, Starting
<1> QED
  BY <1>6, <1>7, <1>8, <1>9, Sides DEF MailSide

-----------------------------------------------------------------------------
(* The invariant holds at first, and every step keeps it.                   *)
LEMMA Initially == Init => IInv
<1> SUFFICES ASSUME Init PROVE IInv
  OBVIOUS
<1>1. /\ 0 \in 0..MaxVersion /\ 0 \in 0..MaxTokens /\ 0 \in 0..MailAttempts
  BY ConstantsAssumption
<1>2. /\ NoToken \in TokenRows /\ NoToken.v = 0 /\ NoMail \in MailRows /\ NoMail.st = "none" /\ NoMail.about = 0
      /\ NoMail.tries = 0 /\ NoJob \in JobRows /\ NoJob.st = "none" /\ NoJob.n = 0
      /\ Idle \in Handlers /\ Idle.pc = "idle"
  BY <1>1 DEF NoToken, TokenRows, NoMail, MailRows, NoJob, JobRows, Idle, Handlers, Places, Results
<1>3. /\ app \in Apps /\ app.stage = "passed" /\ ~app.stopped
      /\ offer \in Offers /\ offer.st = "none" /\ offer.cur = 0
      /\ resp \in Answers /\ resp.st = "none"
      /\ facts \in Ledgers
  BY <1>1 DEF Init, Apps, Offers, Answers, Ledgers
<1>4. /\ appr \in [Versions -> Seq(Decisions)] /\ \A v \in Versions : appr[v] = <<>>
      /\ late \subseteq Versions /\ inbox \subseteq Mails /\ inbox = {}
      /\ token \in [Tokens -> TokenRows] /\ \A t \in Tokens : token[t] = NoToken
      /\ mail \in [Mails -> MailRows] /\ \A d \in Mails : mail[d] = NoMail
      /\ job \in [Mails -> JobRows] /\ \A d \in Mails : job[d] = NoJob
      /\ worker \in [Workers -> Handlers] /\ \A w \in Workers : worker[w] = Idle
  BY <1>2 DEF Init
<1>5. OfferTypes /\ MailTypes
  BY <1>3, <1>4 DEF OfferTypes, MailTypes
<1>6. OfferSide
  BY <1>2, <1>3, <1>4 DEF OfferSide, ChainsOK, AnswerIsFinal, LinksOK, AnswerWasApproved, OutcomeAgrees,
     OneActiveToken, StopHolds, Effective, Preparing
<1>7. MailsOK
  <2>1. ASSUME NEW d \in Mails
        PROVE  /\ mail[d].st = "none" <=> job[d].st = "none"
               /\ mail[d].st = "none" => d \notin inbox /\ mail[d] = NoMail /\ job[d] = NoJob
               /\ job[d].st = "queued" => job[d].n < MailAttempts
               /\ IsFiniteSet(Starting(d)) /\ mail[d].tries + Cardinality(Starting(d)) <= job[d].n
    <3>1. Starting(d) = {}
      BY <1>2, <1>4 DEF Starting
    <3>2. IsFiniteSet(Starting(d)) /\ Cardinality(Starting(d)) = 0
      BY <3>1, FS_EmptySet
    <3> QED
      BY <1>2, <1>4, <3>2
  <2> QED
    BY <2>1 DEF MailsOK
<1>8. WorkersOK /\ EndedJobEndsMail
  BY <1>2, <1>4 DEF WorkersOK, EndedJobEndsMail
<1> QED
  BY <1>5, <1>6, <1>7, <1>8, Sides DEF MailSide

LEMMA Inductive ==
  ASSUME IInv, [Next]_vars
  PROVE  IInv'
<1>1. CASE UNCHANGED vars
  BY <1>1, HandlerStep, QuietMail, KeptIfUnchanged, Sides DEF vars, MailTypes
<1>2. CASE Offering
  <2>1. ASSUME NEW v \in Versions, NEW decision \in {"approved", "rejected"},
               \E i \in DOMAIN appr[v] : DecideApproval(i, decision)
        PROVE  IInv'
    BY <2>1, DecideApprovalStep
  <2> QED
    BY <1>2, <2>1, DraftStep, SubmitOfferStep, WithdrawOfferStep, SendOfferStep, DeadlinePassesStep, ResendMailStep,
       RespondStep DEF Offering
<1>3. CASE Ending
  BY <1>3, TerminateStep, ConfirmExternalStep, LeaveStep DEF Ending
<1>4. ASSUME NEW w \in Workers, Working(w) \/ Crash(w) \/ \E d \in Mails : TakeMail(w, d)
      PROVE  IInv'
  BY <1>4, PrepareStep, RecheckStep, SmtpStep, RecordAcceptedStep, RecordFailureStep, SettleStep, CrashStep,
     TakeMailStep DEF Working
<1> QED
  BY <1>1, <1>2, <1>3, <1>4, LoseLeaseStep DEF Next

(* The invariant behind the others: the tables of the Offer, the answer,    *)
(* the links and the mails agree, whatever handlers outlive their leases.   *)
THEOREM OfferInvariant == Spec => []IInv
<1>1. Init => IInv
  BY Initially
<1>2. IInv /\ [Next]_vars => IInv'
  BY Inductive
<1> QED
  BY <1>1, <1>2, PTL DEF Spec

(* An answer is to a version that was approved and mailed, it agrees with   *)
(* the Offer and the application, one link is valid, a stop holds and a job *)
(* never ends before its mail; none of this depends on leases               *)
(* (record_offer_response, send_offer, terminate_application).              *)
THEOREM AnswerCorrect ==
  Spec => [](AnswerWasApproved /\ OutcomeAgrees /\ OneActiveToken /\ StopHolds /\ EndedJobEndsMail)
<1>1. IInv => AnswerWasApproved /\ OutcomeAgrees /\ OneActiveToken /\ StopHolds /\ EndedJobEndsMail
  BY DEF IInv
<1> QED
  BY <1>1, OfferInvariant, PTL

-----------------------------------------------------------------------------
(* A delivery has one handler, if none outlives its lease.                  *)

(* Commands do not touch what a handler works on.                           *)
LEMMA HandlersLeft ==
  ASSUME IInv, OneHandler, worker' = worker,
         \A w \in Workers : worker[w].pc # "idle" =>
           /\ job'[worker[w].d].st = job[worker[w].d].st
           /\ mail[worker[w].d].flight /\ mail[worker[w].d].st = "queued" => mail'[worker[w].d] = mail[worker[w].d]
  PROVE  OneHandler'
  BY DEF OneHandler

LEMMA HandlerAlone ==
  ASSUME IInv, OneHandler, NEW w \in Workers, worker[w].pc # "idle",
         \A v \in Workers \ {w} : worker'[v] = worker[v],
         \A e \in Mails \ {worker[w].d} : mail'[e] = mail[e] /\ job'[e] = job[e],
         worker'[w].pc # "idle" => worker'[w].d = worker[w].d /\ job'[worker[w].d].st = job[worker[w].d].st,
         worker'[w].pc \in AtServer => mail'[worker[w].d].st = "queued" /\ mail'[worker[w].d].flight
  PROVE  OneHandler'
<1>1. \A v \in Workers \ {w} : worker[v].pc # "idle" => worker[v].d \in Mails \ {worker[w].d}
  BY Carried DEF OneHandler
<1>2. \A v \in Workers : worker'[v].pc # "idle" =>
        /\ job'[worker'[v].d].st = "running"
        /\ worker'[v].pc \in AtServer => mail'[worker'[v].d].st = "queued" /\ mail'[worker'[v].d].flight
  BY <1>1 DEF OneHandler
<1>3. \A u, v \in Workers : (worker'[u].pc # "idle" /\ worker'[v].pc # "idle" /\ u # v) => worker'[u].d # worker'[v].d
  BY <1>1 DEF OneHandler
<1> QED
  BY <1>2, <1>3 DEF OneHandler

(* What is open of a mail at the server stays open until its result.        *)
LEMMA AirKept ==
  ASSUME MailInAirIsOpen, app'.stopped => app.stopped,
         app.stopped => \A w \in Workers : worker'[w].pc \in AtServer =>
           /\ worker[w].pc \in AtServer /\ worker'[w].d = worker[w].d
           /\ \A i \in facts.items : i.d = worker[w].d /\ i.st \in Open => i \in facts'.items
  PROVE  MailInAirIsOpen'
  BY DEF MailInAirIsOpen, AtServer

LEMMA CommandUnlapsed ==
  ASSUME IInv, Unlapsed, Offering \/ WithdrawForDeletion \/ BulkReject
  PROVE  Unlapsed'
<1>1. worker' = worker /\ facts' = facts /\ app'.stopped = app.stopped
  <2> app \in Apps
    BY Sides DEF OfferTypes
  <2>1. CASE Offering
    <3>1. ASSUME NEW v \in Versions, NEW i, NEW decision, DecideApproval(i, decision)
          PROVE  worker' = worker /\ facts' = facts /\ app' = app
      BY <3>1 DEF DecideApproval
    <3>2. ASSUME NEW by, NEW decision, Respond(by, decision)
          PROVE  worker' = worker /\ facts' = facts /\ app'.stopped = app.stopped
      BY <3>2 DEF Respond, Apps
    <3> QED
      BY <2>1, <3>1, <3>2 DEF Offering, CreateOffer, ReviseOffer, WithdrawOffer, SendOffer, DeadlinePasses, SubmitOffer,
         ResendMail
  <2>2. CASE WithdrawForDeletion \/ BulkReject
    BY <2>2 DEF WithdrawForDeletion, BulkReject, Apps
  <2> QED
    BY <2>1, <2>2
<1>2. \A e \in Mails : mail[e].st # "none" => mail'[e] = mail[e] /\ job'[e] = job[e]
  <2>1. CASE UNCHANGED <<mail, job>>
    BY <2>1
  <2>2. ASSUME NEW d \in NewMail, NEW t, mail' = Enqueued(d, t), job' = JobQueued(d)
        PROVE  \A e \in Mails : mail[e].st # "none" => mail'[e] = mail[e] /\ job'[e] = job[e]
    BY <2>2, Sides DEF NewMail, Enqueued, JobQueued, MailTypes
  <2>3. UNCHANGED <<mail, job>> \/ \E d \in NewMail, t \in 0..MaxTokens : mail' = Enqueued(d, t) /\ job' = JobQueued(d)
    <3>1. ASSUME NEW v \in Versions, NEW i, NEW decision, DecideApproval(i, decision)
          PROVE  UNCHANGED <<mail, job>>
      BY <3>1 DEF DecideApproval
    <3>2. ASSUME NEW by, NEW decision, Respond(by, decision)
          PROVE  UNCHANGED <<mail, job>> \/ \E d \in NewMail : mail' = Enqueued(d, 0) /\ job' = JobQueued(d)
      BY <3>2 DEF Respond
    <3>3. ASSUME NEW old \in Mails, ResendMail(old)
          PROVE  \E d \in NewMail, t \in 0..MaxTokens : mail' = Enqueued(d, t) /\ job' = JobQueued(d)
      BY <3>3, LinksAreTyped DEF ResendMail, MailRows
    <3>4. ASSUME SendOffer
          PROVE  \E d \in NewMail, t \in 0..MaxTokens : mail' = Enqueued(d, t) /\ job' = JobQueued(d)
      BY <3>4, ConstantsAssumption DEF SendOffer, NewToken, Tokens
    <3>5. 0 \in 0..MaxTokens
      BY ConstantsAssumption
    <3> QED
      BY <3>1, <3>2, <3>3, <3>4, <3>5 DEF Offering, CreateOffer, ReviseOffer, WithdrawOffer, DeadlinePasses, SubmitOffer,
         WithdrawForDeletion, BulkReject
  <2> QED
    BY <2>1, <2>2, <2>3
<1>3. OneHandler'
  BY <1>1, <1>2, HandlersLeft, Carried DEF Unlapsed
<1>4. MailInAirIsOpen'
  BY <1>1, AirKept DEF Unlapsed
<1> QED
  BY <1>3, <1>4 DEF Unlapsed

LEMMA EndingUnlapsed ==
  ASSUME IInv, Unlapsed, Terminate \/ ConfirmExternal
  PROVE  Unlapsed'
<1>1. CASE Terminate
  <2>1. /\ worker' = worker /\ job' = job
        /\ \A d \in Mails : mail[d].flight => mail'[d] = mail[d]
    BY <1>1 DEF Terminate
  <2>2. OneHandler'
    BY <2>1, HandlersLeft, Carried DEF Unlapsed
  <2>3. ASSUME NEW w \in Workers, worker'[w].pc \in AtServer
        PROVE  \E i \in facts'.items : i.d = worker'[w].d /\ i.st \in Open
    <3> DEFINE d == worker[w].d
               i == [d |-> d, gen |-> mail[d].tries, ref |-> 0, st |-> "in_flight"]
    <3>1. d \in Mails /\ mail[d].st = "queued" /\ mail[d].flight
      BY <2>1, <2>3, Carried DEF Unlapsed, OneHandler, AtServer
    <3>2. facts \in Ledgers /\ facts' = [facts EXCEPT !.items =
                     {[d |-> e, gen |-> mail[e].tries, ref |-> 0, st |-> "in_flight"] :
                        e \in {e \in Mails : mail[e].st = "queued" /\ mail[e].flight}}]
      BY <1>1, Sides DEF Terminate, MailTypes
    <3>3. facts'.items = {[d |-> e, gen |-> mail[e].tries, ref |-> 0, st |-> "in_flight"] :
                            e \in {e \in Mails : mail[e].st = "queued" /\ mail[e].flight}}
      BY <3>2 DEF Ledgers
    <3>4. i \in facts'.items
      BY <3>1, <3>3
    <3>5. i.d = d /\ i.st \in Open
      BY DEF Open
    <3> QED
      BY <2>1, <3>4, <3>5
  <2> QED
    BY <2>2, <2>3 DEF Unlapsed, MailInAirIsOpen, AtServer
<1>2. CASE ConfirmExternal
  <2>1. app.stopped /\ UNCHANGED <<app, mail, job, worker>> /\ \A i \in facts.items : i.st \notin Open
    BY <1>2 DEF ConfirmExternal
  <2>2. \A w \in Workers : worker[w].pc \notin AtServer
    BY <2>1 DEF Unlapsed, MailInAirIsOpen, AtServer
  <2> QED
    BY <2>1, <2>2 DEF Unlapsed, OneHandler, MailInAirIsOpen, AtServer
<1> QED
  BY <1>1, <1>2

(* A handler by its step: only its own delivery changes.                    *)
LEMMA HandlerChanges ==
  ASSUME IInv, NEW w \in Workers, Working(w)
  PROVE  /\ worker[w].pc # "idle" /\ app' = app /\ \A v \in Workers \ {w} : worker'[v] = worker[v]
         /\ \A e \in Mails \ {worker[w].d} : mail'[e] = mail[e] /\ job'[e] = job[e]
         /\ worker'[w].pc # "idle" => worker'[w].d = worker[w].d /\ job' = job
         /\ \A i \in facts.items : i.d # worker[w].d => i \in facts'.items
<1> DEFINE d == worker[w].d
<1>1. /\ worker[w].pc # "idle" /\ app' = app
      /\ \/ \E pc \in Places, res \in Results : Goto(w, pc, res) /\ job' = job
         \/ worker' = [worker EXCEPT ![w] = Idle] /\ (job' = job \/ \E st : job' = [job EXCEPT ![d].st = st])
  BY DEF Working, AtStep, Places, Results, Prepare, Recheck, Smtp, RecordAccepted, RecordTemporary, RecordPermanent,
     Settle, Dies
<1>2. d \in Mails /\ mail[d].st # "none"
  BY <1>1, Carried
<1>3. /\ \A v \in Workers \ {w} : worker'[v] = worker[v]
      /\ worker'[w].pc # "idle" => worker'[w].d = d /\ job' = job
      /\ \A e \in Mails \ {d} : job'[e] = job[e]
  <2>1. worker \in [Workers -> Handlers] /\ job \in [Mails -> JobRows] /\ Idle.pc = "idle"
    BY Sides DEF MailTypes, Idle
  <2>2. CASE \E pc \in Places, res \in Results : Goto(w, pc, res) /\ job' = job
    BY <2>2, GotoIs
  <2>3. CASE worker' = [worker EXCEPT ![w] = Idle] /\ (job' = job \/ \E st : job' = [job EXCEPT ![d].st = st])
    BY <2>1, <2>3
  <2> QED
    BY <1>1, <2>2, <2>3
<1>4. \A e \in Mails \ {d} : mail'[e] = mail[e]
  <2>1. mail \in [Mails -> MailRows]
    BY Sides DEF MailTypes
  <2>2. \/ mail' = mail \/ mail' = Cancelled(d) \/ mail' = Failed(mail, d)
        \/ mail' = [mail EXCEPT ![d].tries = @ + 1] \/ mail' = [mail EXCEPT ![d].flight = TRUE]
        \/ mail' = [mail EXCEPT ![d].flight = FALSE] \/ mail' = [mail EXCEPT ![d].st = "sent", ![d].flight = FALSE]
    BY DEF Working, Prepare, Recheck, Smtp, RecordAccepted, RecordTemporary, RecordPermanent, Settle, Dies
  <2> QED
    BY <1>2, <2>1, <2>2, CancelledKeeps, FailedKeeps
<1>5. \A i \in facts.items : i.d # d => i \in facts'.items
  <2>1. \/ facts' = facts \/ facts' = Recorded(d, "needs_action", worker[w].n)
        \/ facts' = Recorded(d, "unknown", 0) \/ facts' = Recorded(d, "resolved", 0)
    BY DEF Working, Prepare, Recheck, Smtp, RecordAccepted, RecordTemporary, RecordPermanent, Settle
  <2>2. worker[w].n \in 0..MailAttempts /\ 0 \in 0..MailAttempts
    BY <1>1, Carried, ConstantsAssumption
  <2> QED
    BY <1>2, <2>1, <2>2, RecordedIs DEF Open
<1> QED
  BY <1>1, <1>3, <1>4, <1>5

LEMMA WorkingUnlapsed ==
  ASSUME IInv, Unlapsed, NEW w \in Workers, Working(w)
  PROVE  Unlapsed'
<1> DEFINE d == worker[w].d
<1>1. worker'[w].pc \in AtServer =>
        \/ worker[w].pc \in AtServer /\ UNCHANGED <<mail, facts>>
        \/ ~Terminated /\ mail[d].st = "queued" /\ mail' = [mail EXCEPT ![d].flight = TRUE]
  <2>1. CASE Recheck(w)
    <3>1. worker'[w].pc = "settle" \/ (~Terminated /\ mail[d].st = "queued" /\ mail' = [mail EXCEPT ![d].flight = TRUE])
      BY <2>1, GotoIs DEF Recheck, Obsolete, Places, Results
    <3> QED
      BY <3>1 DEF AtServer
  <2>2. CASE Smtp(w)
    BY <2>2 DEF Smtp, AtStep, AtServer
  <2>3. CASE Settle(w)
    <3>1. worker'[w] = Idle
      BY <2>3, Sides DEF Settle, MailTypes
    <3> QED
      BY <3>1 DEF Idle, AtServer
  <2>4. CASE Prepare(w) \/ RecordAccepted(w) \/ RecordTemporary(w) \/ RecordPermanent(w)
    <3>1. \E pc \in {"settle", "recheck"}, res \in Results : Goto(w, pc, res)
      BY <2>4 DEF Prepare, RecordAccepted, RecordTemporary, RecordPermanent, Results
    <3>2. worker'[w].pc \in {"settle", "recheck"}
      BY <3>1, GotoIs DEF Places
    <3> QED
      BY <3>2 DEF AtServer
  <2> QED
    BY <2>1, <2>2, <2>3, <2>4 DEF Working
<1>2. worker'[w].pc \in AtServer => mail'[d].st = "queued" /\ mail'[d].flight
  <2>1. mail \in [Mails -> MailRows] /\ d \in Mails /\ mail[d] \in MailRows
    BY HandlerChanges, Carried, Sides DEF MailTypes
  <2>2. CASE worker[w].pc \in AtServer /\ UNCHANGED mail
    BY <2>2, HandlerChanges DEF Unlapsed, OneHandler
  <2>3. CASE mail[d].st = "queued" /\ mail' = [mail EXCEPT ![d].flight = TRUE]
    <3>1. mail'[d] = [mail[d] EXCEPT !.flight = TRUE]
      BY <2>1, <2>3
    <3> QED
      BY <2>1, <2>3, <3>1 DEF MailRows
  <2> QED
    BY <1>1, <2>2, <2>3
<1>3. OneHandler'
  BY <1>2, HandlerChanges, HandlerAlone DEF Unlapsed
<1>4. MailInAirIsOpen'
  <2>1. ASSUME app.stopped, NEW v \in Workers, worker'[v].pc \in AtServer
        PROVE  /\ worker[v].pc \in AtServer /\ worker'[v].d = worker[v].d
               /\ \A i \in facts.items : i.d = worker[v].d /\ i.st \in Open => i \in facts'.items
    <3>1. CASE v = w
      BY <1>1, <2>1, <3>1, HandlerChanges DEF Terminated, AtServer
    <3>2. CASE v # w
      BY <2>1, <3>2, HandlerChanges DEF Unlapsed, OneHandler, AtServer
    <3> QED
      BY <3>1, <3>2
  <2> QED
    BY <2>1, HandlerChanges, AirKept DEF Unlapsed
<1> QED
  BY <1>3, <1>4 DEF Unlapsed

LEMMA QueueUnlapsed ==
  ASSUME ~StaleHandlers, IInv, Unlapsed,
         \/ \E w \in Workers : Crash(w) \/ \E d \in Mails : TakeMail(w, d)
         \/ \E d \in Mails : LoseLease(d)
  PROVE  Unlapsed'
<1>1. ASSUME NEW w \in Workers, Crash(w) PROVE Unlapsed'
  <2>1. /\ worker'[w].pc = "idle" /\ \A v \in Workers \ {w} : worker'[v] = worker[v]
        /\ UNCHANGED <<app, mail, job, facts>>
    BY <1>1, Sides DEF Crash, Idle, MailTypes
  <2> QED
    BY <2>1 DEF Unlapsed, OneHandler, MailInAirIsOpen, AtServer
<1>2. ASSUME NEW w \in Workers, NEW d \in Mails, TakeMail(w, d) PROVE Unlapsed'
  <2>1. /\ job[d].st = "queued" /\ worker'[w].pc = "prepare" /\ worker'[w].d = d /\ job'[d].st = "running"
        /\ \A v \in Workers \ {w} : worker'[v] = worker[v]
        /\ \A e \in Mails \ {d} : job'[e] = job[e]
        /\ UNCHANGED <<app, mail, facts>>
    BY <1>2, Sides DEF TakeMail, MailTypes
  <2>2. \A v \in Workers : worker[v].pc # "idle" => worker[v].d # d
    BY <2>1 DEF Unlapsed, OneHandler
  <2>3. OneHandler'
    BY <2>1, <2>2, Carried DEF Unlapsed, OneHandler, AtServer
  <2>4. MailInAirIsOpen'
    BY <2>1 DEF Unlapsed, MailInAirIsOpen
  <2> QED
    BY <2>3, <2>4 DEF Unlapsed
<1>3. ASSUME NEW d \in Mails, LoseLease(d) PROVE Unlapsed'
  <2>1. /\ \A w \in Workers : worker[w].d # d
        /\ UNCHANGED <<app, worker, facts>>
    BY <1>3 DEF LoseLease
  <2>2. \A e \in Mails \ {d} : mail'[e] = mail[e] /\ job'[e] = job[e]
    <3>1. mail[d].st # "none"
      BY <1>3 DEF LoseLease, IInv, MailsOK
    <3>2. \/ mail' = mail \/ mail' = Failed(mail, d)
      BY <1>3 DEF LoseLease, Dies
    <3>3. \E st : job' = [job EXCEPT ![d].st = st]
      BY <1>3 DEF LoseLease, Dies
    <3> QED
      BY <3>1, <3>2, <3>3, FailedKeeps, Sides DEF MailTypes
  <2>3. OneHandler'
    BY <2>1, <2>2, HandlersLeft, Carried DEF Unlapsed
  <2> QED
    BY <2>1, <2>3 DEF Unlapsed, MailInAirIsOpen
<1> QED
  BY <1>1, <1>2, <1>3

LEMMA UnlapsedInductive ==
  ASSUME ~StaleHandlers, IInv, Unlapsed, [Next]_vars
  PROVE  Unlapsed'
<1>1. CASE UNCHANGED vars
  BY <1>1 DEF vars, Unlapsed, OneHandler, MailInAirIsOpen
<1> QED
  BY <1>1, CommandUnlapsed, EndingUnlapsed, WorkingUnlapsed, QueueUnlapsed DEF Next, Ending

(* As long as no handler outlives its lease, every mail of a stopped        *)
(* application that may be at the mail server is open on the ledger, beside *)
(* all of AnswerCorrect (terminate_application, _record_email_fact).        *)
THEOREM OfferCorrect == ~StaleHandlers => (Spec => []OfferSafety)
<1> SUFFICES ASSUME ~StaleHandlers PROVE Spec => []OfferSafety
  OBVIOUS
<1>1. Init => Unlapsed
  BY DEF Init, Unlapsed, OneHandler, MailInAirIsOpen, Idle
<1>2. IInv /\ Unlapsed /\ [Next]_vars => Unlapsed'
  BY UnlapsedInductive
<1>3. IInv /\ Unlapsed => OfferSafety
  BY DEF IInv, Unlapsed, OfferSafety
<1> QED
  BY <1>1, <1>2, <1>3, OfferInvariant, PTL DEF Spec

-----------------------------------------------------------------------------
(* Who may say that a mail was sent.                                        *)
LEMMA SentIsRecorded ==
  ASSUME IInv, [Next]_vars, NEW d \in Mails, mail[d].st # "sent", mail'[d].st = "sent"
  PROVE  \E w \in Workers : RecordAccepted(w) /\ worker[w].d = d
<1>1. mail \in [Mails -> MailRows]
  BY Sides DEF MailTypes
<1>2. ~UNCHANGED vars /\ mail' # mail
  BY DEF vars
<1>3. ASSUME Offering PROVE FALSE
  <2>1. \E e \in Mails : \E t : mail' = Enqueued(e, t)
    BY <1>2, <1>3 DEF Offering, CreateOffer, ReviseOffer, WithdrawOffer, SendOffer, DeadlinePasses, SubmitOffer,
                      DecideApproval, ResendMail, Respond, NewMail
  <2>2. PICK e \in Mails : \E t : mail' = Enqueued(e, t)
    BY <2>1
  <2>3. mail'[d].st \in {"queued", mail[d].st}
    BY <1>1, <2>2 DEF Enqueued, NoMail
  <2> QED
    BY <2>3
<1>4. ASSUME Ending PROVE FALSE
  <2>1. Terminate
    BY <1>2, <1>4 DEF Ending, ConfirmExternal, WithdrawForDeletion, BulkReject
  <2>2. mail'[d] \in {[mail[d] EXCEPT !.st = "cancelled"], mail[d]}
    BY <2>1 DEF Terminate
  <2>3. mail'[d].st \in {"cancelled", mail[d].st}
    BY <1>1, <2>2 DEF MailRows
  <2> QED
    BY <2>3
<1>5. ASSUME NEW e \in Mails, mail' = Failed(mail, e) PROVE FALSE
  BY <1>1, <1>5 DEF Failed, MailRows
<1>6. ASSUME NEW e \in Mails, mail' = Cancelled(e) PROVE FALSE
  BY <1>1, <1>6 DEF Cancelled, MailRows
<1>7. ASSUME NEW e \in Mails, \/ mail' = [mail EXCEPT ![e].tries = @ + 1]
                              \/ \E b \in BOOLEAN : mail' = [mail EXCEPT ![e].flight = b]
      PROVE  FALSE
  BY <1>1, <1>7 DEF MailRows
<1>8. ASSUME NEW w \in Workers, Working(w) PROVE RecordAccepted(w) /\ worker[w].d = d
  <2>1. worker[w].d \in Mails
    BY <1>8, HandlerChanges, Carried
  <2>2. worker[w].d = d
    BY <1>8, HandlerChanges
  <2>3. CASE RecordAccepted(w)
    BY <2>2, <2>3
  <2>4. CASE ~RecordAccepted(w)
    <3>1. \/ mail' = Cancelled(d) \/ mail' = Failed(mail, d)
          \/ mail' = [mail EXCEPT ![d].tries = @ + 1]
          \/ \E b \in BOOLEAN : mail' = [mail EXCEPT ![d].flight = b]
      BY <1>2, <1>8, <2>2, <2>4 DEF Working, Prepare, Recheck, Smtp, RecordTemporary, RecordPermanent, Settle, Dies
    <3> QED
      BY <1>5, <1>6, <1>7, <3>1
  <2> QED
    BY <2>3, <2>4
<1>9. ASSUME \/ \E w \in Workers : Crash(w) \/ \E e \in Mails : TakeMail(w, e)
             \/ \E e \in Mails : LoseLease(e)
      PROVE  FALSE
  BY <1>2, <1>5, <1>9 DEF Crash, TakeMail, LoseLease, Dies
<1> QED
  BY <1>2, <1>3, <1>4, <1>8, <1>9 DEF Next

(* Whatever a mail server accepted for a stopped application is attested by *)
(* the very step that counts the delivery as sent, even if the handler that *)
(* reports it has outlived its lease and a second attempt has ended the     *)
(* delivery before (_record_email_fact in the transaction of the result).   *)
THEOREM AttestationCorrect == Spec => LateSendIsAttested
<1> DEFINE Attested == \A d \in Mails : (app.stopped /\ mail[d].st # "sent" /\ mail'[d].st = "sent")
                         => \E i \in facts'.items \cup facts'.history : i.d = d /\ i.ref # 0
<1>1. IInv /\ [Next]_vars => Attested
  <2> SUFFICES ASSUME IInv, [Next]_vars, NEW d \in Mails, app.stopped, mail[d].st # "sent", mail'[d].st = "sent"
               PROVE  \E i \in facts'.items \cup facts'.history : i.d = d /\ i.ref # 0
    OBVIOUS
  <2>1. PICK w \in Workers : RecordAccepted(w) /\ worker[w].d = d
    BY SentIsRecorded
  <2>2. facts' = Recorded(d, "needs_action", worker[w].n) /\ worker[w].pc # "idle"
    BY <2>1 DEF RecordAccepted, AtStep
  <2>3. worker[w].n \in 0..MailAttempts /\ worker[w].n # 0
    BY <2>2, Carried, ConstantsAssumption
  <2> QED
    BY <2>2, <2>3, RecordedIs
<1> HIDE DEF Attested
<1>2. IInv /\ [Next]_vars => [Attested]_vars
  BY <1>1
<1>3. Spec => [][Attested]_vars
  BY <1>2, OfferInvariant, PTL DEF Spec
<1> QED
  BY <1>3 DEF LateSendIsAttested, Attested

-----------------------------------------------------------------------------
(* OfferLifecycle implements OfferContract.  The contract's approved is the *)
(* approval of the current version.                                         *)
Signed == /\ offer.cur # 0
          /\ \A v \in Versions : v = offer.cur =>
               appr[v] # <<>> /\ \A i \in DOMAIN appr[v] : appr[v][i] = "approved"

LEMMA SignedIs ==
  ASSUME IInv, IInv'
  PROVE  /\ Signed <=> offer.cur # 0 /\ Approved(offer.cur)
         /\ Signed' <=> offer'.cur # 0 /\ appr'[offer'.cur] # <<>>
                        /\ \A i \in DOMAIN appr'[offer'.cur] : appr'[offer'.cur][i] = "approved"
<1>1. offer \in Offers /\ offer' \in Offers
  BY Sides DEF OfferTypes
<1>2. (offer.cur # 0 => offer.cur \in Versions) /\ (offer'.cur # 0 => offer'.cur \in Versions)
  BY <1>1 DEF Offers, Versions
<1> QED
  BY <1>2 DEF Signed, Approved

(* A new text is not approved, whatever became of the one before.           *)
LEMMA DraftRefines ==
  ASSUME IInv, IInv', CreateOffer \/ ReviseOffer
  PROVE  Contract!Draft
<1>1. /\ ~Terminated /\ offer.st \in {"none", "withdrawn", "draft", "changes_requested", "ready_to_send", "sent"}
      /\ offer.cur < MaxVersion /\ offer' = [st |-> "draft", cur |-> offer.cur + 1]
      /\ UNCHANGED <<app, appr, resp>>
  BY DEF CreateOffer, ReviseOffer
<1>2. offer.cur + 1 \in Versions /\ offer.cur + 1 > offer.cur
  BY <1>1, Sides, ConstantsAssumption DEF OfferTypes, Offers, Versions
<1>3. appr'[offer'.cur] = <<>>
  BY <1>1, <1>2 DEF IInv, ChainsOK
<1>4. ~Signed'
  BY <1>3, SignedIs
<1> QED
  BY <1>1, <1>4 DEF Contract!Draft, Contract!Ended, Terminated, Signed

LEMMA SubmitRefines ==
  ASSUME IInv, IInv', NEW k \in Chains, SubmitOffer(k)
  PROVE  Contract!Submit
<1>1. /\ ~Terminated /\ offer.st \in {"draft", "changes_requested"}
      /\ offer' = [offer EXCEPT !.st = "pending_approval"] /\ UNCHANGED <<app, resp>>
      /\ appr' = [appr EXCEPT ![offer.cur] = [i \in 1..k |-> IF i = 1 THEN "pending" ELSE "waiting"]]
  BY DEF SubmitOffer
<1>2. offer.cur \in Versions /\ k \in Nat \ {0} /\ offer \in Offers /\ appr \in [Versions -> Seq(Decisions)]
  BY <1>1, Unanswered, Sides, ConstantsAssumption DEF Preparing, OfferTypes
<1>3. offer'.st = "pending_approval" /\ offer'.cur = offer.cur
  BY <1>1, <1>2 DEF Offers
<1>4. 1 \in DOMAIN appr'[offer'.cur] /\ appr'[offer'.cur][1] = "pending"
  BY <1>1, <1>2, <1>3
<1>5. ~Signed'
  BY <1>4, SignedIs
<1> QED
  BY <1>1, <1>3, <1>5 DEF Contract!Submit, Contract!Ended, Terminated, Signed

(* The last approval of a chain is the only one that makes a version ready. *)
LEMMA DecideRefines ==
  ASSUME IInv, IInv', NEW i, NEW decision \in {"approved", "rejected"}, DecideApproval(i, decision)
  PROVE  Contract!Decide
<1> DEFINE chain == appr[offer.cur]
           next == [j \in DOMAIN chain |-> IF j = i THEN decision
                                           ELSE IF j = i + 1 /\ decision = "approved" THEN "pending" ELSE chain[j]]
<1>1. /\ ~Terminated /\ offer.st = "pending_approval" /\ i \in DOMAIN chain /\ chain[i] = "pending"
      /\ appr' = [appr EXCEPT ![offer.cur] = next]
      /\ offer' = [offer EXCEPT !.st = IF decision = "rejected" THEN "changes_requested"
                                       ELSE IF i = Len(chain) THEN "ready_to_send" ELSE offer.st]
      /\ UNCHANGED <<app, resp>>
  BY DEF DecideApproval
<1>2. /\ offer.cur \in Versions /\ offer \in Offers /\ appr \in [Versions -> Seq(Decisions)]
      /\ chain \in Seq(Decisions)
  BY <1>1, Unanswered, Sides DEF Preparing, OfferTypes
<1>3. Len(chain) \in Nat /\ DOMAIN chain = 1..Len(chain) /\ i \in 1..Len(chain)
  BY <1>1, <1>2
<1>4. offer'.cur = offer.cur /\ appr'[offer'.cur] = next /\ DOMAIN next = 1..Len(chain)
  BY <1>1, <1>2, <1>3 DEF Offers
<1>5. CASE decision = "approved" /\ i = Len(chain)
  <2>1. offer'.st = "ready_to_send"
    BY <1>1, <1>2, <1>5 DEF Offers
  <2>2. Signed'
    BY <1>4, <1>2, <2>1, SignedIs DEF IInv, ChainsOK, Approved, Versions
  <2> QED
    BY <1>1, <2>1, <2>2 DEF Contract!Decide, Contract!Ended, Terminated, Signed
<1>6. CASE ~(decision = "approved" /\ i = Len(chain))
  <2>1. offer'.st \in {"pending_approval", "changes_requested"}
    BY <1>1, <1>2, <1>6 DEF Offers
  <2>2. \E j \in DOMAIN next : next[j] # "approved"
    <3>1. CASE decision = "rejected"
      BY <1>3, <1>4, <3>1
    <3>2. CASE decision = "approved"
      <4>1. i + 1 \in DOMAIN next /\ i # Len(chain)
        BY <1>3, <1>4, <1>6, <3>2
      <4> QED
        BY <1>3, <3>2, <4>1
    <3> QED
      BY <3>1, <3>2
  <2> HIDE DEF next
  <2>3. ~Signed'
    BY <1>4, <2>2, SignedIs
  <2> QED
    BY <1>1, <2>1, <2>3 DEF Contract!Decide, Contract!Ended, Terminated, Signed
<1> QED
  BY <1>5, <1>6

LEMMA WithdrawRefines ==
  ASSUME IInv, WithdrawOffer
  PROVE  Contract!Withdraw
<1>1. offer.cur # 0 /\ offer.st \notin {"none", "accepted"}
  BY DEF WithdrawOffer, IInv, ChainsOK
<1>2. offer' = [offer EXCEPT !.st = "withdrawn"] /\ UNCHANGED <<app, appr, resp>> /\ offer \in Offers
  BY Sides DEF WithdrawOffer, OfferTypes
<1>3. offer'.st = "withdrawn" /\ offer'.cur = offer.cur
  BY <1>2 DEF Offers
<1> QED
  BY <1>1, <1>2, <1>3 DEF Contract!Withdraw

(* Only a wholly approved version can be answered, and the answer moves     *)
(* Offer and application at once.                                           *)
LEMMA AnswerRefines ==
  ASSUME IInv, IInv', NEW by, NEW decision \in {"accepted", "declined"}, Respond(by, decision)
  PROVE  Contract!Answer
<1>1. /\ resp.st = "none" /\ ~Terminated /\ offer.st = "sent" /\ app.stage = "passed" /\ UNCHANGED appr
      /\ app' = [app EXCEPT !.stage = IF decision = "accepted" THEN "hired" ELSE "withdrawn"]
      /\ offer' = [offer EXCEPT !.st = decision] /\ resp'.st = decision
  BY DEF Respond
<1>2. app \in Apps /\ offer \in Offers
  BY Sides DEF OfferTypes
<1>3. /\ offer'.st = decision /\ offer'.cur = offer.cur /\ app'.stopped = app.stopped
      /\ app'.stage = IF decision = "accepted" THEN "hired" ELSE "withdrawn"
  BY <1>1, <1>2 DEF Apps, Offers
<1>4. Signed
  BY <1>1, SignedIs, Unanswered DEF IInv, ChainsOK, Versions
<1> QED
  BY <1>1, <1>3, <1>4 DEF Contract!Answer, Terminated, Signed

(* A termination leaves what was approved, and no Offer in force.           *)
LEMMA StopRefines ==
  ASSUME IInv, IInv', Terminate
  PROVE  Contract!Stop
<1>1. /\ app.stage \notin {"rejected", "withdrawn"} /\ ~app.stopped
      /\ app' = [stage |-> "withdrawn", stopped |-> TRUE]
      /\ offer' = IF offer.st \in Effective THEN [offer EXCEPT !.st = "withdrawn"] ELSE offer
      /\ appr' = [v \in Versions |-> Cut(appr[v])] /\ UNCHANGED resp
  BY DEF Terminate, Cut
<1>2. app \in Apps /\ offer \in Offers /\ appr \in [Versions -> Seq(Decisions)]
  BY Sides DEF OfferTypes
<1>3. offer.st # "declined"
  BY <1>1 DEF IInv, AnswerIsFinal
<1>4. offer'.cur = offer.cur /\ offer'.st = IF offer.st = "none" THEN "none" ELSE "withdrawn"
  BY <1>1, <1>2, <1>3 DEF Offers, Effective, Preparing
<1>5. Signed' <=> Signed
  <2>1. CASE offer.cur = 0
    BY <1>4, <2>1, SignedIs
  <2>2. CASE offer.cur # 0
    <3>1. appr[offer.cur] \in Seq(Decisions) /\ appr'[offer'.cur] = Cut(appr[offer.cur])
      BY <1>1, <1>2, <1>4, <2>2 DEF Offers, Versions
    <3> QED
      BY <1>4, <2>2, <3>1, CutIs, SignedIs DEF Approved
  <2> QED
    BY <2>1, <2>2
<1>6. app.stage \in {"passed", "hired"} /\ app'.stopped /\ app'.stage = "withdrawn"
  BY <1>1, <1>2 DEF Apps
<1> QED
  BY <1>1, <1>4, <1>5, <1>6 DEF Contract!Stop, Signed

LEMMA LeaveRefines ==
  ASSUME IInv, WithdrawForDeletion \/ BulkReject
  PROVE  Contract!Leave
<1>1. app.stage = "passed" /\ UNCHANGED <<offer, appr, resp>>
      /\ \E stage \in {"withdrawn", "rejected"} : app' = [app EXCEPT !.stage = stage]
  BY DEF WithdrawForDeletion, BulkReject
<1>2. app'.stage \in {"withdrawn", "rejected"} /\ app'.stopped = app.stopped
  BY <1>1, Sides DEF OfferTypes, Apps
<1> QED
  BY <1>1, <1>2 DEF Contract!Leave

(* An Offer becomes sent only while it is approved, current and live.       *)
LEMMA SendRefines ==
  ASSUME IInv, IInv', NEW w \in Workers, RecordAccepted(w)
  PROVE  Contract!Send \/ UNCHANGED <<app, offer, appr, resp>>
<1>1. UNCHANGED <<app, appr, resp>>
      /\ \/ UNCHANGED offer
         \/ offer.st = "ready_to_send" /\ ~Terminated /\ offer' = [offer EXCEPT !.st = "sent"]
  BY DEF RecordAccepted
<1>2. CASE offer.st = "ready_to_send" /\ ~Terminated /\ offer' = [offer EXCEPT !.st = "sent"]
  <2>1. offer'.st = "sent" /\ offer'.cur = offer.cur
    BY <1>2, Sides DEF OfferTypes, Offers
  <2>2. Signed
    BY <1>2, SignedIs, Unanswered DEF IInv, ChainsOK, Versions, Preparing
  <2> QED
    BY <1>1, <1>2, <2>1, <2>2 DEF Contract!Send, Contract!Ended, Terminated, Signed
<1> QED
  BY <1>1, <1>2

LEMMA StepRefines ==
  ASSUME IInv, IInv', [Next]_vars
  PROVE  Contract!ContractNext \/ UNCHANGED <<app, offer, appr, resp>>
<1>1. CASE UNCHANGED vars
  BY <1>1 DEF vars
<1>2. CASE Offering
  <2>1. \/ CreateOffer \/ ReviseOffer \/ WithdrawOffer \/ UNCHANGED <<app, offer, appr, resp>>
        \/ \E k \in Chains : SubmitOffer(k)
        \/ \E decision \in {"approved", "rejected"} : \E i : DecideApproval(i, decision)
        \/ \E decision \in {"accepted", "declined"} : \E by : Respond(by, decision)
    BY <1>2 DEF Offering, SendOffer, DeadlinePasses, ResendMail
  <2> QED
    BY <2>1, DraftRefines, SubmitRefines, DecideRefines, WithdrawRefines, AnswerRefines DEF Contract!ContractNext
<1>3. CASE Ending
  BY <1>3, StopRefines, LeaveRefines DEF Ending, ConfirmExternal, Contract!ContractNext
<1>4. ASSUME NEW w \in Workers, Working(w) \/ Crash(w) \/ \E d \in Mails : TakeMail(w, d)
      PROVE  Contract!ContractNext \/ UNCHANGED <<app, offer, appr, resp>>
  BY <1>4, SendRefines DEF Working, Prepare, Recheck, Smtp, RecordTemporary, RecordPermanent, Settle, Crash, TakeMail,
                           Contract!ContractNext
<1>5. ASSUME NEW d \in Mails, LoseLease(d) PROVE UNCHANGED <<app, offer, appr, resp>>
  BY <1>5 DEF LoseLease
<1> QED
  BY <1>1, <1>2, <1>3, <1>4, <1>5 DEF Next

(* The Offer keeps OfferContract: it is sent only approved, answered once   *)
(* and only after it was sent, the application moves with the answer, and a *)
(* stop takes the Offer out of force, for any number of versions, links,    *)
(* mails and workers, and with handlers that outlive their leases.          *)
THEOREM ContractKept == Spec => KeepsContract
<1>1. Init => Contract!ContractInit
  BY DEF Init, Contract!ContractInit
<1>2. IInv /\ IInv' /\ [Next]_vars => [Contract!ContractNext]_(Contract!state)
  BY StepRefines DEF Contract!state
<1> QED
  BY <1>1, <1>2, OfferInvariant, PTL DEF Spec, KeepsContract, Contract!ContractSpec
=============================================================================
