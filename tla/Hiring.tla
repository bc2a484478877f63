------------------------------- MODULE Hiring -------------------------------
(***************************************************************************)
(* Interviews, the feedback on them and the stage of the application they  *)
(* move (server/app/interviews, server/app/recruiting/service.py).         *)
(*                                                                         *)
(* Every command holds the row of its candidate from its first look to its *)
(* commit.  Booking is two steps: a command takes the candidate, the stage *)
(* and the round (or the interview) under that lock (held), and only then  *)
(* the rows of the interviewers, whose calendars it shares with other      *)
(* candidates.  Each candidate has one application here, so its lock is    *)
(* that of the application.  If-Match only removes behaviours: a client    *)
(* may hold any version, so none is kept.                                  *)
(***************************************************************************)
EXTENDS Integers, Sequences, FiniteSets

CONSTANTS
  Applications, \* one per candidate
  Interviews,   \* rows of the interviews table, taken in order
  People,       \* interviewers
  Panels,       \* what a command names: the part of each person
  Slots,        \* times; two interviews overlap when they have the same
  Workflow,     \* the rounds of the job's workflow template
  OtherRounds,  \* names of rounds outside of it
  MaxChanges,   \* bound on reschedulings and amendments
  None

ASSUME ConstantsAssumption ==
  /\ Interviews \subseteq Nat /\ MaxChanges \in Nat
  /\ Panels \subseteq [People -> {"out", "optional", "required"}]
  /\ None \notin Applications /\ None \notin Interviews

VARIABLES
  app,    \* applications.stage, and whether the application was terminated
  ivw,    \* interviews and interview_participants
  fb,     \* interview_feedbacks.status of each author
  held,   \* the command that holds the candidate's row between its two steps;
          \* what it asks for is chosen when it is first looked at with others' rows
  changes \* reschedulings and amendments so far

vars == <<app, ivw, fb, held, changes>>

Path == <<"review", "interview_pending", "interviewing", "decision", "passed", "hired">>
Terminal == {"hired", "rejected", "withdrawn"}
Stages == {Path[k] : k \in DOMAIN Path} \cup Terminal
RoundNames == {Workflow[k] : k \in DOMAIN Workflow} \cup OtherRounds

Bookable == {"interview_pending", "interviewing", "decision"}
(* "scheduled" stands for "rescheduled" too: no command tells them apart.    *)
Scheduled == {"scheduled", "confirmed"}
Unfinished == Scheduled \cup {"pending_feedback"}
Statuses == Unfinished \cup {"feedback_completed", "cancelled", "no_show"}

NoPanel == [p \in People |-> "out"]
InterviewRow == [of : Applications \cup {None}, st : Statuses \cup {"none"}, round : RoundNames \cup {"none"},
                 slot : Slots \cup {0}, panel : Panels \cup {NoPanel}]
Absent == [of |-> None, st |-> "none", round |-> "none", slot |-> 0, panel |-> NoPanel]
FeedbackStates == {"none", "draft", "submitted", "amended"}
Idle == [kind |-> "idle"]
Booking == [kind |-> "create"]
Command == {Idle, Booking} \cup [kind : {"move"}, i : Interviews]

TypeOK ==
  /\ app \in [Applications -> [stage : Stages, ended : BOOLEAN]]
  /\ ivw \in [Interviews -> InterviewRow] /\ fb \in [Interviews -> [People -> FeedbackStates]]
  /\ held \in [Applications -> Command] /\ changes \in 0..MaxChanges

Init ==
  /\ app = [a \in Applications |-> [stage |-> "review", ended |-> FALSE]]
  /\ ivw = [i \in Interviews |-> Absent]
  /\ fb = [i \in Interviews |-> [p \in People |-> "none"]]
  /\ held = [a \in Applications |-> Idle] /\ changes = 0

-----------------------------------------------------------------------------
(* Mutant: a command does not wait for the candidate's row.                 *)
FreeAlways(a) == TRUE

Free(a) == held[a] = Idle
(* application_is_terminated: a withdrawn application counts too.           *)
Ended(a) == app[a].ended \/ app[a].stage = "withdrawn"
Of(a) == {i \in Interviews : ivw[i].of = a}
On(panel) == {p \in People : panel[p] # "out"}
Required(panel) == {p \in People : panel[p] = "required"}
HandedIn(i) == {p \in People : fb[i][p] \in {"submitted", "amended"}}

(* next_interview_round: the first round of the workflow with no completed  *)
(* interview, "none" after the last.                                        *)
ExpectedRound(a) ==
  LET done == {ivw[i].round : i \in {j \in Of(a) : ivw[j].st = "feedback_completed"}}
      left == {k \in DOMAIN Workflow : Workflow[k] \notin done}
  IN  IF left = {} THEN "none" ELSE Workflow[CHOOSE k \in left : \A l \in left : k <= l]

(* Mutant: an interview of the candidate with other people does not count.  *)
ClashOfPeople(a, panel, slot, except) ==
  \E j \in Interviews \ {except} :
    /\ ivw[j].st \notin {"none", "cancelled"} /\ ivw[j].slot = slot
    /\ On(ivw[j].panel) \cap On(panel) # {}

(* _schedule_conflicts: an interview not cancelled, of the candidate or of  *)
(* somebody on the panel, at that time.                                     *)
Clash(a, panel, slot, except) ==
  \E j \in Interviews \ {except} :
    /\ ivw[j].st \notin {"none", "cancelled"} /\ ivw[j].slot = slot
    /\ \/ ivw[j].of = a
       \/ On(ivw[j].panel) \cap On(panel) # {}

-----------------------------------------------------------------------------
(* Booking.                                                                 *)

Hold(a, command) == held' = [held EXCEPT ![a] = command] /\ UNCHANGED <<app, ivw, fb, changes>>
Release(a) == held' = [held EXCEPT ![a] = Idle]

(* _advance_application_to_interviewing: forward from interview_pending,    *)
(* back from decision.                                                      *)
ToInterviewing(a) == [app EXCEPT ![a].stage = "interviewing"]

(* create_interview up to the lock of the interviewers.                     *)
BeginCreate(a) ==
  /\ Free(a) /\ ~Ended(a) /\ app[a].stage \in Bookable
  /\ Hold(a, Booking)

(* The interviewers locked: their calendars are read, and the rows written. *)
(* Only an application that waits for its next round is held to the round.  *)
Create(a, r, s, panel) ==
  /\ held[a] = Booking
  /\ app[a].stage = "interview_pending" => ExpectedRound(a) = r
  /\ ~Clash(a, panel, s, None)
  /\ \E i \in Interviews :
       /\ ivw[i] = Absent /\ \A j \in Interviews : ivw[j] = Absent => i <= j
       /\ ivw' = [ivw EXCEPT ![i] = [of |-> a, st |-> "scheduled", round |-> r, slot |-> s, panel |-> panel]]
  /\ app' = ToInterviewing(a)
  /\ Release(a) /\ UNCHANGED <<fb, changes>>

(* patch_interview up to the lock of the interviewers.                      *)
BeginMove(a, i) ==
  /\ Free(a) /\ ivw[i].of = a /\ ivw[i].st \in Scheduled /\ ~Ended(a) /\ changes < MaxChanges
  /\ held' = [held EXCEPT ![a] = [kind |-> "move", i |-> i]] /\ changes' = changes + 1
  /\ UNCHANGED <<app, ivw, fb>>

(* What interview_feedbacks' foreign key to the participants asks for.      *)
Unwritten(i) == \A p \in People : fb[i][p] = "none"

(* The participants are deleted and inserted anew, which the foreign key of *)
(* the feedback refuses once one of them has written anything.  A panel     *)
(* left out of the request is the panel there is.                           *)
Move(a, i, s, panel) ==
  /\ held[a] = [kind |-> "move", i |-> i] /\ <<s, panel>> # <<ivw[i].slot, ivw[i].panel>>
  /\ ~Clash(a, panel, s, i)
  /\ panel # ivw[i].panel => Unwritten(i)
  /\ ivw' = [ivw EXCEPT ![i].st = "scheduled", ![i].slot = s, ![i].panel = panel]
  /\ Release(a) /\ UNCHANGED <<app, fb, changes>>

(* A round out of turn, a clash or the foreign key: a rollback.             *)
Refuse(a) == ~Free(a) /\ Release(a) /\ UNCHANGED <<app, ivw, fb, changes>>

-----------------------------------------------------------------------------
(* What follows the end of an interview.                                    *)

(* A managed round asks for its own interviews, another for all of them.    *)
RoundDone(rows, a, r) ==
  LET managed == r \in {Workflow[k] : k \in DOMAIN Workflow}
      live == {i \in Interviews : /\ rows[i].of = a /\ rows[i].st \notin {"cancelled", "no_show"}
                                  /\ managed => rows[i].round = r}
  IN  live # {} /\ \A i \in live : rows[i].st = "feedback_completed"

(* Whether a round of the workflow follows r.                               *)
HasNext(r) == \E k \in DOMAIN Workflow : Workflow[k] = r /\ k < Len(Workflow)

(* _advance_application_if_interviews_complete.  An application past the    *)
(* decision refuses, and the whole command with it.                         *)
Advance(rows, a, r) ==
  IF ~RoundDone(rows, a, r) THEN UNCHANGED app
  ELSE /\ app[a].stage \in Bookable
       /\ app' = IF app[a].stage # "interviewing" THEN app
                 ELSE [app EXCEPT ![a].stage = IF HasNext(r) THEN "interview_pending" ELSE "decision"]

-----------------------------------------------------------------------------
(* transition_interview.                                                    *)

Confirm(i) ==
  LET a == ivw[i].of IN
  /\ ivw[i].st = "scheduled" /\ Free(a) /\ ~Ended(a)
  /\ ivw' = [ivw EXCEPT ![i].st = "confirmed"]
  /\ UNCHANGED <<app, fb, held, changes>>

Complete(i) ==
  LET a == ivw[i].of
      rows == [ivw EXCEPT ![i].st = IF Required(ivw[i].panel) # {} THEN "pending_feedback" ELSE "feedback_completed"]
  IN
  /\ ivw[i].st = "confirmed" /\ Free(a) /\ ~Ended(a)
  /\ ivw' = rows
  /\ IF rows[i].st = "feedback_completed" THEN Advance(rows, a, ivw[i].round) ELSE UNCHANGED app
  /\ UNCHANGED <<fb, held, changes>>

NoShow(i) ==
  LET a == ivw[i].of
      rows == [ivw EXCEPT ![i].st = "no_show"]
  IN
  /\ ivw[i].st \in Scheduled /\ Free(a) /\ ~Ended(a)
  /\ ivw' = rows /\ Advance(rows, a, ivw[i].round)
  /\ UNCHANGED <<fb, held, changes>>

(* cancel_interview_record: the stage of the application stays.             *)
Cancelled(row) == IF row.st \in Unfinished THEN [row EXCEPT !.st = "cancelled"] ELSE row

Cancel(i) ==
  /\ ivw[i].st \in Unfinished /\ Free(ivw[i].of)
  /\ ivw' = [ivw EXCEPT ![i] = Cancelled(@)]
  /\ UNCHANGED <<app, fb, held, changes>>

-----------------------------------------------------------------------------
(* Feedback.                                                                *)

(* put_my_feedback.                                                         *)
Draft(i, p) ==
  LET a == ivw[i].of IN
  /\ ivw[i].st \in Unfinished /\ p \in On(ivw[i].panel) /\ Free(a) /\ ~Ended(a)
  /\ fb[i][p] = "none"
  /\ fb' = [fb EXCEPT ![i][p] = "draft"]
  /\ UNCHANGED <<app, ivw, held, changes>>

(* Mutant: the author alone completes the interview.                        *)
SubmitCompletes(i, p) ==
  LET a == ivw[i].of
      rows == [ivw EXCEPT ![i].st = "feedback_completed"]
  IN
  /\ ivw[i].st \in Unfinished /\ p \in On(ivw[i].panel) /\ Free(a) /\ ~Ended(a)
  /\ fb[i][p] = "draft"
  /\ fb' = [fb EXCEPT ![i][p] = "submitted"]
  /\ ivw' = rows /\ Advance(rows, a, ivw[i].round)
  /\ UNCHANGED <<held, changes>>

(* submit_my_feedback: the last one that was required completes the         *)
(* interview, held or not.                                                  *)
Submit(i, p) ==
  LET a == ivw[i].of
      rows == [ivw EXCEPT ![i].st = "feedback_completed"]
  IN
  /\ ivw[i].st \in Unfinished /\ p \in On(ivw[i].panel) /\ Free(a) /\ ~Ended(a)
  /\ fb[i][p] = "draft"
  /\ fb' = [fb EXCEPT ![i][p] = "submitted"]
  /\ IF Required(ivw[i].panel) \subseteq HandedIn(i) \cup {p}
       THEN ivw' = rows /\ Advance(rows, a, ivw[i].round)
       ELSE UNCHANGED <<ivw, app>>
  /\ UNCHANGED <<held, changes>>

(* The trigger on interview_feedbacks: what was handed in stays handed in.  *)
Revised(state) == IF state \in {"submitted", "amended"} THEN "amended" ELSE state

(* amend_feedback, of whatever became of the interview.                     *)
Amend(i, p) ==
  /\ fb[i][p] \in {"submitted", "amended"} /\ p \in On(ivw[i].panel) /\ Free(ivw[i].of) /\ changes < MaxChanges
  /\ fb' = [fb EXCEPT ![i][p] = Revised(@)] /\ changes' = changes + 1
  /\ UNCHANGED <<app, ivw, held>>

-----------------------------------------------------------------------------
(* The application.                                                         *)

WorkflowActions ==
  [review_approved |-> <<"review", "interview_pending">>, review_rejected |-> <<"review", "rejected">>,
   hiring_approved |-> <<"decision", "passed">>, hiring_rejected |-> <<"decision", "rejected">>,
   offer_accepted |-> <<"passed", "hired">>, offer_declined |-> <<"passed", "withdrawn">>]

(* apply_application_workflow_action_record.                                *)
Decided(a, action) ==
  /\ app[a].stage = WorkflowActions[action][1]
  /\ app' = [app EXCEPT ![a].stage = WorkflowActions[action][2]]

Decide(a, action) ==
  /\ Free(a) /\ Decided(a, action)
  /\ UNCHANGED <<ivw, fb, held, changes>>

(* Mutant: the interviews of a terminated application are left.             *)
TerminateOnly(a) ==
  /\ Free(a) /\ app[a].stage \notin {"rejected", "withdrawn"} /\ ~app[a].ended
  /\ app' = [app EXCEPT ![a] = [stage |-> "withdrawn", ended |-> TRUE]]
  /\ UNCHANGED <<ivw, fb, held, changes>>

(* terminate_application, with every unfinished interview of it.            *)
Terminate(a) ==
  /\ Free(a) /\ app[a].stage \notin {"rejected", "withdrawn"} /\ ~app[a].ended
  /\ app' = [app EXCEPT ![a] = [stage |-> "withdrawn", ended |-> TRUE]]
  /\ ivw' = [i \in Interviews |-> IF ivw[i].of = a THEN Cancelled(ivw[i]) ELSE ivw[i]]
  /\ UNCHANGED <<fb, held, changes>>

(* withdraw_candidate_applications_for_deletion: the interviews stay.       *)
Withdraw(a) ==
  /\ Free(a) /\ app[a].stage \notin Terminal
  /\ app' = [app EXCEPT ![a].stage = "withdrawn"]
  /\ UNCHANGED <<ivw, fb, held, changes>>

-----------------------------------------------------------------------------
Scheduling(a) ==
  \/ BeginCreate(a) \/ Refuse(a)
  \/ \E i \in Interviews : BeginMove(a, i)
  \/ \E s \in Slots, panel \in Panels :
       \/ \E r \in RoundNames : Create(a, r, s, panel)
       \/ \E i \in Interviews : Move(a, i, s, panel)
Interviewing(i) ==
  \/ Confirm(i) \/ Complete(i) \/ NoShow(i) \/ Cancel(i)
  \/ \E p \in People : Draft(i, p) \/ Submit(i, p) \/ Amend(i, p)
Deciding(a) ==
  (\E action \in DOMAIN WorkflowActions : Decide(a, action)) \/ Terminate(a) \/ Withdraw(a)

Next == (\E a \in Applications : Scheduling(a) \/ Deciding(a)) \/ (\E i \in Interviews : Interviewing(i))
Spec == Init /\ [][Next]_vars

-----------------------------------------------------------------------------
(* Nobody is in two places: two interviews that were not cancelled and that *)
(* share the candidate or an interviewer never have the same time, however  *)
(* bookings and reschedulings of two candidates interleave.                 *)
NoDoubleBooking ==
  \A i, j \in Interviews :
    /\ i # j /\ {ivw[i].st, ivw[j].st} \cap {"none", "cancelled"} = {}
    /\ ivw[i].of = ivw[j].of \/ On(ivw[i].panel) \cap On(ivw[j].panel) # {}
    => ivw[i].slot # ivw[j].slot

(* An interview that waits for feedback waits for somebody: a person whose  *)
(* feedback is required has not handed it in.  Nobody has written about an  *)
(* interview without being on its panel.                                    *)
FeedbackIsAwaited ==
  \A i \in Interviews :
    /\ ivw[i].st = "pending_feedback" => ~(Required(ivw[i].panel) \subseteq HandedIn(i))
    /\ \A p \in People : fb[i][p] # "none" => p \in On(ivw[i].panel)

(* An interview that was closed with the feedback of everybody required.    *)
Judged(i) == ivw[i].st = "feedback_completed" /\ Required(ivw[i].panel) \subseteq HandedIn(i)

(* An application that waits for a decision, or has passed, rests on an     *)
(* interview that was judged in a round after which none follows, or on a   *)
(* judged one of any round and a missed one outside of the workflow, which  *)
(* no round follows either (_advance_application_if_interviews_complete).   *)
DecisionIsGrounded ==
  \A a \in Applications :
    app[a].stage \in {"decision", "passed", "hired"} =>
      \E i \in Of(a) :
        /\ Judged(i)
        /\ \/ ~HasNext(ivw[i].round)
           \/ \E j \in Of(a) : ivw[j].st = "no_show" /\ ivw[j].round \in OtherRounds

(* Feedback is awaited where it is due, and decisions rest on it.           *)
FeedbackDecides == FeedbackIsAwaited /\ DecisionIsGrounded

(* A terminated application has no unfinished interview, and gets none: the *)
(* commands under way when it ended find the candidate's row taken.         *)
EndedIsClear == \A a \in Applications : app[a].ended => \A i \in Of(a) : ivw[i].st \notin Unfinished

(* The inductive invariant: what the three invariants rest on.  The command *)
(* between its two steps still finds what it found under the lock, and the  *)
(* last feedback that is required has closed the interview.                 *)
HeldIsCurrent ==
  \A a \in Applications :
    /\ ~Free(a) => ~Ended(a)
    /\ held[a] = Booking => app[a].stage \in Bookable
    /\ \A i \in Interviews : held[a] = [kind |-> "move", i |-> i] => ivw[i].of = a /\ ivw[i].st \in Scheduled

RowsOK ==
  \A i \in Interviews :
    /\ ivw[i].st = "none" <=> ivw[i] = Absent
    /\ ivw[i].st = "none" <=> ivw[i].of = None
    /\ ivw[i].st # "none" => ivw[i].round \in RoundNames
    /\ ivw[i].st \in Unfinished =>
         Required(ivw[i].panel) = {} \/ ~(Required(ivw[i].panel) \subseteq HandedIn(i))
    /\ ivw[i].st = "feedback_completed" => Judged(i)

IInv ==
  TypeOK /\ HeldIsCurrent /\ RowsOK /\ NoDoubleBooking /\ FeedbackIsAwaited /\ DecisionIsGrounded /\ EndedIsClear

(* What one might expect of a decision: that a last round was held.  The    *)
(* code does not promise it.                                                *)
LastRoundWasHeld ==
  \A a \in Applications :
    app[a].stage \in {"decision", "passed", "hired"} => \E i \in Of(a) : Judged(i) /\ ~HasNext(ivw[i].round)

(* Interviews do not come back: one that was cancelled, missed or closed    *)
(* keeps its status, its time and its panel.                                *)
ClosedStaysClosed ==
  [][\A i \in Interviews : ivw[i].st \in {"cancelled", "no_show", "feedback_completed"} => ivw'[i] = ivw[i]]_vars
=============================================================================
