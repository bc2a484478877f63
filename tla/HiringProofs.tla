---------------------------- MODULE HiringProofs ----------------------------
(* Proofs about Hiring, for every value of its constants, and about the     *)
(* notices of the work that it makes (WorkNotices).                         *)
EXTENDS Hiring, WorkNotices, FiniteSetTheorems, TLAPS

Live(i) == ivw[i].st \notin {"none", "cancelled"}

(* NoDoubleBooking, pair by pair.                                           *)
Apart ==
  \A i, j \in Interviews :
    i # j /\ Live(i) /\ Live(j) /\ (ivw[i].of = ivw[j].of \/ On(ivw[i].panel) \cap On(ivw[j].panel) # {})
    => ivw[i].slot # ivw[j].slot

LEMMA ApartIs == (NoDoubleBooking <=> Apart) /\ (NoDoubleBooking' <=> Apart')
<1>1. \A s, t : {s, t} \cap {"none", "cancelled"} = {} <=> s \notin {"none", "cancelled"} /\ t \notin {"none", "cancelled"}
  OBVIOUS
<1> QED
  BY <1>1 DEF NoDoubleBooking, Apart, Live, On

LEMMA StagesAre ==
  Stages = {"review", "interview_pending", "interviewing", "decision", "passed", "hired", "rejected", "withdrawn"}
<1>1. DOMAIN Path = 1..6
  BY DEF Path
<1>2. Stages = {Path[k] : k \in 1..6} \cup Terminal
  BY <1>1 DEF Stages
<1>3. /\ Path[1] = "review" /\ Path[2] = "interview_pending" /\ Path[3] = "interviewing"
      /\ Path[4] = "decision" /\ Path[5] = "passed" /\ Path[6] = "hired"
  BY DEF Path
<1>4. \A k \in 1..6 : k = 1 \/ k = 2 \/ k = 3 \/ k = 4 \/ k = 5 \/ k = 6
  OBVIOUS
<1> QED
  BY <1>2, <1>3, <1>4 DEF Terminal

LEMMA CommandsDiffer ==
  /\ Idle # Booking
  /\ \A i \in Interviews : [kind |-> "move", i |-> i] # Idle /\ [kind |-> "move", i |-> i] # Booking
  /\ \A i, j \in Interviews : [kind |-> "move", i |-> i] = [kind |-> "move", i |-> j] => i = j
  BY DEF Idle, Booking

(* A round outside of the workflow has no successor.                        *)
LEMMA UnmanagedHasNoNext ==
  ASSUME NEW r, r \notin {Workflow[k] : k \in DOMAIN Workflow}
  PROVE  ~HasNext(r)
  BY DEF HasNext

(* Rows that keep their candidate, panel and time while they are live do    *)
(* not come to clash.                                                       *)
LEMMA BookingsKept ==
  ASSUME NoDoubleBooking,
         \A i \in Interviews : Live(i)' =>
           /\ Live(i) /\ ivw'[i].of = ivw[i].of
           /\ ivw'[i].slot = ivw[i].slot /\ ivw'[i].panel = ivw[i].panel
  PROVE  NoDoubleBooking'
  BY ApartIs DEF Apart, On

(* One row that is put where nothing is in its way, the others kept.        *)
LEMMA BookingMade ==
  ASSUME NoDoubleBooking, NEW i \in Interviews,
         \A j \in Interviews \ {i} : ivw'[j] = ivw[j],
         NEW except, except \in {None, i}, ~Live(i) \/ except = i,
         ~Clash(ivw'[i].of, ivw'[i].panel, ivw'[i].slot, except)
  PROVE  NoDoubleBooking'
<1>1. ASSUME NEW j \in Interviews \ {i}, Live(j)
      PROVE  ivw[j].slot # ivw'[i].slot \/ (ivw[j].of # ivw'[i].of /\ On(ivw[j].panel) \cap On(ivw'[i].panel) = {})
  BY <1>1, ConstantsAssumption DEF Clash, Live
<1>2. ASSUME NEW j \in Interviews, NEW k \in Interviews, j # k, Live(j)', Live(k)',
             ivw'[j].of = ivw'[k].of \/ On(ivw'[j].panel) \cap On(ivw'[k].panel) # {}
      PROVE  ivw'[j].slot # ivw'[k].slot
  <2>1. CASE j = i
    BY <1>1, <1>2, <2>1 DEF Live
  <2>2. CASE k = i
    BY <1>1, <1>2, <2>2 DEF Live
  <2>3. CASE j # i /\ k # i
    BY <1>2, <2>3, ApartIs DEF Apart, Live
  <2> QED
    BY <2>1, <2>2, <2>3
<1> QED
  BY <1>2, ApartIs DEF Apart, On

(* What DecisionIsGrounded says of one application, and RowsOK and          *)
(* FeedbackIsAwaited of one interview.                                      *)
Grounded(a) ==
  app[a].stage \in {"decision", "passed", "hired"} =>
    \E i \in Of(a) :
      /\ Judged(i)
      /\ ~HasNext(ivw[i].round) \/ \E j \in Of(a) : ivw[j].st = "no_show" /\ ivw[j].round \in OtherRounds

RowAt(i) ==
  /\ ivw[i].st = "none" <=> ivw[i] = Absent
  /\ ivw[i].st = "none" <=> ivw[i].of = None
  /\ ivw[i].st # "none" => ivw[i].round \in RoundNames
  /\ ivw[i].st \in Unfinished =>
       Required(ivw[i].panel) = {} \/ ~(Required(ivw[i].panel) \subseteq HandedIn(i))
  /\ ivw[i].st = "feedback_completed" => Judged(i)
  /\ ivw[i].st = "pending_feedback" => ~(Required(ivw[i].panel) \subseteq HandedIn(i))
  /\ \A p \in People : fb[i][p] # "none" => p \in On(ivw[i].panel)

LEMMA PartsAre ==
  /\ DecisionIsGrounded <=> \A a \in Applications : Grounded(a)
  /\ DecisionIsGrounded' <=> \A a \in Applications : Grounded(a)'
  /\ RowsOK /\ FeedbackIsAwaited <=> \A i \in Interviews : RowAt(i)
  /\ RowsOK' /\ FeedbackIsAwaited' <=> \A i \in Interviews : RowAt(i)'
<1>1. (DecisionIsGrounded <=> \A a \in Applications : Grounded(a))
      /\ (DecisionIsGrounded' <=> \A a \in Applications : Grounded(a)')
  BY DEF DecisionIsGrounded, Grounded
<1>2. RowsOK /\ FeedbackIsAwaited <=> \A i \in Interviews : RowAt(i)
  BY DEF RowsOK, FeedbackIsAwaited, RowAt
<1>3. RowsOK' /\ FeedbackIsAwaited' <=> \A i \in Interviews : RowAt(i)'
  BY DEF RowsOK, FeedbackIsAwaited, RowAt
<1> QED
  BY <1>1, <1>2, <1>3

LEMMA RowUnchanged ==
  ASSUME NEW i \in Interviews, RowAt(i), ivw'[i] = ivw[i], fb'[i] = fb[i]
  PROVE  RowAt(i)'
<1>1. Judged(i)' <=> Judged(i)
  BY DEF Judged, Required, HandedIn
<1> QED
  BY <1>1 DEF RowAt, Required, HandedIn, On, RoundNames

(* What was judged or missed stays so, and an application that comes to no  *)
(* decision has nothing to show.                                            *)
LEMMA DecisionKept ==
  ASSUME NEW a \in Applications, Grounded(a),
         \A i \in Interviews : ivw[i].st \in {"feedback_completed", "no_show"} => ivw'[i] = ivw[i],
         \A i \in Interviews : HandedIn(i) \subseteq HandedIn(i)',
         app'[a].stage \in {"decision", "passed", "hired"} => app[a].stage \in {"decision", "passed", "hired"}
  PROVE  Grounded(a)'
<1> SUFFICES ASSUME app'[a].stage \in {"decision", "passed", "hired"}
             PROVE  \E i \in Of(a)' :
                      /\ Judged(i)'
                      /\ ~HasNext(ivw'[i].round) \/ \E j \in Of(a)' : ivw'[j].st = "no_show" /\ ivw'[j].round \in OtherRounds
  BY DEF Grounded, HasNext
<1>1. PICK i \in Of(a) :
        /\ Judged(i)
        /\ ~HasNext(ivw[i].round) \/ \E j \in Of(a) : ivw[j].st = "no_show" /\ ivw[j].round \in OtherRounds
  BY DEF Grounded
<1>2. i \in Of(a)' /\ Judged(i)' /\ ivw'[i] = ivw[i]
  BY <1>1 DEF Of, Judged, Required
<1>3. \A j \in Of(a) : ivw[j].st = "no_show" => j \in Of(a)' /\ ivw'[j] = ivw[j]
  BY DEF Of
<1> QED
  BY <1>1, <1>2, <1>3

(* What was found under the lock of another candidate is still so.          *)
LEMMA HeldKept ==
  ASSUME HeldIsCurrent, NEW a \in Applications, held'[a] = Idle,
         \A b \in Applications \ {a} : held'[b] = held[b] /\ app'[b] = app[b],
         \A i \in Interviews : ivw'[i] = ivw[i] \/ ivw[i].of \in {a, None}
  PROVE  HeldIsCurrent'
<1>1. ASSUME NEW b \in Applications \ {a}
      PROVE  /\ held'[b] # Idle => ~Ended(b)'
             /\ held'[b] = Booking => app'[b].stage \in Bookable
             /\ \A i \in Interviews : held'[b] = [kind |-> "move", i |-> i] => ivw'[i].of = b /\ ivw'[i].st \in Scheduled
  BY ConstantsAssumption DEF HeldIsCurrent, Free, Ended
<1>2. \A i \in Interviews : held'[a] # [kind |-> "move", i |-> i]
  BY CommandsDiffer
<1>3. held'[a] # Booking
  BY CommandsDiffer
<1> QED
  BY <1>1, <1>2, <1>3 DEF HeldIsCurrent, Free

(* No application ends, and no interview of one that has ended comes back.  *)
LEMMA EndedKept ==
  ASSUME EndedIsClear,
         \A a \in Applications : app'[a].ended => app[a].ended,
         \A i \in Interviews : ivw'[i].st \in Unfinished /\ ivw'[i].of \in Applications =>
           \/ ivw[i].st \in Unfinished /\ ivw'[i].of = ivw[i].of
           \/ ~app'[ivw'[i].of].ended
  PROVE  EndedIsClear'
  BY DEF EndedIsClear, Of

-----------------------------------------------------------------------------
(* The end of a round.                                                      *)

LEMMA AdvanceIs ==
  ASSUME TypeOK, NEW rows, NEW a \in Applications, NEW r, Advance(rows, a, r)
  PROVE  /\ app' \in [Applications -> [stage : Stages, ended : BOOLEAN]]
         /\ \A b \in Applications \ {a} : app'[b] = app[b]
         /\ app'[a].ended = app[a].ended
         /\ \/ app'[a].stage = app[a].stage
            \/ app'[a].stage = "interview_pending"
            \/ app'[a].stage = "decision" /\ RoundDone(rows, a, r) /\ ~HasNext(r)
<1>1. CASE app' = app
  BY <1>1 DEF TypeOK
<1>2. CASE app' # app
  <2>1. /\ RoundDone(rows, a, r)
        /\ app' = [app EXCEPT ![a].stage = IF HasNext(r) THEN "interview_pending" ELSE "decision"]
    BY <1>2 DEF Advance
  <2> QED
    BY <2>1, StagesAre DEF TypeOK
<1> QED
  BY <1>1, <1>2

(* A round that is done has an interview that was judged.                   *)
LEMMA DoneRoundIsJudged ==
  ASSUME NEW a \in Applications, NEW r, RoundDone(ivw, a, r)',
         \A i \in Interviews : RowAt(i)'
  PROVE  \E i \in Of(a)' : Judged(i)' /\ (r \in {Workflow[k] : k \in DOMAIN Workflow} => ivw'[i].round = r)
  BY DEF RoundDone, Of, RowAt

-----------------------------------------------------------------------------
(* The steps.                                                               *)

(* A step of a candidate who is free that touches only the application and  *)
(* its interviews, and books nothing: what is left to show of it.           *)
LEMMA StepOfFree ==
  ASSUME IInv, NEW a \in Applications, Free(a), held' = held, TypeOK',
         \A b \in Applications \ {a} : app'[b] = app[b],
         \A i \in Interviews : ivw'[i] = ivw[i] \/
           /\ ivw[i].of = a /\ ivw[i].st \in Unfinished
           /\ ivw'[i].of = a /\ ivw'[i].slot = ivw[i].slot /\ ivw'[i].panel = ivw[i].panel,
         \A i \in Interviews : RowAt(i)',
         \A i \in Interviews : HandedIn(i) \subseteq HandedIn(i)',
         app'[a].ended => app[a].ended \/ \A i \in Of(a) : ivw'[i].st \notin Unfinished,
         app'[a].stage \in {"decision", "passed", "hired"} =>
           app[a].stage \in {"decision", "passed", "hired"} \/ Grounded(a)'
  PROVE  IInv'
<1> USE DEF IInv
<1>1. HeldIsCurrent'
  BY HeldKept DEF Free
<1>2. RowsOK' /\ FeedbackIsAwaited'
  BY PartsAre
<1>3. NoDoubleBooking'
  BY BookingsKept DEF Live, Unfinished, Scheduled
<1>4. \A i \in Interviews : ivw[i].st \in {"feedback_completed", "no_show"} => ivw'[i] = ivw[i]
  BY DEF Unfinished, Scheduled
<1>5. DecisionIsGrounded'
  <2>1. ASSUME NEW b \in Applications PROVE Grounded(b)'
    <3>1. Grounded(b)
      BY PartsAre
    <3>2. CASE b # a
      BY <1>4, <3>1, <3>2, DecisionKept
    <3>3. CASE b = a /\ app'[a].stage \in {"decision", "passed", "hired"} /\ app[a].stage \notin {"decision", "passed", "hired"}
      BY <3>3
    <3>4. CASE b = a /\ (app'[a].stage \in {"decision", "passed", "hired"} => app[a].stage \in {"decision", "passed", "hired"})
      BY <1>4, <3>1, <3>4, DecisionKept
    <3> QED
      BY <3>2, <3>3, <3>4
  <2> QED
    BY <2>1, PartsAre
<1>6. EndedIsClear'
  <2> SUFFICES ASSUME NEW b \in Applications, app'[b].ended, NEW i \in Interviews, ivw'[i].of = b
               PROVE  ivw'[i].st \notin Unfinished
    BY DEF EndedIsClear, Of
  <2>1. ivw[i].of = b
    OBVIOUS
  <2> QED
    BY <2>1 DEF EndedIsClear, Of
<1> QED
  BY <1>1, <1>2, <1>3, <1>5, <1>6

(* The application of a row that is not absent.                             *)
LEMMA HasApplication ==
  ASSUME IInv, NEW i \in Interviews, ivw[i].st # "none"
  PROVE  ivw[i].of \in Applications
  BY DEF IInv, TypeOK, InterviewRow, RowsOK

LEMMA BeginCreateStep ==
  ASSUME IInv, NEW a \in Applications, BeginCreate(a)
  PROVE  IInv'
<1> USE DEF IInv, BeginCreate, Hold
<1>1. TypeOK'
  BY DEF TypeOK, Command
<1>2. UNCHANGED <<app, ivw, fb>>
  OBVIOUS
<1>3. HeldIsCurrent'
  BY CommandsDiffer DEF HeldIsCurrent, Free, Ended, TypeOK
<1> QED
  BY <1>1, <1>2, <1>3, PartsAre, RowUnchanged
     DEF RowsOK, NoDoubleBooking, FeedbackIsAwaited, DecisionIsGrounded, EndedIsClear,
         On, Required, HandedIn, Judged, Of, HasNext, RoundNames

LEMMA BeginMoveStep ==
  ASSUME IInv, NEW a \in Applications, NEW i \in Interviews, BeginMove(a, i)
  PROVE  IInv'
<1> USE DEF IInv, BeginMove
<1>1. TypeOK'
  BY ConstantsAssumption DEF TypeOK, Command
<1>2. UNCHANGED <<app, ivw, fb>>
  OBVIOUS
<1>3. HeldIsCurrent'
  BY CommandsDiffer DEF HeldIsCurrent, Free, Ended, TypeOK
<1> QED
  BY <1>1, <1>2, <1>3, PartsAre, RowUnchanged
     DEF RowsOK, NoDoubleBooking, FeedbackIsAwaited, DecisionIsGrounded, EndedIsClear,
         On, Required, HandedIn, Judged, Of, HasNext, RoundNames

LEMMA RefuseStep ==
  ASSUME IInv, NEW a \in Applications, Refuse(a)
  PROVE  IInv'
<1> USE DEF IInv, Refuse, Release
<1>1. TypeOK'
  BY DEF TypeOK, Command
<1>2. UNCHANGED <<app, ivw, fb>>
  OBVIOUS
<1>3. HeldIsCurrent'
  BY HeldKept DEF TypeOK
<1> QED
  BY <1>1, <1>2, <1>3, PartsAre, RowUnchanged
     DEF RowsOK, NoDoubleBooking, FeedbackIsAwaited, DecisionIsGrounded, EndedIsClear,
         On, Required, HandedIn, Judged, Of, HasNext, RoundNames

LEMMA CreateStep ==
  ASSUME IInv, NEW a \in Applications, NEW r \in RoundNames, NEW s \in Slots, NEW panel \in Panels,
         Create(a, r, s, panel)
  PROVE  IInv'
<1> USE DEF IInv
<1> DEFINE row == [of |-> a, st |-> "scheduled", round |-> r, slot |-> s, panel |-> panel]
<1>1. PICK i \in Interviews : ivw[i] = Absent /\ ivw' = [ivw EXCEPT ![i] = row]
  BY DEF Create
<1>2. /\ held[a] = Booking /\ ~Clash(a, panel, s, None) /\ app' = ToInterviewing(a)
      /\ held' = [held EXCEPT ![a] = Idle] /\ UNCHANGED <<fb, changes>>
  BY DEF Create, Release
<1>3. ivw'[i] = row /\ \A j \in Interviews \ {i} : ivw'[j] = ivw[j]
  BY <1>1 DEF TypeOK
<1>4. app'[a].stage = "interviewing" /\ app'[a].ended = app[a].ended /\ \A b \in Applications \ {a} : app'[b] = app[b]
  BY <1>2 DEF ToInterviewing, TypeOK
<1>5. TypeOK'
  <2>1. row \in InterviewRow
    BY DEF InterviewRow, Statuses, Unfinished, Scheduled
  <2> QED
    BY <1>1, <1>2, <2>1, StagesAre DEF TypeOK, ToInterviewing, Command
<1>6. ivw[i].st = "none" /\ ivw[i].of = None /\ ivw[i].panel = NoPanel
  BY <1>1 DEF Absent
<1>7. HeldIsCurrent'
  <2>1. held'[a] = Idle /\ \A b \in Applications \ {a} : held'[b] = held[b]
    BY <1>2 DEF TypeOK
  <2> QED
    BY <1>3, <1>4, <1>6, <2>1, HeldKept
<1>8. ASSUME NEW j \in Interviews PROVE RowAt(j)'
  <2>1. CASE j # i
    BY <1>2, <1>3, <2>1, PartsAre, RowUnchanged
  <2>2. CASE j = i
    <3>1. RowAt(i)
      BY PartsAre
    <3>2. \A p \in People : fb'[i][p] = "none"
      BY <1>2, <1>6, <3>1 DEF RowAt, On, NoPanel
    <3>3. HandedIn(i)' = {}
      BY <3>2 DEF HandedIn
    <3>4. ivw'[i].st = "scheduled" /\ ivw'[i].of = a /\ ivw'[i].round = r /\ ivw'[i].panel = panel
      BY <1>3
    <3> QED
      BY <2>2, <3>2, <3>3, <3>4, ConstantsAssumption DEF RowAt, Absent, Unfinished, Scheduled, RoundNames, Required
  <2> QED
    BY <2>1, <2>2
<1>9. NoDoubleBooking'
  <2>1. ~Live(i)
    BY <1>6 DEF Live
  <2> QED
    BY <1>2, <1>3, <2>1, BookingMade
<1>10. DecisionIsGrounded'
  <2>1. \A j \in Interviews : ivw[j].st \in {"feedback_completed", "no_show"} => ivw'[j] = ivw[j]
    BY <1>3, <1>6
  <2>2. \A j \in Interviews : HandedIn(j)' = HandedIn(j)
    BY <1>2 DEF HandedIn
  <2> QED
    BY <1>4, <2>1, <2>2, PartsAre, DecisionKept
<1>11. EndedIsClear'
  <2>1. ~app[a].ended
    BY <1>2, CommandsDiffer DEF HeldIsCurrent, Free, Ended
  <2> QED
    BY <1>3, <1>4, <2>1, EndedKept
<1> QED
  BY <1>5, <1>7, <1>8, <1>9, <1>10, <1>11, PartsAre

LEMMA MoveStep ==
  ASSUME IInv, NEW a \in Applications, NEW i \in Interviews, NEW s \in Slots, NEW panel \in Panels,
         Move(a, i, s, panel)
  PROVE  IInv'
<1> USE DEF IInv
<1>1. /\ held[a] = [kind |-> "move", i |-> i] /\ ~Clash(a, panel, s, i)
      /\ panel # ivw[i].panel => Unwritten(i)
      /\ ivw' = [ivw EXCEPT ![i].st = "scheduled", ![i].slot = s, ![i].panel = panel]
      /\ held' = [held EXCEPT ![a] = Idle] /\ UNCHANGED <<app, fb, changes>>
  BY DEF Move, Release
<1>2. ivw[i].of = a /\ ivw[i].st \in Scheduled /\ ~Ended(a)
  BY <1>1, CommandsDiffer DEF HeldIsCurrent, Free
<1>3. /\ ivw'[i] = [ivw[i] EXCEPT !.st = "scheduled", !.slot = s, !.panel = panel]
      /\ \A j \in Interviews \ {i} : ivw'[j] = ivw[j]
  BY <1>1 DEF TypeOK
<1>4. ivw'[i].of = a /\ ivw'[i].st = "scheduled" /\ ivw'[i].slot = s /\ ivw'[i].panel = panel /\ ivw'[i].round = ivw[i].round
  BY <1>2, <1>3 DEF TypeOK, InterviewRow
<1>5. TypeOK'
  <2>1. ivw'[i] \in InterviewRow
    <3>1. ivw[i] \in InterviewRow /\ "scheduled" \in Statuses
      BY DEF TypeOK, Statuses, Unfinished, Scheduled
    <3> HIDE DEF IInv
    <3> QED
      BY <1>3, <3>1 DEF InterviewRow
  <2>2. ivw' \in [Interviews -> InterviewRow]
    <3>1. ivw' = [j \in Interviews |-> ivw'[j]]
      BY <1>1 DEF TypeOK
    <3> QED
      BY <1>3, <2>1, <3>1 DEF TypeOK
  <2>3. held' \in [Applications -> Command]
    BY <1>1 DEF TypeOK, Command
  <2> QED
    BY <1>1, <2>2, <2>3 DEF TypeOK
<1>6. HeldIsCurrent'
  <2>1. held'[a] = Idle /\ \A b \in Applications \ {a} : held'[b] = held[b]
    BY <1>1 DEF TypeOK
  <2> QED
    BY <1>1, <1>2, <1>3, <2>1, HeldKept
<1>7. ASSUME NEW j \in Interviews PROVE RowAt(j)'
  <2>1. CASE j # i
    BY <1>1, <1>3, <2>1, PartsAre, RowUnchanged
  <2>2. CASE j = i
    <3>1. RowAt(i)
      BY PartsAre
    <3>2. HandedIn(i)' = HandedIn(i)
      BY <1>1 DEF HandedIn
    <3>3. CASE panel = ivw[i].panel
      <4>1. /\ Required(panel) = {} \/ ~(Required(panel) \subseteq HandedIn(i))
            /\ ivw[i].round \in RoundNames /\ \A p \in People : fb[i][p] # "none" => p \in On(panel)
        BY <1>2, <3>1, <3>3 DEF RowAt, Unfinished, Scheduled
      <4>2. ivw'[i] # Absent /\ ivw'[i].of # None
        BY <1>4, ConstantsAssumption DEF Absent
      <4> QED
        BY <1>1, <1>4, <2>2, <3>2, <4>1, <4>2 DEF RowAt, Required, On, RoundNames
    <3>4. CASE Unwritten(i)
      <4>1. HandedIn(i)' = {} /\ \A p \in People : fb'[i][p] = "none"
        BY <1>1, <3>4 DEF HandedIn, Unwritten
      <4> QED
        BY <1>2, <1>4, <2>2, <3>1, <4>1, ConstantsAssumption
           DEF RowAt, Absent, Unfinished, Scheduled, RoundNames, Required, On
    <3> QED
      BY <1>1, <3>3, <3>4
  <2> QED
    BY <2>1, <2>2
<1>8. NoDoubleBooking'
  BY <1>1, <1>3, <1>4, BookingMade
<1>9. DecisionIsGrounded'
  <2>1. \A j \in Interviews : ivw[j].st \in {"feedback_completed", "no_show"} => ivw'[j] = ivw[j]
    BY <1>2, <1>3 DEF Scheduled
  <2>2. \A j \in Interviews : HandedIn(j)' = HandedIn(j)
    BY <1>1 DEF HandedIn
  <2> QED
    BY <1>1, <2>1, <2>2, PartsAre, DecisionKept
<1>10. EndedIsClear'
  BY <1>1, <1>2, <1>3, <1>4, EndedKept DEF Ended
<1> QED
  BY <1>5, <1>6, <1>7, <1>8, <1>9, <1>10, PartsAre

(* An interview that comes to another status.                               *)
LEMMA StatusChanged ==
  ASSUME IInv, NEW i \in Interviews, ivw[i].st \in Unfinished, NEW st \in Statuses,
         ivw' = [ivw EXCEPT ![i].st = st]
  PROVE  /\ ivw' \in [Interviews -> InterviewRow]
         /\ ivw'[i].st = st /\ ivw'[i].of = ivw[i].of /\ ivw'[i].slot = ivw[i].slot
         /\ ivw'[i].panel = ivw[i].panel /\ ivw'[i].round = ivw[i].round
         /\ \A j \in Interviews \ {i} : ivw'[j] = ivw[j]
         /\ ivw[i].of \in Applications
<1>1. ivw \in [Interviews -> InterviewRow] /\ ivw[i] \in InterviewRow
  BY DEF IInv, TypeOK
<1>2. ivw'[i] = [ivw[i] EXCEPT !.st = st] /\ \A j \in Interviews \ {i} : ivw'[j] = ivw[j]
  BY <1>1
<1>3. ivw'[i] \in InterviewRow
  BY <1>1, <1>2 DEF InterviewRow
<1>4. ivw' \in [Interviews -> InterviewRow]
  <2>1. ivw' = [j \in Interviews |-> ivw'[j]]
    BY <1>1
  <2> QED
    BY <1>1, <1>2, <1>3, <2>1
<1>5. ivw[i].of \in Applications
  BY HasApplication DEF Unfinished, Scheduled
<1> QED
  BY <1>1, <1>2, <1>4, <1>5 DEF InterviewRow

(* What such a change leaves to show of the interviews: the row itself.     *)
LEMMA RowsAfter ==
  ASSUME IInv, NEW i \in Interviews, \A j \in Interviews \ {i} : ivw'[j] = ivw[j] /\ fb'[j] = fb[j], RowAt(i)'
  PROVE  \A j \in Interviews : RowAt(j)'
<1> SUFFICES ASSUME NEW j \in Interviews, j # i PROVE RowAt(j)'
  OBVIOUS
<1>1. RowAt(j)
  BY PartsAre DEF IInv
<1> QED
  BY <1>1, RowUnchanged

LEMMA ConfirmStep ==
  ASSUME IInv, NEW i \in Interviews, Confirm(i)
  PROVE  IInv'
<1> DEFINE a == ivw[i].of
<1>1. /\ ivw[i].st = "scheduled" /\ Free(a) /\ ivw' = [ivw EXCEPT ![i].st = "confirmed"]
      /\ UNCHANGED <<app, fb, held, changes>>
  BY DEF Confirm
<1>2. ivw[i].st \in Unfinished /\ "confirmed" \in Statuses /\ "confirmed" \in Unfinished
  BY <1>1 DEF Unfinished, Scheduled, Statuses
<1>3. /\ ivw' \in [Interviews -> InterviewRow]
      /\ ivw'[i].st = "confirmed" /\ ivw'[i].of = a /\ ivw'[i].slot = ivw[i].slot
      /\ ivw'[i].panel = ivw[i].panel /\ ivw'[i].round = ivw[i].round
      /\ \A j \in Interviews \ {i} : ivw'[j] = ivw[j]
      /\ a \in Applications
  BY <1>1, <1>2, StatusChanged
<1>4. TypeOK'
  BY <1>1, <1>3 DEF IInv, TypeOK
<1>5. RowAt(i)'
  <2>1. RowAt(i) /\ HandedIn(i)' = HandedIn(i)
    BY <1>1, PartsAre DEF HandedIn, IInv
  <2> QED
    BY <1>1, <1>2, <1>3, <2>1, ConstantsAssumption DEF RowAt, Absent, RoundNames, Required, On
<1>6. \A j \in Interviews : RowAt(j)' /\ HandedIn(j) \subseteq HandedIn(j)'
  BY <1>1, <1>3, <1>5, RowsAfter DEF HandedIn
<1> QED
  BY <1>1, <1>2, <1>3, <1>4, <1>6, StepOfFree

(* An interview is cancelled; the stage of the application stays.           *)
LEMMA CancelStep ==
  ASSUME IInv, NEW i \in Interviews, Cancel(i)
  PROVE  IInv'
<1> DEFINE a == ivw[i].of
<1>1. /\ ivw[i].st \in Unfinished /\ Free(a) /\ ivw' = [ivw EXCEPT ![i].st = "cancelled"]
      /\ UNCHANGED <<app, fb, held, changes>>
  BY DEF Cancel, Cancelled
<1>2. "cancelled" \in Statuses /\ "cancelled" \notin Unfinished
  BY DEF Unfinished, Scheduled, Statuses
<1>3. /\ ivw' \in [Interviews -> InterviewRow]
      /\ ivw'[i].st = "cancelled" /\ ivw'[i].of = a /\ ivw'[i].slot = ivw[i].slot
      /\ ivw'[i].panel = ivw[i].panel /\ ivw'[i].round = ivw[i].round
      /\ \A j \in Interviews \ {i} : ivw'[j] = ivw[j]
      /\ a \in Applications
  BY <1>1, <1>2, StatusChanged
<1>4. TypeOK'
  BY <1>1, <1>3 DEF IInv, TypeOK
<1>5. RowAt(i)'
  <2>1. RowAt(i) /\ ivw[i].st # "none"
    BY <1>1, PartsAre DEF IInv, Unfinished, Scheduled
  <2> QED
    BY <1>1, <1>2, <1>3, <2>1, ConstantsAssumption DEF RowAt, Absent, RoundNames, On
<1>6. \A j \in Interviews : RowAt(j)' /\ HandedIn(j) \subseteq HandedIn(j)'
  BY <1>1, <1>3, <1>5, RowsAfter DEF HandedIn
<1> QED
  BY <1>1, <1>2, <1>3, <1>4, <1>6, StepOfFree

(* An interview is held: its feedback is awaited, or it is closed.          *)
LEMMA CompleteStep ==
  ASSUME IInv, NEW i \in Interviews, Complete(i)
  PROVE  IInv'
<1> DEFINE a == ivw[i].of
           st == IF Required(ivw[i].panel) # {} THEN "pending_feedback" ELSE "feedback_completed"
<1>1. /\ ivw[i].st = "confirmed" /\ Free(a) /\ ~Ended(a) /\ ivw' = [ivw EXCEPT ![i].st = st]
      /\ UNCHANGED <<fb, held, changes>>
  BY DEF Complete
<1>2. ivw[i].st \in Unfinished /\ st \in Statuses
  BY <1>1 DEF Unfinished, Scheduled, Statuses
<1>3. /\ ivw' \in [Interviews -> InterviewRow]
      /\ ivw'[i].st = st /\ ivw'[i].of = a /\ ivw'[i].slot = ivw[i].slot
      /\ ivw'[i].panel = ivw[i].panel /\ ivw'[i].round = ivw[i].round
      /\ \A j \in Interviews \ {i} : ivw'[j] = ivw[j]
      /\ a \in Applications
  <2> HIDE DEF st
  <2> QED
    BY <1>1, <1>2, StatusChanged
<1>4. app' = app \/ (st = "feedback_completed" /\ Advance(ivw', a, ivw[i].round))
  BY <1>1, <1>3 DEF Complete
<1>5. /\ app' \in [Applications -> [stage : Stages, ended : BOOLEAN]]
      /\ \A b \in Applications \ {a} : app'[b] = app[b]
      /\ app'[a].ended = app[a].ended
      /\ \/ app'[a].stage = app[a].stage
         \/ app'[a].stage = "interview_pending"
         \/ app'[a].stage = "decision" /\ st = "feedback_completed" /\ ~HasNext(ivw[i].round)
  <2>1. CASE app' = app
    BY <2>1 DEF IInv, TypeOK
  <2>2. CASE st = "feedback_completed" /\ Advance(ivw', a, ivw[i].round)
    BY <1>3, <2>2, AdvanceIs DEF IInv
  <2> QED
    BY <1>4, <2>1, <2>2
<1>6. TypeOK'
  BY <1>1, <1>3, <1>5 DEF IInv, TypeOK
<1>7. RowAt(i)'
  <2>1. RowAt(i) /\ HandedIn(i)' = HandedIn(i)
    BY <1>1, PartsAre DEF HandedIn, IInv
  <2>2. Required(ivw[i].panel) = {} \/ ~(Required(ivw[i].panel) \subseteq HandedIn(i))
    BY <1>2, <2>1 DEF RowAt
  <2>3. ivw[i].round \in RoundNames /\ \A p \in People : fb[i][p] # "none" => p \in On(ivw[i].panel)
    BY <1>1, <2>1 DEF RowAt
  <2>4. ivw'[i].st # "none" /\ ivw'[i] # Absent /\ ivw'[i].of # None
    BY <1>3, ConstantsAssumption DEF Absent
  <2>5. Required(ivw'[i].panel) = Required(ivw[i].panel) /\ On(ivw'[i].panel) = On(ivw[i].panel)
    BY <1>3
  <2> QED
    BY <1>1, <1>3, <2>1, <2>2, <2>3, <2>4, <2>5 DEF RowAt, RoundNames, Judged, Required, On
<1>8. \A j \in Interviews : RowAt(j)' /\ HandedIn(j) \subseteq HandedIn(j)'
  BY <1>1, <1>3, <1>7, RowsAfter DEF HandedIn
<1>9. ASSUME app'[a].stage = "decision", st = "feedback_completed", ~HasNext(ivw[i].round) PROVE Grounded(a)'
  <2>1. Judged(i)' /\ i \in Of(a)'
    BY <1>3, <1>7, <1>9 DEF RowAt, Of
  <2> QED
    BY <1>3, <1>9, <2>1 DEF Grounded, HasNext
<1>10. app'[a].stage \in {"decision", "passed", "hired"} =>
         app[a].stage \in {"decision", "passed", "hired"} \/ Grounded(a)'
  BY <1>5, <1>9
<1> HIDE DEF st
<1> QED
  BY <1>1, <1>2, <1>3, <1>5, <1>6, <1>8, <1>10, StepOfFree

(* An interview that nobody came to ends its round where the others have    *)
(* been judged.                                                             *)
LEMMA NoShowStep ==
  ASSUME IInv, NEW i \in Interviews, NoShow(i)
  PROVE  IInv'
<1> DEFINE a == ivw[i].of
           r == ivw[i].round
<1>1. /\ ivw[i].st \in Scheduled /\ Free(a) /\ ivw' = [ivw EXCEPT ![i].st = "no_show"]
      /\ UNCHANGED <<fb, held, changes>>
  BY DEF NoShow
<1>2. ivw[i].st \in Unfinished /\ "no_show" \in Statuses
  BY <1>1 DEF Unfinished, Statuses
<1>3. /\ ivw' \in [Interviews -> InterviewRow]
      /\ ivw'[i].st = "no_show" /\ ivw'[i].of = a /\ ivw'[i].slot = ivw[i].slot
      /\ ivw'[i].panel = ivw[i].panel /\ ivw'[i].round = r
      /\ \A j \in Interviews \ {i} : ivw'[j] = ivw[j]
      /\ a \in Applications
  BY <1>1, <1>2, StatusChanged
<1>4. Advance(ivw', a, r)
  BY <1>1 DEF NoShow
<1>5. /\ app' \in [Applications -> [stage : Stages, ended : BOOLEAN]]
      /\ \A b \in Applications \ {a} : app'[b] = app[b]
      /\ app'[a].ended = app[a].ended
      /\ \/ app'[a].stage = app[a].stage
         \/ app'[a].stage = "interview_pending"
         \/ app'[a].stage = "decision" /\ RoundDone(ivw', a, r) /\ ~HasNext(r)
  BY <1>3, <1>4, AdvanceIs DEF IInv
<1>6. TypeOK'
  BY <1>1, <1>3, <1>5 DEF IInv, TypeOK
<1>7. r \in RoundNames
  BY <1>1, PartsAre DEF IInv, RowAt, Scheduled
<1>8. RowAt(i)'
  <2>1. RowAt(i) /\ ivw[i].st # "none"
    BY <1>1, PartsAre DEF IInv, Scheduled
  <2> QED
    BY <1>1, <1>3, <1>7, <2>1, ConstantsAssumption DEF RowAt, Absent, Unfinished, Scheduled, RoundNames, On
<1>9. \A j \in Interviews : RowAt(j)' /\ HandedIn(j) \subseteq HandedIn(j)'
  BY <1>1, <1>3, <1>8, RowsAfter DEF HandedIn
<1>10. ASSUME app'[a].stage = "decision", RoundDone(ivw', a, r), ~HasNext(r) PROVE Grounded(a)'
  <2>1. PICK k \in Of(a)' : Judged(k)' /\ (r \in {Workflow[n] : n \in DOMAIN Workflow} => ivw'[k].round = r)
    BY <1>3, <1>9, <1>10 DEF RoundDone, Of, RowAt
  <2>2. CASE r \in {Workflow[n] : n \in DOMAIN Workflow}
    BY <1>10, <2>1, <2>2 DEF Grounded, HasNext
  <2>3. CASE r \in OtherRounds
    <3>1. i \in Of(a)' /\ ivw'[i].st = "no_show" /\ ivw'[i].round \in OtherRounds
      BY <1>3, <2>3 DEF Of
    <3> QED
      BY <2>1, <3>1 DEF Grounded
  <2> QED
    BY <1>7, <2>2, <2>3 DEF RoundNames
<1>11. app'[a].stage \in {"decision", "passed", "hired"} =>
         app[a].stage \in {"decision", "passed", "hired"} \/ Grounded(a)'
  BY <1>5, <1>10
<1> QED
  BY <1>1, <1>2, <1>3, <1>5, <1>6, <1>9, <1>11, StepOfFree

LEMMA DraftStep ==
  ASSUME IInv, NEW i \in Interviews, NEW p \in People, Draft(i, p)
  PROVE  IInv'
<1> DEFINE a == ivw[i].of
<1>1. /\ ivw[i].st \in Unfinished /\ Free(a) /\ p \in On(ivw[i].panel) /\ fb[i][p] = "none"
      /\ fb' = [fb EXCEPT ![i][p] = "draft"] /\ UNCHANGED <<app, ivw, held, changes>>
  BY DEF Draft
<1>2. a \in Applications
  BY <1>1, HasApplication DEF Unfinished, Scheduled
<1>3. /\ fb' \in [Interviews -> [People -> FeedbackStates]]
      /\ fb'[i] = [fb[i] EXCEPT ![p] = "draft"] /\ fb[i] \in [People -> FeedbackStates]
      /\ \A j \in Interviews \ {i} : fb'[j] = fb[j]
  BY <1>1 DEF IInv, TypeOK, FeedbackStates
<1>4. TypeOK'
  BY <1>1, <1>3 DEF IInv, TypeOK
<1>5. HandedIn(i)' = HandedIn(i)
  BY <1>1, <1>3 DEF HandedIn
<1>6. RowAt(i)'
  <2>1. RowAt(i)
    BY PartsAre DEF IInv
  <2>2. \A q \in People : fb'[i][q] # "none" => q \in On(ivw[i].panel)
    BY <1>1, <1>3, <2>1 DEF RowAt
  <2>3. Judged(i)' <=> Judged(i)
    BY <1>1, <1>5 DEF Judged, Required
  <2> QED
    BY <1>1, <1>5, <2>1, <2>2, <2>3 DEF RowAt, Required, On, RoundNames
<1>7. \A j \in Interviews : RowAt(j)' /\ HandedIn(j) \subseteq HandedIn(j)'
  BY <1>1, <1>3, <1>5, <1>6, RowsAfter DEF HandedIn
<1> QED
  BY <1>1, <1>2, <1>4, <1>7, StepOfFree

LEMMA AmendStep ==
  ASSUME IInv, NEW i \in Interviews, NEW p \in People, Amend(i, p)
  PROVE  IInv'
<1>1. /\ fb[i][p] \in {"submitted", "amended"} /\ Free(ivw[i].of)
      /\ fb' = [fb EXCEPT ![i][p] = "amended"] /\ changes' \in 0..MaxChanges /\ UNCHANGED <<app, ivw, held>>
  <2>1. changes' = changes + 1 /\ changes < MaxChanges /\ changes \in 0..MaxChanges
    BY DEF Amend, IInv, TypeOK
  <2> QED
    BY <2>1, ConstantsAssumption DEF Amend, Revised
<1>2. /\ fb' \in [Interviews -> [People -> FeedbackStates]]
      /\ fb'[i] = [fb[i] EXCEPT ![p] = "amended"] /\ fb[i] \in [People -> FeedbackStates]
      /\ \A j \in Interviews \ {i} : fb'[j] = fb[j]
  BY <1>1 DEF IInv, TypeOK, FeedbackStates
<1>3. TypeOK'
  BY <1>1, <1>2 DEF IInv, TypeOK
<1>4. HandedIn(i)' = HandedIn(i)
  BY <1>1, <1>2 DEF HandedIn
<1>5. RowAt(i) /\ \A q \in People : fb'[i][q] # "none" => q \in On(ivw[i].panel)
  BY <1>1, <1>2, PartsAre DEF RowAt, IInv
<1>6. ivw[i].of \in Applications
  <2>1. p \in On(ivw[i].panel)
    BY <1>1, <1>5 DEF RowAt
  <2>2. ivw[i].st # "none"
    BY <1>5, <2>1 DEF RowAt, Absent, On, NoPanel
  <2> QED
    BY <2>2, HasApplication
<1>7. RowAt(i)'
  <2>1. Judged(i)' <=> Judged(i)
    BY <1>1, <1>4 DEF Judged, Required
  <2> QED
    BY <1>1, <1>4, <1>5, <2>1 DEF RowAt, Required, On, RoundNames
<1>8. \A j \in Interviews : RowAt(j)' /\ HandedIn(j) \subseteq HandedIn(j)'
  BY <1>1, <1>2, <1>4, <1>7, RowsAfter DEF HandedIn
<1> QED
  BY <1>1, <1>3, <1>6, <1>8, StepOfFree

(* The last feedback that is required closes the interview.                 *)
LEMMA SubmitStep ==
  ASSUME IInv, NEW i \in Interviews, NEW p \in People, Submit(i, p)
  PROVE  IInv'
<1> DEFINE a == ivw[i].of
           last == Required(ivw[i].panel) \subseteq HandedIn(i) \cup {p}
<1>1. /\ ivw[i].st \in Unfinished /\ Free(a) /\ p \in On(ivw[i].panel) /\ fb[i][p] = "draft"
      /\ fb' = [fb EXCEPT ![i][p] = "submitted"] /\ UNCHANGED <<held, changes>>
  BY DEF Submit
<1>2. a \in Applications
  BY <1>1, HasApplication DEF Unfinished, Scheduled
<1>3. /\ fb' \in [Interviews -> [People -> FeedbackStates]]
      /\ fb'[i] = [fb[i] EXCEPT ![p] = "submitted"] /\ fb[i] \in [People -> FeedbackStates]
      /\ \A j \in Interviews \ {i} : fb'[j] = fb[j]
  BY <1>1 DEF IInv, TypeOK, FeedbackStates
<1>4. HandedIn(i)' = HandedIn(i) \cup {p}
  BY <1>3 DEF HandedIn
<1>5. \A j \in Interviews : HandedIn(j) \subseteq HandedIn(j)'
  BY <1>3, <1>4 DEF HandedIn
<1>6. RowAt(i) /\ \A q \in People : fb'[i][q] # "none" => q \in On(ivw[i].panel)
  BY <1>1, <1>3, PartsAre DEF RowAt, IInv
<1>7. CASE ~last
  <2>1. UNCHANGED <<app, ivw>>
    BY <1>7 DEF Submit
  <2>2. TypeOK'
    BY <1>1, <1>3, <2>1 DEF IInv, TypeOK
  <2>3. RowAt(i)'
    <3>1. ~(Required(ivw[i].panel) \subseteq HandedIn(i)')
      BY <1>4, <1>7
    <3>2. ivw[i].st # "feedback_completed" /\ ivw[i].st # "none"
      BY <1>1 DEF Unfinished, Scheduled
    <3> QED
      BY <1>6, <2>1, <3>1, <3>2 DEF RowAt, Required, On, RoundNames, Absent
  <2>4. \A j \in Interviews : RowAt(j)'
    BY <1>3, <2>1, <2>3, RowsAfter
  <2> QED
    BY <1>1, <1>2, <1>5, <2>1, <2>2, <2>4, StepOfFree
<1>8. CASE last
  <2>1. ivw' = [ivw EXCEPT ![i].st = "feedback_completed"] /\ Advance(ivw', a, ivw[i].round)
    BY <1>8 DEF Submit
  <2>2. "feedback_completed" \in Statuses
    BY DEF Statuses
  <2>3. /\ ivw' \in [Interviews -> InterviewRow]
        /\ ivw'[i].st = "feedback_completed" /\ ivw'[i].of = a /\ ivw'[i].slot = ivw[i].slot
        /\ ivw'[i].panel = ivw[i].panel /\ ivw'[i].round = ivw[i].round
        /\ \A j \in Interviews \ {i} : ivw'[j] = ivw[j]
    BY <1>1, <2>1, <2>2, StatusChanged
  <2>4. /\ app' \in [Applications -> [stage : Stages, ended : BOOLEAN]]
        /\ \A b \in Applications \ {a} : app'[b] = app[b]
        /\ app'[a].ended = app[a].ended
        /\ \/ app'[a].stage = app[a].stage
           \/ app'[a].stage = "interview_pending"
           \/ app'[a].stage = "decision" /\ ~HasNext(ivw[i].round)
    BY <1>2, <2>1, AdvanceIs DEF IInv
  <2>5. TypeOK'
    BY <1>1, <1>3, <2>3, <2>4 DEF IInv, TypeOK
  <2>6. Judged(i)'
    BY <1>4, <1>8, <2>3 DEF Judged, Required
  <2>7. RowAt(i)'
    <3>1. ivw[i].round \in RoundNames /\ ivw'[i].of # None /\ ivw'[i] # Absent
      BY <1>1, <1>2, <1>6, <2>3, ConstantsAssumption DEF RowAt, Unfinished, Scheduled, Absent
    <3> QED
      BY <1>6, <2>3, <2>6, <3>1 DEF RowAt, Unfinished, Scheduled, On, RoundNames
  <2>8. \A j \in Interviews : RowAt(j)'
    BY <1>3, <2>3, <2>7, RowsAfter
  <2>9. app'[a].stage = "decision" /\ ~HasNext(ivw[i].round) => Grounded(a)'
    BY <2>3, <2>6 DEF Grounded, Of, HasNext
  <2>10. app'[a].stage \in {"decision", "passed", "hired"} =>
           app[a].stage \in {"decision", "passed", "hired"} \/ Grounded(a)'
    BY <2>4, <2>9
  <2> QED
    BY <1>1, <1>2, <1>5, <2>3, <2>4, <2>5, <2>8, <2>10, StepOfFree
<1> QED
  BY <1>7, <1>8

(* A workflow action or a withdrawal: only the stage changes, to one that   *)
(* is no decision unless there was one.                                     *)
LEMMA DecideStep ==
  ASSUME IInv, NEW a \in Applications, NEW action \in DOMAIN WorkflowActions, Decide(a, action)
  PROVE  IInv'
<1> DEFINE from == WorkflowActions[action][1]
           to   == WorkflowActions[action][2]
<1>1. /\ Free(a) /\ app[a].stage = from /\ app' = [app EXCEPT ![a].stage = to]
      /\ UNCHANGED <<ivw, fb, held, changes>>
  BY DEF Decide, Decided
<1>2. <<from, to>> \in {<<"review", "interview_pending">>, <<"review", "rejected">>, <<"decision", "passed">>,
                        <<"decision", "rejected">>, <<"passed", "hired">>, <<"passed", "withdrawn">>}
  BY DEF WorkflowActions
<1>3. to \in Stages /\ (to \in {"decision", "passed", "hired"} => from \in {"decision", "passed", "hired"})
  BY <1>2, StagesAre
<1> HIDE DEF from, to
<1>4. /\ app' \in [Applications -> [stage : Stages, ended : BOOLEAN]]
      /\ app'[a].stage = to /\ app'[a].ended = app[a].ended /\ \A b \in Applications \ {a} : app'[b] = app[b]
  BY <1>1, <1>3 DEF IInv, TypeOK
<1>5. TypeOK'
  BY <1>1, <1>4 DEF IInv, TypeOK
<1>6. \A j \in Interviews : RowAt(j)' /\ HandedIn(j) \subseteq HandedIn(j)'
  BY <1>1, PartsAre, RowUnchanged DEF HandedIn, IInv
<1> QED
  BY <1>1, <1>3, <1>4, <1>5, <1>6, StepOfFree

LEMMA WithdrawStep ==
  ASSUME IInv, NEW a \in Applications, Withdraw(a)
  PROVE  IInv'
<1>1. /\ Free(a) /\ app' = [app EXCEPT ![a].stage = "withdrawn"] /\ UNCHANGED <<ivw, fb, held, changes>>
  BY DEF Withdraw
<1>2. /\ app' \in [Applications -> [stage : Stages, ended : BOOLEAN]]
      /\ app'[a].stage = "withdrawn" /\ app'[a].ended = app[a].ended
      /\ \A b \in Applications \ {a} : app'[b] = app[b]
  BY <1>1, StagesAre DEF IInv, TypeOK
<1>3. TypeOK'
  BY <1>1, <1>2 DEF IInv, TypeOK
<1>4. \A j \in Interviews : RowAt(j)' /\ HandedIn(j) \subseteq HandedIn(j)'
  BY <1>1, PartsAre, RowUnchanged DEF HandedIn, IInv
<1> QED
  BY <1>1, <1>2, <1>3, <1>4, StepOfFree

(* A termination takes every unfinished interview with it.                  *)
LEMMA TerminateStep ==
  ASSUME IInv, NEW a \in Applications, Terminate(a)
  PROVE  IInv'
<1>1. /\ Free(a) /\ app' = [app EXCEPT ![a] = [stage |-> "withdrawn", ended |-> TRUE]]
      /\ ivw' = [i \in Interviews |-> IF ivw[i].of = a THEN Cancelled(ivw[i]) ELSE ivw[i]]
      /\ UNCHANGED <<fb, held, changes>>
  BY DEF Terminate
<1>2. /\ app' \in [Applications -> [stage : Stages, ended : BOOLEAN]]
      /\ app'[a].stage = "withdrawn" /\ app'[a].ended
      /\ \A b \in Applications \ {a} : app'[b] = app[b]
  BY <1>1, StagesAre DEF IInv, TypeOK
<1>3. ASSUME NEW i \in Interviews
      PROVE  /\ ivw'[i] \in InterviewRow
             /\ \/ ivw'[i] = ivw[i] /\ (ivw[i].of = a => ivw[i].st \notin Unfinished)
                \/ /\ ivw[i].of = a /\ ivw[i].st \in Unfinished /\ ivw'[i].st = "cancelled"
                   /\ ivw'[i].of = a /\ ivw'[i].slot = ivw[i].slot
                   /\ ivw'[i].panel = ivw[i].panel /\ ivw'[i].round = ivw[i].round
  <2>1. ivw[i] \in InterviewRow
    BY DEF IInv, TypeOK
  <2>2. CASE ivw[i].of = a /\ ivw[i].st \in Unfinished
    <3>1. ivw'[i] = [ivw[i] EXCEPT !.st = "cancelled"]
      BY <1>1, <2>2 DEF Cancelled
    <3> QED
      BY <2>1, <2>2, <3>1 DEF InterviewRow, Statuses
  <2>3. CASE ~(ivw[i].of = a /\ ivw[i].st \in Unfinished)
    <3>1. ivw'[i] = ivw[i]
      BY <1>1, <2>3 DEF Cancelled
    <3> QED
      BY <2>1, <2>3, <3>1
  <2> QED
    BY <2>2, <2>3
<1>4. TypeOK'
  <2>1. ivw' \in [Interviews -> InterviewRow]
    BY <1>1, <1>3
  <2> QED
    BY <1>1, <1>2, <2>1 DEF IInv, TypeOK
<1>5. ASSUME NEW i \in Interviews PROVE RowAt(i)'
  <2>1. RowAt(i) /\ fb' = fb
    BY <1>1, PartsAre DEF IInv
  <2>2. CASE ivw'[i] = ivw[i]
    BY <2>1, <2>2, RowUnchanged
  <2>3. CASE ivw'[i] # ivw[i]
    <3>1. /\ ivw[i].st \in Unfinished /\ ivw'[i].st = "cancelled" /\ ivw'[i].of = a
          /\ ivw'[i].panel = ivw[i].panel /\ ivw'[i].round = ivw[i].round
      BY <1>3, <2>3
    <3>2. ivw'[i] # Absent /\ a # None /\ ivw[i].st # "none"
      BY <3>1, ConstantsAssumption DEF Absent, Unfinished, Scheduled
    <3> QED
      BY <2>1, <3>1, <3>2 DEF RowAt, RoundNames, On, Unfinished, Scheduled
  <2> QED
    BY <2>2, <2>3
<1>6. \A i \in Interviews : HandedIn(i) \subseteq HandedIn(i)'
  BY <1>1 DEF HandedIn
<1>7. \A i \in Of(a) : ivw'[i].st \notin Unfinished
  BY <1>3 DEF Of, Unfinished, Scheduled
<1>8. \A i \in Interviews : ivw'[i] = ivw[i] \/
        /\ ivw[i].of = a /\ ivw[i].st \in Unfinished
        /\ ivw'[i].of = a /\ ivw'[i].slot = ivw[i].slot /\ ivw'[i].panel = ivw[i].panel
  BY <1>3
<1> QED
  BY <1>1, <1>2, <1>4, <1>5, <1>6, <1>7, <1>8, StepOfFree

LEMMA Initially == Init => IInv
<1> SUFFICES ASSUME Init PROVE IInv
  OBVIOUS
<1>1. TypeOK
  BY StagesAre, ConstantsAssumption DEF Init, TypeOK, Command, FeedbackStates, InterviewRow, Absent
<1>2. \A i \in Interviews : ivw[i] = Absent /\ ivw[i].st = "none" /\ ivw[i].of = None
  BY DEF Init, Absent
<1>3. HeldIsCurrent
  BY CommandsDiffer DEF Init, HeldIsCurrent, Free
<1>4. \A i \in Interviews : RowAt(i)
  BY <1>2 DEF Init, RowAt, Unfinished, Scheduled
<1>5. NoDoubleBooking
  BY <1>2, ApartIs DEF Apart, Live
<1>6. DecisionIsGrounded
  BY DEF Init, DecisionIsGrounded
<1>7. EndedIsClear
  BY DEF Init, EndedIsClear
<1> QED
  BY <1>1, <1>3, <1>4, <1>5, <1>6, <1>7, PartsAre DEF IInv

LEMMA Stuttering ==
  ASSUME IInv, UNCHANGED vars
  PROVE  IInv'
<1> USE DEF vars
<1>1. TypeOK' /\ HeldIsCurrent' /\ EndedIsClear'
  BY DEF IInv, TypeOK, HeldIsCurrent, EndedIsClear, Free, Ended, Of
<1>2. NoDoubleBooking'
  BY BookingsKept DEF IInv, Live
<1>3. \A i \in Interviews : RowAt(i)'
  BY PartsAre, RowUnchanged DEF IInv
<1>4. \A a \in Applications : Grounded(a)'
  BY PartsAre, DecisionKept DEF IInv, HandedIn
<1> QED
  BY <1>1, <1>2, <1>3, <1>4, PartsAre DEF IInv

LEMMA Inductive ==
  ASSUME IInv, [Next]_vars
  PROVE  IInv'
<1>1. ASSUME NEW a \in Applications, Scheduling(a) \/ Deciding(a) PROVE IInv'
  BY <1>1, BeginCreateStep, RefuseStep, BeginMoveStep, CreateStep, MoveStep, DecideStep, TerminateStep, WithdrawStep
     DEF Scheduling, Deciding
<1>2. ASSUME NEW i \in Interviews, Interviewing(i) PROVE IInv'
  BY <1>2, ConfirmStep, CompleteStep, NoShowStep, CancelStep, DraftStep, SubmitStep, AmendStep DEF Interviewing
<1> QED
  BY <1>1, <1>2, Stuttering DEF Next

(* The three invariants rest on this one: what a command found under the    *)
(* candidate's lock is still so when it writes, and the last feedback that  *)
(* is required closes the interview.                                        *)
THEOREM HiringInvariant == Spec => []IInv
<1>1. Init => IInv
  BY Initially
<1>2. IInv /\ [Next]_vars => IInv'
  BY Inductive
<1> QED
  BY <1>1, <1>2, PTL DEF Spec

(* No candidate and no interviewer is in two places at a time, however many *)
(* candidates, interviewers and commands there are (_schedule_conflicts).   *)
THEOREM BookingCorrect == Spec => []NoDoubleBooking
<1>1. IInv => NoDoubleBooking
  BY DEF IInv
<1> QED
  BY <1>1, HiringInvariant, PTL

(* Feedback is awaited where it is due, and decisions rest on it            *)
(* (submit_my_feedback, _advance_application_if_interviews_complete).       *)
THEOREM FeedbackCorrect == Spec => []FeedbackDecides
<1>1. IInv => FeedbackDecides
  BY DEF IInv, FeedbackDecides
<1> QED
  BY <1>1, HiringInvariant, PTL

(* A terminated application has no unfinished interview and gets none       *)
(* (terminate_application).                                                 *)
THEOREM EndCorrect == Spec => []EndedIsClear
<1>1. IInv => EndedIsClear
  BY DEF IInv
<1> QED
  BY <1>1, HiringInvariant, PTL

(* A cancelled, missed or closed interview stays as it is.                  *)
THEOREM ClosureCorrect == Spec => ClosedStaysClosed
<1> DEFINE Keeps == \A i \in Interviews : ivw[i].st \in {"cancelled", "no_show", "feedback_completed"} => ivw'[i] = ivw[i]
<1>1. IInv /\ [Next]_vars => Keeps
  <2> SUFFICES ASSUME IInv, [Next]_vars, NEW i \in Interviews,
                      ivw[i].st \in {"cancelled", "no_show", "feedback_completed"}
               PROVE  ivw'[i] = ivw[i]
    OBVIOUS
  <2>1. ivw[i].st \notin Unfinished /\ ivw[i] # Absent /\ ivw \in [Interviews -> InterviewRow]
    BY DEF Unfinished, Scheduled, Absent, IInv, TypeOK
  <2>2. CASE UNCHANGED vars
    BY <2>2 DEF vars
  <2>3. ASSUME NEW a \in Applications, Scheduling(a) PROVE ivw'[i] = ivw[i]
    <3>1. ASSUME NEW r \in RoundNames, NEW s \in Slots, NEW panel \in Panels, Create(a, r, s, panel)
          PROVE  ivw'[i] = ivw[i]
      BY <2>1, <3>1 DEF Create
    <3>2. ASSUME NEW j \in Interviews, NEW s \in Slots, NEW panel \in Panels, Move(a, j, s, panel)
          PROVE  ivw'[i] = ivw[i]
      <4>1. ivw[j].st \in Unfinished
        BY <3>2, CommandsDiffer DEF Move, IInv, HeldIsCurrent, Unfinished
      <4> QED
        BY <2>1, <3>2, <4>1 DEF Move
    <3> QED
      BY <2>3, <3>1, <3>2 DEF Scheduling, BeginCreate, BeginMove, Refuse, Hold
  <2>4. ASSUME NEW a \in Applications, Deciding(a) PROVE ivw'[i] = ivw[i]
    BY <2>1, <2>4 DEF Deciding, Decide, Terminate, Withdraw, Cancelled
  <2>5. ASSUME NEW j \in Interviews, Interviewing(j) PROVE ivw'[i] = ivw[i]
    BY <2>1, <2>5 DEF Interviewing, Confirm, Complete, NoShow, Cancel, Cancelled, Draft, Submit, Amend, Unfinished, Scheduled
  <2> QED
    BY <2>2, <2>3, <2>4, <2>5 DEF Next
<1> QED
  BY <1>1, HiringInvariant, PTL DEF Spec, ClosedStaysClosed

-----------------------------------------------------------------------------
(* How members are told of the work that waits for them: WorkSpec of        *)
(* WorkNotices, a specification of its own, of one application.             *)

Card == Kinds \X (Managers \cup Recruiters)

LEMMA Injective ==
  ASSUME NEW S, NEW T, IsFiniteSet(S), IsFiniteSet(T), Cardinality(S) <= Cardinality(T)
  PROVE  \E f \in [S -> T] : \A c, d \in S : f[c] = f[d] => c = d
<1> DEFINE n == Cardinality(S)  m == Cardinality(T)
<1>1. n \in Nat /\ m \in Nat /\ n <= m /\ ExistsBijection(1..n, S) /\ ExistsBijection(1..m, T)
  BY FS_CardinalityType
<1> HIDE DEF n, m
<1>2. PICK g \in [1..n -> S] : \A c \in S : \E k \in 1..n : g[k] = c
  BY <1>1 DEF ExistsBijection, Bijection, Surjection, Injection
<1>3. PICK h \in [1..m -> T] : \A k, l \in 1..m : h[k] = h[l] => k = l
  BY <1>1 DEF ExistsBijection, Bijection, Injection, IsInjective
<1> DEFINE of[c \in S] == CHOOSE k \in 1..n : g[k] = c
<1>4. \A c \in S : of[c] \in 1..n /\ g[of[c]] = c
  BY <1>2
<1> HIDE DEF of
<1>5. \A c \in S : of[c] \in 1..m
  BY <1>1, <1>4
<1>6. [c \in S |-> h[of[c]]] \in [S -> T]
  BY <1>5
<1>7. \A c, d \in S : h[of[c]] = h[of[d]] => c = d
  BY <1>3, <1>4, <1>5
<1> DEFINE f == [c \in S |-> h[of[c]]]
<1>8. \A c \in S : f[c] = h[of[c]]
  OBVIOUS
<1> HIDE DEF f
<1>9. \A c, d \in S : f[c] = f[d] => c = d
  BY <1>7, <1>8
<1> QED
  BY <1>6, <1>9 DEF f

-----------------------------------------------------------------------------
(* What is due to whom, duty by duty.                                       *)
DueTo(k, m) ==
  \/ k = "review_requested" /\ m = task.who /\ application.stage = "review" /\ task.st = "open"
  \/ k = "arrangement_requested" /\ m = application.owner /\ application.stage = "interview_pending"
  \/ k = "candidate_passed" /\ m = application.owner /\ application.stage = "passed"
  \/ k = "hiring_decision_requested" /\ m = Lead /\ application.stage = "decision"
  \/ k = "interview_scheduled" /\ iv.st = "scheduled" /\ ~WorkEnded /\ m \in Panel
  \/ k = "interview_rescheduled" /\ iv.st = "rescheduled" /\ ~WorkEnded /\ m \in Panel
  \/ k = "feedback_requested" /\ iv.st = "pending_feedback" /\ ~WorkEnded /\ m \in Asked

LEMMA WorkTypes ==
  WorkTypeOK <=> /\ application \in [stage : WorkStages, owner : Recruiters, ended : BOOLEAN]
                 /\ task \in [st : {"none", "open", "closed"}, who : Managers]
                 /\ iv \in [st : Planned \cup {"none", "pending_feedback", "feedback_completed", "cancelled", "no_show"},
                            plan : 0..MaxMoves, part : [Managers -> {"out", "optional", "required", "done"}]]
                 /\ on \in BOOLEAN /\ msg \in [Places -> Message \cup {NoMessage}]
                 /\ settled \subseteq Card
                 /\ page \in BOOLEAN /\ receipt \in BOOLEAN /\ mark \in {"none", "current", "old"}
  BY DEF WorkTypeOK, Card

DutiesAreDue ==
  /\ \A k, m : <<k, m>> \in Duties <=> DueTo(k, m)
  /\ \A d \in Duties : d = <<d[1], d[2]>>

LEMMA DutiesAre == DutiesAreDue
<1> DEFINE Review == IF application.stage = "review" /\ task.st = "open" THEN {<<"review_requested", task.who>>} ELSE {}
           Owner == {<<k, application.owner>> : k \in {j \in {"arrangement_requested", "candidate_passed"} : StageOf[j] = application.stage}}
           Decision == IF application.stage = "decision" THEN {<<"hiring_decision_requested", Lead>>} ELSE {}
           Plan == IF iv.st \in {"scheduled", "rescheduled"} /\ ~WorkEnded
                     THEN {<<PlanKind[iv.st], m>> : m \in Panel} ELSE {}
           Feedback == IF iv.st = "pending_feedback" /\ ~WorkEnded
                         THEN {<<"feedback_requested", m>> : m \in Asked} ELSE {}
<1>1. Duties = Review \cup Owner \cup Decision \cup Plan \cup Feedback
  BY DEF Duties
<1>2. \A k, m : <<k, m>> \in Review <=> k = "review_requested" /\ m = task.who /\ application.stage = "review" /\ task.st = "open"
  OBVIOUS
<1>3. \A k, m : <<k, m>> \in Owner <=> \/ k = "arrangement_requested" /\ m = application.owner /\ application.stage = "interview_pending"
                                       \/ k = "candidate_passed" /\ m = application.owner /\ application.stage = "passed"
  <2>1. StageOf["arrangement_requested"] = "interview_pending" /\ StageOf["candidate_passed"] = "passed"
    BY DEF StageOf
  <2> QED
    BY <2>1
<1>4. \A k, m : <<k, m>> \in Decision <=> k = "hiring_decision_requested" /\ m = Lead /\ application.stage = "decision"
  OBVIOUS
<1>5. \A k, m : <<k, m>> \in Plan <=>
        \/ k = "interview_scheduled" /\ iv.st = "scheduled" /\ ~WorkEnded /\ m \in Panel
        \/ k = "interview_rescheduled" /\ iv.st = "rescheduled" /\ ~WorkEnded /\ m \in Panel
  <2>1. PlanKind["scheduled"] = "interview_scheduled" /\ PlanKind["rescheduled"] = "interview_rescheduled"
    BY DEF PlanKind
  <2> QED
    BY <2>1
<1>6. \A k, m : <<k, m>> \in Feedback <=> k = "feedback_requested" /\ iv.st = "pending_feedback" /\ ~WorkEnded /\ m \in Asked
  OBVIOUS
<1>7. \A d \in Duties : \E k, m : d = <<k, m>>
  BY DEF Duties
<1>8. \A d \in Duties : d = <<d[1], d[2]>>
  BY <1>7
<1> HIDE DEF Review, Owner, Decision, Plan, Feedback
<1>9. \A k, m : <<k, m>> \in Duties <=> DueTo(k, m)
  BY <1>1, <1>2, <1>3, <1>4, <1>5, <1>6 DEF DueTo
<1> QED
  BY <1>8, <1>9 DEF DutiesAreDue

LEMMA DutiesAreNext == DutiesAreDue'
  BY DutiesAre, PTL

-----------------------------------------------------------------------------
(* A command that announces what becomes due, or excuses itself from it.    *)
LEMMA CardsPosted ==
  ASSUME NEW cards \in SUBSET Card, IsFiniteSet(cards), NEW excused, WorkTypeOK,
         Notify(cards, excused), on
  PROVE  /\ \A s \in Places : \/ msg'[s] = msg[s]
                              \/ msg[s] = NoMessage /\ \E c \in cards : msg'[s] = SentTo(c)
         /\ \A c \in cards : \E s \in Places : msg'[s] = SentTo(c)
         /\ msg' = [s \in Places |-> msg'[s]]
<1> DEFINE at == CHOOSE g \in [cards -> Spare] : \A c, d \in cards : g[c] = g[d] => c = d
           CardOf(s) == CHOOSE x \in cards : at[x] = s
<1>1. IsFiniteSet(Spare)
  <2>1. IsFiniteSet(Places)
    BY WorkAssumption
  <2>2. Spare \in SUBSET Places
    BY DEF Spare
  <2> QED
    BY <2>1, <2>2, FS_Subset
<1>2. \E g \in [cards -> Spare] : \A c, d \in cards : g[c] = g[d] => c = d
  <2>1. Cardinality(cards) <= Cardinality(Spare)
    BY DEF Notify
  <2> QED
    BY <1>1, <2>1, Injective
<1>3. at \in [cards -> Spare] /\ \A c, d \in cards : at[c] = at[d] => c = d
  BY <1>2
<1>4. msg' = [s \in Places |-> IF \E c \in cards : at[c] = s THEN SentTo(CardOf(s)) ELSE msg[s]]
  BY DEF Notify
<1> HIDE DEF at
<1>5. \A c \in cards : CardOf(at[c]) = c
  BY <1>3
<1>6. \A c \in cards : at[c] \in Places /\ msg[at[c]] = NoMessage
  BY <1>3 DEF Spare
<1> HIDE DEF CardOf
<1>7. \A c \in cards : msg'[at[c]] = SentTo(c)
  BY <1>4, <1>5, <1>6
<1>8. \A s \in Places : msg'[s] = msg[s] \/ \E c \in cards : at[c] = s
  BY <1>4
<1>9. msg' = [s \in Places |-> msg'[s]]
  BY <1>4
<1> QED
  BY <1>6, <1>7, <1>8, <1>9

Announced == \A d \in Duties \ settled : \E s \in Places : Announces(s, d)

WorkOK ==
  /\ application \in [stage : WorkStages, owner : Recruiters, ended : BOOLEAN]
  /\ task \in [st : {"none", "open", "closed"}, who : Managers]
  /\ iv \in [st : Planned \cup {"none", "pending_feedback", "feedback_completed", "cancelled", "no_show"},
             plan : 0..MaxMoves, part : [Managers -> {"out", "optional", "required", "done"}]]
  /\ application.ended => application.stage = "withdrawn"
  /\ application.stage \in {"new", "deferred"} => task.st = "none"

OutboxOK ==
  /\ on \in BOOLEAN /\ msg \in [Places -> Message \cup {NoMessage}]
  /\ settled \subseteq Card /\ settled \subseteq Duties
  /\ Announced

ReadingOK ==
  /\ page \in BOOLEAN /\ receipt \in BOOLEAN /\ mark \in {"none", "current", "old"}
  /\ receipt => page
  /\ mark = "current" => page

LEMMA WorkParts == (WorkInv <=> WorkOK /\ OutboxOK /\ ReadingOK) /\ (WorkInv' <=> WorkOK' /\ OutboxOK' /\ ReadingOK')
  BY DEF WorkInv, WorkTypeOK, WorkOK, OutboxOK, ReadingOK, Announced, ReadMeansSeen, Card

LEMMA DutyCards == WorkOK' => Duties' \subseteq Card
<1> SUFFICES ASSUME WorkOK', NEW d \in Duties' PROVE d \in Card
  OBVIOUS
<1>1. d = <<d[1], d[2]>> /\ DueTo(d[1], d[2])'
  BY DutiesAreNext DEF DutiesAreDue
<1>2. application'.owner \in Recruiters /\ task'.who \in Managers /\ Lead \in Managers
  BY WorkAssumption DEF WorkOK
<1>3. \A m : (m \in Panel' \/ m \in Asked') => m \in Managers
  BY DEF Panel, Asked
<1>4. d[1] \in Kinds /\ d[2] \in Managers \cup Recruiters
  BY <1>1, <1>2, <1>3 DEF DueTo, Kinds
<1> QED
  BY <1>1, <1>4 DEF Card

(* What was due stays announced as it was, unless it is announced again.    *)
Stays(cards, excused) ==
  \A k, m : DueTo(k, m)' =>
    \/ <<k, m>> \in cards \cup excused
    \/ DueTo(k, m) /\ (k \in {"interview_scheduled", "interview_rescheduled"} => iv'.plan = iv.plan)

LEMMA Notifying ==
  ASSUME NEW cards \in SUBSET Card, IsFiniteSet(cards), NEW excused, WorkInv, WorkOK',
         Notify(cards, excused), Stays(cards, excused)
  PROVE  OutboxOK'
<1>1. WorkOK /\ OutboxOK /\ WorkTypeOK /\ Tries \in Nat /\ Tries > 0 /\ MaxMoves \in Nat
  BY WorkParts, WorkAssumption DEF WorkInv
<1>2. settled' \subseteq Duties' /\ settled' \subseteq Card /\ on' = on
  BY DutyCards DEF Notify
<1>3. msg' \in [Places -> Message \cup {NoMessage}]
  <2>1. CASE ~on
    BY <1>1, <2>1 DEF Notify, OutboxOK
  <2>2. CASE on
    <3>1. \A c \in cards : SentTo(c) \in Message
      BY <1>1 DEF SentTo, Message, Card
    <3>2. \A s \in Places : msg'[s] \in Message \cup {NoMessage}
      BY <1>1, <2>2, <3>1, CardsPosted DEF OutboxOK
    <3> QED
      BY <1>1, <2>2, <3>2, CardsPosted
  <2> QED
    BY <2>1, <2>2
<1>4. ASSUME NEW d \in Duties', d \notin settled'
      PROVE  \E s \in Places : Announces(s, d)'
  <2>1. d = <<d[1], d[2]>> /\ DueTo(d[1], d[2])'
    BY <1>4, DutiesAreNext DEF DutiesAreDue
  <2>2. d \notin excused /\ (d \in cards => on) /\ (d \notin cards => d \notin settled)
    BY <1>1, <1>4 DEF Notify, OutboxOK
  <2>3. CASE d \in cards
    <3>1. PICK s \in Places : msg'[s] = SentTo(d)
      BY <1>1, <2>2, <2>3, CardsPosted
    <3> QED
      BY <1>1, <2>1, <3>1 DEF Announces, UnderWay, SentTo
  <2>4. CASE d \notin cards
    <3>1. /\ DueTo(d[1], d[2])
          /\ d[1] \in {"interview_scheduled", "interview_rescheduled"} => iv'.plan = iv.plan
      BY <2>1, <2>2, <2>4 DEF Stays
    <3>2. d \in Duties
      BY <2>1, <3>1, DutiesAre DEF DutiesAreDue
    <3>3. PICK s \in Places : Announces(s, d)
      BY <1>1, <2>2, <2>4, <3>2 DEF OutboxOK, Announced
    <3>4. msg'[s] = msg[s]
      <4>1. msg[s] # NoMessage
        BY <3>3 DEF Announces, UnderWay, NoMessage
      <4>2. CASE ~on
        BY <4>2 DEF Notify
      <4>3. CASE on
        BY <1>1, <4>1, <4>3, CardsPosted
      <4> QED
        BY <4>2, <4>3
    <3>5. Shown(d[1])' = Shown(d[1])
      BY <3>1 DEF Shown
    <3> QED
      BY <3>3, <3>4, <3>5 DEF Announces, UnderWay
  <2> QED
    BY <2>3, <2>4
<1> QED
  BY <1>1, <1>2, <1>3, <1>4 DEF OutboxOK, Announced

LEMMA FewCards ==
  /\ \A k : \A people \in SUBSET Managers : IsFiniteSet(ToPanel(k, people))
  /\ \A c : IsFiniteSet({c})
  /\ IsFiniteSet({})
<1>1. ASSUME NEW k, NEW people \in SUBSET Managers
      PROVE  IsFiniteSet(ToPanel(k, people))
  <2> DEFINE cards == ToPanel(k, people)
             f == [c \in cards |-> c[2]]
  <2>1. IsFiniteSet(people)
    BY <1>1, FS_Subset, WorkAssumption
  <2>2. \A c \in cards : c = <<k, c[2]>> /\ c[2] \in people
    BY DEF ToPanel
  <2>3. f \in [cards -> people]
    BY <2>2
  <2>4. \A c, d \in cards : f[c] = f[d] => c = d
    <3>1. \A c \in cards : f[c] = c[2]
      OBVIOUS
    <3> QED
      BY <2>2, <3>1
  <2>5. f \in Injection(cards, people)
    BY <2>3, <2>4 DEF Injection, IsInjective
  <2> QED
    BY <2>1, <2>5, FS_Injection
<1> QED
  BY <1>1, FS_Singleton, FS_EmptySet

LEMMA TouchedOK == ReadingOK /\ (Touched \/ UNCHANGED reading) => ReadingOK'
<1>1. ReadingOK /\ UNCHANGED reading => ReadingOK'
  <2> SUFFICES ASSUME ReadingOK, UNCHANGED reading PROVE ReadingOK'
    OBVIOUS
  <2>1. page' = page /\ receipt' = receipt /\ mark' = mark
    BY DEF reading
  <2> QED
    BY <2>1 DEF ReadingOK
<1>2. ReadingOK /\ Touched => ReadingOK'
  <2> SUFFICES ASSUME ReadingOK, Touched PROVE ReadingOK'
    OBVIOUS
  <2>1. page' = FALSE /\ receipt' = FALSE
    BY DEF Touched
  <2>2. mark' \in {"none", "old"}
    BY DEF Touched, ReadingOK
  <2> QED
    BY <2>1, <2>2 DEF ReadingOK
<1> QED
  BY <1>1, <1>2

(* A command keeps the invariant when it announces all that becomes due.    *)
LEMMA AnyCommand ==
  ASSUME WorkInv, NEW cards \in SUBSET Card, IsFiniteSet(cards), NEW excused,
         Notify(cards, excused), WorkOK', Stays(cards, excused), Touched \/ UNCHANGED reading
  PROVE  WorkInv'
  BY Notifying, TouchedOK, WorkParts

LEMMA SilentCommand ==
  ASSUME WorkInv, Silently, WorkOK', Stays({}, {}),
         Touched \/ UNCHANGED reading
  PROVE  WorkInv'
<1>1. {} \in SUBSET Card /\ IsFiniteSet({})
  BY FewCards
<1> QED
  BY <1>1, AnyCommand DEF Silently

LEMMA CardCommand ==
  ASSUME WorkInv, NEW k \in Kinds, NEW m \in Managers \cup Recruiters,
         Notify({<<k, m>>}, {}), WorkOK', Stays({<<k, m>>}, {}),
         Touched \/ UNCHANGED reading
  PROVE  WorkInv'
<1>1. {<<k, m>>} \in SUBSET Card
  BY DEF Card
<1>2. IsFiniteSet({<<k, m>>})
  BY FewCards
<1> QED
  BY <1>1, <1>2, AnyCommand

-----------------------------------------------------------------------------
(* The review task and the stage.                                           *)
LEMMA NewTaskStep ==
  ASSUME WorkInv, NEW m \in Managers, NewTask(m), UNCHANGED iv, Touched,
         application.stage \in {"new", "deferred"}, application' = [application EXCEPT !.stage = "review"]
  PROVE  WorkInv'
<1>1. WorkOK
  BY WorkParts
<1>2. WorkOK' /\ application'.stage = "review" /\ application'.owner = application.owner /\ application'.ended = application.ended
      /\ task' = [st |-> "open", who |-> m]
  BY <1>1 DEF WorkOK, NewTask, WorkStages
<1>3. ~application.ended /\ ~WorkEnded'
  BY <1>1, <1>2 DEF WorkOK, WorkEnded
<1>4. Stays({<<"review_requested", m>>}, {})
  BY <1>2, <1>3 DEF Stays, DueTo, Panel, Asked, WorkEnded
<1> QED
  BY <1>2, <1>4, CardCommand DEF NewTask, Kinds

LEMMA RouteStep ==
  ASSUME WorkInv, Route
  PROVE  WorkInv'
<1>1. WorkOK /\ Lead \in Managers
  BY WorkParts, WorkAssumption
<1>2. CASE application' = [application EXCEPT !.stage = "review"] /\ UNCHANGED iv /\ NewTask(Lead)
  BY <1>1, <1>2, NewTaskStep DEF Route
<1>3. CASE application' = [application EXCEPT !.stage = "deferred"] /\ UNCHANGED <<iv, task>> /\ Silently
  <2>1. WorkOK' /\ application'.stage = "deferred" /\ application.stage = "new" /\ application'.ended = application.ended
    BY <1>1, <1>3 DEF WorkOK, Route, WorkStages
  <2>2. Stays({}, {})
    BY <1>1, <1>3, <2>1 DEF Stays, DueTo, Panel, Asked, WorkEnded
  <2> QED
    BY <2>1, <2>2, <1>3, SilentCommand DEF Route
<1> QED
  BY <1>2, <1>3 DEF Route

LEMMA BulkStep ==
  ASSUME WorkInv, Bulk
  PROVE  WorkInv'
<1>1. WorkOK
  BY WorkParts
<1>2. UNCHANGED <<task, iv>>
  BY DEF Bulk
<1>3. PICK st \in {"review", "new", "rejected"} : application' = [application EXCEPT !.stage = st]
        /\ (st = "review" => application.stage = "new") /\ (st = "new" => task.st = "none")
        /\ application.stage \notin {"hired", "rejected", "withdrawn"}
  BY DEF Bulk
<1>4. application'.stage = st /\ application'.owner = application.owner /\ application'.ended = application.ended /\ ~application.ended
  BY <1>1, <1>3 DEF WorkOK
<1>5. WorkOK'
  BY <1>1, <1>2, <1>3, <1>4 DEF WorkOK, WorkStages
<1>6. Stays({}, {})
  BY <1>1, <1>2, <1>3, <1>4 DEF Stays, DueTo, Panel, Asked, WorkEnded, WorkOK
<1> QED
  BY <1>5, <1>6, SilentCommand DEF Bulk

LEMMA ReferStep ==
  ASSUME WorkInv, NEW m \in Managers, Refer(m)
  PROVE  WorkInv'
  BY NewTaskStep DEF Refer

LEMMA ReassignStep ==
  ASSUME WorkInv, NEW m \in Managers, Reassign(m)
  PROVE  WorkInv'
<1>1. WorkOK
  BY WorkParts
<1>2. UNCHANGED <<application, iv>> /\ task.st = "open" /\ task' = [task EXCEPT !.who = m]
  BY DEF Reassign
<1>3. task' = [st |-> "open", who |-> m]
  BY <1>1, <1>2 DEF WorkOK
<1>4. WorkOK'
  BY <1>1, <1>2, <1>3 DEF WorkOK
<1>5. Stays({<<"review_requested", m>>}, {})
  BY <1>2, <1>3 DEF Stays, DueTo, Panel, Asked, WorkEnded
<1> QED
  BY <1>4, <1>5, CardCommand DEF Reassign, Kinds

LEMMA HandTaskStep ==
  ASSUME WorkInv, NEW m \in Managers, HandTask(m)
  PROVE  WorkInv'
<1>1. WorkOK
  BY WorkParts
<1>2. UNCHANGED <<application, iv>> /\ task.st = "open" /\ task' = [task EXCEPT !.who = m]
  BY DEF HandTask
<1>3. task' = [st |-> "open", who |-> m]
  BY <1>1, <1>2 DEF WorkOK
<1>4. WorkOK'
  BY <1>1, <1>2, <1>3 DEF WorkOK
<1>5. Stays({}, {<<"review_requested", m>>})
  BY <1>2, <1>3 DEF Stays, DueTo, Panel, Asked, WorkEnded
<1>6. {} \in SUBSET Card /\ IsFiniteSet({})
  BY FewCards
<1> QED
  BY <1>4, <1>5, <1>6, AnyCommand DEF HandTask

LEMMA HandApplicationStep ==
  ASSUME WorkInv, NEW o \in Recruiters, HandApplication(o)
  PROVE  WorkInv'
<1>1. WorkOK
  BY WorkParts
<1>2. UNCHANGED <<task, iv>> /\ application' = [application EXCEPT !.owner = o]
  BY DEF HandApplication
<1>3. application'.stage = application.stage /\ application'.ended = application.ended /\ application'.owner = o
  BY <1>1, <1>2 DEF WorkOK
<1>4. WorkOK'
  BY <1>1, <1>2, <1>3 DEF WorkOK
<1>5. Stays({}, OwnerKinds \X {o})
  BY <1>2, <1>3 DEF Stays, DueTo, Panel, Asked, WorkEnded, OwnerKinds
<1>6. {} \in SUBSET Card /\ IsFiniteSet({})
  BY FewCards
<1> QED
  BY <1>4, <1>5, <1>6, AnyCommand DEF HandApplication

(* Which stage each action leads to, and whom it tells.                     *)
Decides(from, kind, to) ==
  \/ from = "review" /\ kind = "arrangement_requested" /\ to = "interview_pending"
  \/ from = "review" /\ kind = "candidate_rejected" /\ to = "rejected"
  \/ from = "decision" /\ kind = "candidate_passed" /\ to = "passed"
  \/ from = "decision" /\ kind = "candidate_rejected" /\ to = "rejected"
  \/ from = "passed" /\ kind = "offer_accepted" /\ to = "hired"
  \/ from = "passed" /\ kind = "offer_declined" /\ to = "withdrawn"

LEMMA NoticeDecideStep ==
  ASSUME WorkInv, NEW action \in DOMAIN ToldActions, DecideAndTell(action)
  PROVE  WorkInv'
<1> DEFINE from == ToldActions[action][1]
           kind == ToldActions[action][2]
           to == StageOf[kind]
<1>1. WorkOK
  BY WorkParts
<1>2. Decides(from, kind, to)
  BY DEF ToldActions, StageOf, Decides
<1>3. application.stage = from /\ application' = [application EXCEPT !.stage = to] /\ UNCHANGED iv
      /\ (task' = task \/ CloseTask) /\ Touched
  BY DEF DecideAndTell
<1>4. (Notify({<<kind, application.owner>>}, {}) \/ (kind \in {"offer_accepted", "offer_declined"} /\ Silently))
  <2>1. PICK cards \in {{<<kind, application.owner>>}} \cup (IF action \in {"offer_accepted", "offer_declined"} THEN {{}} ELSE {}) :
          Notify(cards, {})
    BY DEF DecideAndTell
  <2>2. action \in {"offer_accepted", "offer_declined"} => kind \in {"offer_accepted", "offer_declined"}
    BY DEF ToldActions
  <2> QED
    BY <2>1, <2>2 DEF Silently
<1> HIDE DEF from, kind, to
<1>5. application'.stage = to /\ application'.owner = application.owner /\ application'.ended = application.ended /\ ~application.ended
  BY <1>1, <1>2, <1>3 DEF WorkOK, Decides
<1>6. task'.who = task.who /\ (task'.st = task.st \/ task'.st = "closed") /\ task' \in [st : {"none", "open", "closed"}, who : Managers]
  BY <1>1, <1>3 DEF WorkOK, CloseTask
<1>7. WorkOK'
  BY <1>1, <1>2, <1>3, <1>5, <1>6 DEF WorkOK, Decides, WorkStages
<1>8. Stays({<<kind, application.owner>>}, {}) /\ (kind \in {"offer_accepted", "offer_declined"} => Stays({}, {}))
  BY <1>2, <1>3, <1>5, <1>6 DEF Stays, DueTo, Decides, Panel, Asked, WorkEnded
<1>9. kind \in Kinds /\ application.owner \in Managers \cup Recruiters
  BY <1>1, <1>2 DEF Decides, Kinds, WorkOK
<1> QED
  BY <1>3, <1>4, <1>7, <1>8, <1>9, CardCommand, SilentCommand

LEMMA NoticeWithdrawStep ==
  ASSUME WorkInv, WithdrawWork
  PROVE  WorkInv'
<1>1. WorkOK
  BY WorkParts
<1>2. application' = [application EXCEPT !.stage = "withdrawn"] /\ UNCHANGED iv /\ CloseTask /\ Silently
  BY DEF WithdrawWork
<1>3. application'.stage = "withdrawn" /\ application'.owner = application.owner /\ application'.ended = application.ended
  BY <1>1, <1>2 DEF WorkOK
<1>4. WorkOK'
  BY <1>1, <1>2, <1>3 DEF WorkOK, CloseTask, WorkStages
<1>5. Stays({}, {})
  BY <1>3 DEF Stays, DueTo, WorkEnded
<1> QED
  BY <1>4, <1>5, SilentCommand DEF WithdrawWork

LEMMA PanelCards ==
  ASSUME NEW k \in Kinds, NEW people \in SUBSET Managers
  PROVE  ToPanel(k, people) \in SUBSET Card /\ IsFiniteSet(ToPanel(k, people))
<1>1. ToPanel(k, people) \in SUBSET Card
  BY DEF ToPanel, Card
<1> QED
  BY <1>1, FewCards

LEMMA NoticeTerminateStep ==
  ASSUME WorkInv, TerminateAndTell
  PROVE  WorkInv'
<1>1. WorkOK
  BY WorkParts
<1>2. application' = [application EXCEPT !.stage = "withdrawn", !.ended = TRUE] /\ CloseTask /\ Touched
  BY DEF TerminateAndTell
<1>3. application'.stage = "withdrawn" /\ application'.owner = application.owner /\ application'.ended
  BY <1>1, <1>2 DEF WorkOK
<1>4. iv' \in {iv, [iv EXCEPT !.st = "cancelled"]}
  BY DEF TerminateAndTell
<1>5. WorkOK'
  <2>1. iv' \in [st : Planned \cup {"none", "pending_feedback", "feedback_completed", "cancelled", "no_show"},
                 plan : 0..MaxMoves, part : [Managers -> {"out", "optional", "required", "done"}]]
    BY <1>1, <1>4 DEF WorkOK
  <2>2. task' \in [st : {"none", "open", "closed"}, who : Managers]
    BY <1>1, <1>2 DEF WorkOK, CloseTask
  <2>3. application' \in [stage : WorkStages, owner : Recruiters, ended : BOOLEAN]
    BY <1>1, <1>2 DEF WorkOK, WorkStages
  <2> QED
    BY <1>3, <2>1, <2>2, <2>3 DEF WorkOK
<1>6. \A cards : Stays(cards, {})
  BY <1>3 DEF Stays, DueTo, WorkEnded
<1>7. CASE Silently
  BY <1>2, <1>5, <1>6, <1>7, SilentCommand
<1>8. ASSUME NEW actor \in Actors, Notify(ToPanel("interview_cancelled", Panel \ {actor}), {})
      PROVE  WorkInv'
  <2>1. "interview_cancelled" \in Kinds /\ Panel \ {actor} \in SUBSET Managers
    BY DEF Kinds, Panel
  <2> QED
    BY <1>2, <1>5, <1>6, <1>8, <2>1, PanelCards, AnyCommand
<1> QED
  BY <1>7, <1>8 DEF TerminateAndTell

-----------------------------------------------------------------------------
(* The interview.                                                           *)
LEMMA BookStep ==
  ASSUME WorkInv, NEW part \in Juries, Book(part)
  PROVE  WorkInv'
<1>1. WorkOK /\ part \in [Managers -> {"out", "optional", "required", "done"}]
  BY WorkParts, WorkAssumption
<1>2. application' = [application EXCEPT !.stage = "interviewing"] /\ iv' = [st |-> "scheduled", plan |-> 0, part |-> part]
      /\ UNCHANGED task /\ Touched /\ application.stage = "interview_pending" /\ iv.st = "none"
  BY DEF Book
<1>3. application'.stage = "interviewing" /\ application'.owner = application.owner /\ application'.ended = application.ended /\ ~application.ended
  BY <1>1, <1>2 DEF WorkOK
<1>4. PICK actor \in Actors :
        Notify(ToPanel("interview_scheduled", Panel' \ {actor}), {<<"interview_scheduled", actor>>})
  BY DEF Book
<1>5. WorkOK'
  BY <1>1, <1>2, <1>3, WorkAssumption DEF WorkOK, WorkStages, Planned
<1>6. Stays(ToPanel("interview_scheduled", Panel' \ {actor}), {<<"interview_scheduled", actor>>})
  BY <1>2, <1>3 DEF Stays, DueTo, WorkEnded, ToPanel
<1>7. "interview_scheduled" \in Kinds /\ Panel' \ {actor} \in SUBSET Managers
  BY DEF Kinds, Panel
<1> QED
  BY <1>2, <1>4, <1>5, <1>6, <1>7, PanelCards, AnyCommand

LEMMA RescheduleStep ==
  ASSUME WorkInv, NEW part \in Juries, Reschedule(part)
  PROVE  WorkInv'
<1>1. WorkOK /\ part \in [Managers -> {"out", "optional", "required", "done"}] /\ MaxMoves \in Nat
  BY WorkParts, WorkAssumption
<1>2. UNCHANGED <<application, task, reading>> /\ iv' = [st |-> "rescheduled", plan |-> iv.plan + 1, part |-> part]
      /\ iv.plan < MaxMoves
  BY DEF Reschedule
<1>3. PICK actor \in Actors :
        Notify(ToPanel("interview_rescheduled", Panel' \ {actor})
                      \cup ToPanel("interview_assignment_removed", Panel \ Panel'),
               {<<"interview_rescheduled", actor>>})
  BY DEF Reschedule
<1> DEFINE told == ToPanel("interview_rescheduled", Panel' \ {actor})
           left == ToPanel("interview_assignment_removed", Panel \ Panel')
<1>4. WorkOK'
  BY <1>1, <1>2 DEF WorkOK, Planned
<1>5. Stays(told \cup left, {<<"interview_rescheduled", actor>>})
  BY <1>2 DEF Stays, DueTo, WorkEnded, ToPanel
<1>6. {"interview_rescheduled", "interview_assignment_removed"} \subseteq Kinds
      /\ Panel' \ {actor} \in SUBSET Managers /\ Panel \ Panel' \in SUBSET Managers
  BY DEF Kinds, Panel
<1>7. told \in SUBSET Card /\ IsFiniteSet(told) /\ left \in SUBSET Card /\ IsFiniteSet(left)
  BY <1>6, PanelCards
<1> HIDE DEF told, left
<1>8. told \cup left \in SUBSET Card /\ IsFiniteSet(told \cup left)
  BY <1>7, FS_Union
<1>9. Notify(told \cup left, {<<"interview_rescheduled", actor>>})
  BY <1>3 DEF told, left
<1> QED
  BY <1>2, <1>4, <1>5, <1>8, <1>9, AnyCommand

(* An interview that only comes nearer to its end makes nothing due.        *)
LEMMA NoticeConfirmStep ==
  ASSUME WorkInv, ConfirmPlan \/ MissPlan
  PROVE  WorkInv'
<1>1. WorkOK
  BY WorkParts
<1>2. UNCHANGED <<application, task, reading>> /\ Silently
      /\ (iv' = [iv EXCEPT !.st = "confirmed"] \/ iv' = [iv EXCEPT !.st = "no_show"])
  BY DEF ConfirmPlan, MissPlan
<1>3. iv'.st \in {"confirmed", "no_show"}
  BY <1>1, <1>2 DEF WorkOK
<1>4. WorkOK'
  BY <1>1, <1>2 DEF WorkOK, Planned
<1>5. Stays({}, {})
  BY <1>2, <1>3 DEF Stays, DueTo
<1> QED
  BY <1>2, <1>4, <1>5, SilentCommand

LEMMA CancelInterviewStep ==
  ASSUME WorkInv, CancelInterview
  PROVE  WorkInv'
<1>1. WorkOK
  BY WorkParts
<1>2. UNCHANGED <<application, task, reading>> /\ iv' = [iv EXCEPT !.st = "cancelled"]
  BY DEF CancelInterview
<1>3. PICK actor \in Actors : Notify(ToPanel("interview_cancelled", Panel \ {actor}), {})
  BY DEF CancelInterview
<1>4. WorkOK' /\ iv'.st = "cancelled"
  BY <1>1, <1>2 DEF WorkOK
<1>5. \A cards : Stays(cards, {})
  BY <1>2, <1>4 DEF Stays, DueTo
<1>6. "interview_cancelled" \in Kinds /\ Panel \ {actor} \in SUBSET Managers
  BY DEF Kinds, Panel
<1> QED
  BY <1>2, <1>3, <1>4, <1>5, <1>6, PanelCards, AnyCommand

LEMMA AdvanceStep ==
  ASSUME WorkInv, AdvanceAndTell, iv'.st = "feedback_completed",
         iv' \in [st : Planned \cup {"none", "pending_feedback", "feedback_completed", "cancelled", "no_show"},
                  plan : 0..MaxMoves, part : [Managers -> {"out", "optional", "required", "done"}]]
  PROVE  WorkInv'
<1>1. WorkOK /\ Lead \in Managers
  BY WorkParts, WorkAssumption
<1>2. UNCHANGED task /\ Touched /\ application.stage = "interviewing"
  BY DEF AdvanceAndTell
<1>3. PICK st \in {"interview_pending", "decision"} : application' = [application EXCEPT !.stage = st]
        /\ Notify(IF st = "decision" THEN {<<"hiring_decision_requested", Lead>>} ELSE {<<"arrangement_requested", application.owner>>}, {})
  BY DEF AdvanceAndTell
<1>4. application'.stage = st /\ application'.owner = application.owner /\ application'.ended = application.ended /\ ~application.ended
  BY <1>1, <1>2, <1>3 DEF WorkOK
<1>5. WorkOK'
  BY <1>1, <1>2, <1>3, <1>4 DEF WorkOK, WorkStages
<1>6. CASE st = "decision"
  <2>1. Stays({<<"hiring_decision_requested", Lead>>}, {})
    BY <1>2, <1>4, <1>6 DEF Stays, DueTo
  <2>2. "hiring_decision_requested" \in Kinds
    BY DEF Kinds
  <2> QED
    BY <1>1, <1>2, <1>3, <1>5, <1>6, <2>1, <2>2, CardCommand
<1>7. CASE st = "interview_pending"
  <2>1. Stays({<<"arrangement_requested", application.owner>>}, {})
    BY <1>2, <1>4, <1>7 DEF Stays, DueTo
  <2>2. "arrangement_requested" \in Kinds /\ application.owner \in Recruiters
    BY <1>1 DEF Kinds, WorkOK
  <2> QED
    BY <1>2, <1>3, <1>5, <1>7, <2>1, <2>2, CardCommand
<1> QED
  BY <1>6, <1>7

LEMMA NoticeCompleteStep ==
  ASSUME WorkInv, CompleteAndAsk
  PROVE  WorkInv'
<1> DEFINE asked == {m \in Managers : iv.part[m] \in {"required", "done"}}
<1>1. WorkOK
  BY WorkParts
<1>2. CASE \E m \in Managers : iv.part[m] \in {"required", "done"}
  <2>1. iv' = [iv EXCEPT !.st = "pending_feedback"] /\ UNCHANGED <<application, task, reading>>
        /\ Notify(ToPanel("feedback_requested", asked), {})
    BY <1>2 DEF CompleteAndAsk
  <2>2. iv'.st = "pending_feedback" /\ iv'.part = iv.part
    BY <1>1, <2>1 DEF WorkOK
  <2>3. WorkOK'
    BY <1>1, <2>1 DEF WorkOK
  <2>4. Stays(ToPanel("feedback_requested", asked), {})
    BY <2>1, <2>2 DEF Stays, DueTo, WorkEnded, Asked, ToPanel
  <2>5. "feedback_requested" \in Kinds /\ asked \in SUBSET Managers
    BY DEF Kinds
  <2> QED
    BY <2>1, <2>3, <2>4, <2>5, PanelCards, AnyCommand
<1>3. CASE ~ \E m \in Managers : iv.part[m] \in {"required", "done"}
  <2>1. iv' = [iv EXCEPT !.st = "feedback_completed"] /\ AdvanceAndTell
    BY <1>3 DEF CompleteAndAsk
  <2> QED
    BY <1>1, <2>1, AdvanceStep DEF WorkOK
<1> QED
  BY <1>2, <1>3

LEMMA NoticeSubmitStep ==
  ASSUME WorkInv, NEW m \in Managers, SubmitAsked(m)
  PROVE  WorkInv'
<1>1. WorkOK
  BY WorkParts
<1> DEFINE part == [iv.part EXCEPT ![m] = "done"]
<1>2. part \in [Managers -> {"out", "optional", "required", "done"}]
  BY <1>1 DEF WorkOK
<1>3. CASE Asked = {m}
  <2>1. iv' = [iv EXCEPT !.st = "feedback_completed", !.part = part] /\ AdvanceAndTell
    BY <1>3 DEF SubmitAsked
  <2> QED
    BY <1>1, <1>2, <2>1, AdvanceStep DEF WorkOK
<1>4. CASE Asked # {m}
  <2>1. iv' = [iv EXCEPT !.part = part] /\ UNCHANGED <<application, task, reading>> /\ Silently
    BY <1>4 DEF SubmitAsked
  <2>2. iv'.st = iv.st /\ iv'.plan = iv.plan /\ iv'.part = part
    BY <1>1, <2>1 DEF WorkOK
  <2>3. WorkOK'
    BY <1>1, <1>2, <2>1, <2>2 DEF WorkOK
  <2>4. m \in Asked
    BY DEF SubmitAsked
  <2>5. Panel' = Panel /\ Asked' \subseteq Asked
    BY <1>1, <2>2, <2>4 DEF Panel, Asked, WorkOK
  <2>6. Stays({}, {})
    BY <2>1, <2>2, <2>5 DEF Stays, DueTo, WorkEnded
  <2> QED
    BY <2>1, <2>3, <2>6, SilentCommand
<1> QED
  BY <1>3, <1>4

-----------------------------------------------------------------------------
(* The worker: a message that ends without having announced its duty was no *)
(* announcement of it.                                                      *)
Same == UNCHANGED <<application, task, iv>>

LEMMA SameDuties == Same => Duties' = Duties /\ \A k : Shown(k)' = Shown(k)
  BY DEF Same, Duties, StageOf, PlanKind, Panel, Asked, WorkEnded, Shown

LEMMA SameWork == WorkOK /\ Same => WorkOK'
  BY DEF WorkOK, Same

(* One message changes: it still announces what it did, or its duty has     *)
(* been settled, or is none.                                                *)
LEMMA PutStep ==
  ASSUME WorkInv, NEW s \in Places, NEW m \in Message \cup {NoMessage}, Put(s, m),
         settled' \subseteq Duties, settled \subseteq settled',
         \A d \in Duties \ settled' : Announces(s, d) => Announces(s, d)'
  PROVE  WorkInv'
<1>1. WorkOK /\ OutboxOK /\ ReadingOK
  BY WorkParts
<1>2. Same /\ on' = on /\ UNCHANGED reading /\ msg' = [msg EXCEPT ![s] = m]
  BY DEF Put, work, Same
<1>3. WorkOK' /\ ReadingOK' /\ Duties' = Duties /\ (\A k : Shown(k)' = Shown(k))
  BY <1>1, <1>2, SameDuties, SameWork, TouchedOK
<1>4. msg' \in [Places -> Message \cup {NoMessage}] /\ \A t \in Places : t # s => msg'[t] = msg[t]
  BY <1>1, <1>2 DEF OutboxOK
<1>5. Duties \subseteq Card
  BY <1>3, DutyCards
<1>6. ASSUME NEW d \in Duties, d \notin settled' PROVE \E t \in Places : Announces(t, d)'
  <2>1. PICK t \in Places : Announces(t, d)
    BY <1>1, <1>6 DEF OutboxOK, Announced
  <2>2. CASE t = s
    BY <1>6, <2>1, <2>2
  <2>3. CASE t # s
    BY <1>3, <1>4, <2>1, <2>3 DEF Announces, UnderWay
  <2> QED
    BY <2>2, <2>3
<1>7. OutboxOK'
  BY <1>1, <1>2, <1>3, <1>4, <1>5, <1>6 DEF OutboxOK, Announced
<1> QED
  BY <1>3, <1>7, WorkParts

LEMMA Ending ==
  ASSUME WorkInv, NEW s \in Places, Settle(s)
  PROVE  WorkInv'
<1>1. settled \subseteq Duties
  BY DEF WorkInv
<1>2. ASSUME NEW d \in Duties, d \notin settled' PROVE ~Announces(s, d)
  BY <1>2 DEF Settle, Announces
<1> QED
  BY <1>1, <1>2, PutStep DEF Settle

(* What is not due, or ended, or shows an earlier plan.                     *)
LEMMA Dropping ==
  ASSUME WorkInv, NEW s \in Places, Drop(s),
         \A d \in Duties : ~Announces(s, d)
  PROVE  WorkInv'
<1>1. settled \subseteq Duties
  BY DEF WorkInv
<1> QED
  BY <1>1, PutStep DEF Drop

LEMMA DueIsCurrent ==
  ASSUME WorkInv, NEW k, NEW m, DueTo(k, m)
  PROVE  Current(k, m)
<1>1. WorkOK
  BY WorkParts
<1>2. k = "review_requested" => Current(k, m)
  <2>1. k = "review_requested" => task = [st |-> "open", who |-> m] /\ application.stage = "review"
    BY <1>1 DEF DueTo, WorkOK
  <2> QED
    BY <2>1 DEF Current, OwnerKinds
<1>3. k \in {"arrangement_requested", "candidate_passed"} => Current(k, m)
  BY DEF DueTo, Current, OwnerKinds, StageOf
<1>4. k = "hiring_decision_requested" => Current(k, m)
  BY DEF DueTo, Current, OwnerKinds
<1>5. k \in {"interview_scheduled", "interview_rescheduled"} => Current(k, m)
  BY DEF DueTo, Current, OwnerKinds, PlanKind
<1>6. k = "feedback_requested" => Current(k, m)
  BY DEF DueTo, Current, OwnerKinds
<1> QED
  BY <1>2, <1>3, <1>4, <1>5, <1>6 DEF DueTo

LEMMA EndedIsNotDue == WorkOK /\ WorkEnded => Duties = {}
<1> SUFFICES ASSUME WorkOK, WorkEnded, NEW d \in Duties PROVE FALSE
  OBVIOUS
<1>1. DueTo(d[1], d[2]) /\ application.stage = "withdrawn"
  BY DutiesAre DEF DutiesAreDue, WorkOK, WorkEnded
<1> QED
  BY <1>1 DEF DueTo

LEMMA Unstamped ==
  ASSUME NEW x \in Message, NEW q \in 0..MaxMoves
  PROVE  LET m == [x EXCEPT !.st = "queued", !.plan = q]
         IN  m \in Message /\ m.st = "queued" /\ m.kind = x.kind /\ m.to = x.to /\ m.tries = x.tries
  BY DEF Message

LEMMA HandleStep ==
  ASSUME WorkInv, NEW s \in Places, Handle(s)
  PROVE  WorkInv'
<1>1. OutboxOK /\ Tries \in Nat /\ MaxMoves \in Nat /\ WorkOK
  BY WorkParts, WorkAssumption
<1>2. msg[s].st = "queued" /\ msg[s].tries < Tries
  BY DEF Handle
<1>3. msg[s] \in Message
  BY <1>1, <1>2 DEF OutboxOK, NoMessage
<1>4. CASE Settle(s)
  BY <1>4, Ending
<1>5. CASE ~Current(msg[s].kind, msg[s].to) /\ Drop(s)
  <2>1. ASSUME NEW d \in Duties, Announces(s, d) PROVE FALSE
    <3>1. d = <<msg[s].kind, msg[s].to>>
      BY <2>1 DEF Announces
    <3>2. DueTo(msg[s].kind, msg[s].to)
      BY <2>1, <3>1, DutiesAre DEF DutiesAreDue
    <3> QED
      BY <1>5, <3>2, DueIsCurrent
  <2> QED
    BY <1>5, <2>1, Dropping
<1>6. ASSUME Put(s, [msg[s] EXCEPT !.st = "built", !.tries = @ + 1, !.plan = Shown(msg[s].kind)]), UNCHANGED settled
      PROVE  WorkInv'
  <2> DEFINE m == [msg[s] EXCEPT !.st = "built", !.tries = @ + 1, !.plan = Shown(msg[s].kind)]
  <2>1. Shown(msg[s].kind) \in 0..MaxMoves
    BY <1>1 DEF Shown, WorkOK
  <2>2. m \in Message /\ m.st = "built" /\ m.kind = msg[s].kind /\ m.to = msg[s].to /\ m.plan = Shown(msg[s].kind)
    <3>1. msg[s].tries + 1 \in 0..Tries
      BY <1>1, <1>2, <1>3 DEF Message
    <3> DEFINE n == msg[s].tries + 1  q == Shown(msg[s].kind)
    <3>2. m = [msg[s] EXCEPT !.st = "built", !.tries = n, !.plan = q]
      OBVIOUS
    <3> HIDE DEF n, q, m
    <3>3. n \in 0..Tries /\ q \in 0..MaxMoves
      BY <2>1, <3>1 DEF n, q
    <3>4. m \in Message /\ m.st = "built" /\ m.kind = msg[s].kind /\ m.to = msg[s].to /\ m.plan = q
      BY <1>3, <3>2, <3>3 DEF Message
    <3> QED
      BY <3>4 DEF q
  <2> HIDE DEF m
  <2>3. msg'[s] = m /\ Same
    BY <1>1, <1>6 DEF Put, OutboxOK, work, Same, m
  <2>4. ASSUME NEW d \in Duties, Announces(s, d) PROVE Announces(s, d)'
    BY <2>2, <2>3, <2>4, SameDuties DEF Announces, UnderWay
  <2>5. settled \subseteq Duties
    BY <1>1 DEF OutboxOK
  <2> QED
    BY <1>6, <2>2, <2>4, <2>5, PutStep DEF m
<1> QED
  BY <1>4, <1>5, <1>6 DEF Handle

LEMMA GateStep ==
  ASSUME WorkInv, NEW s \in Places, Gate(s)
  PROVE  WorkInv'
<1>1. OutboxOK /\ WorkOK
  BY WorkParts
<1>2. msg[s].st = "built"
  BY DEF Gate
<1>3. msg[s] \in Message
  BY <1>1, <1>2 DEF OutboxOK, NoMessage
<1>4. CASE msg[s].kind \in Forward /\ WorkEnded
  BY <1>1, <1>4, EndedIsNotDue, Dropping DEF Gate
<1>5. CASE ~(msg[s].kind \in Forward /\ WorkEnded)
  <2> DEFINE m == [msg[s] EXCEPT !.st = "calling"]
  <2>1. Put(s, m) /\ UNCHANGED settled
    BY <1>5 DEF Gate
  <2>2. m \in Message /\ m.st = "calling" /\ m.kind = msg[s].kind /\ m.to = msg[s].to /\ m.plan = msg[s].plan
    BY <1>3 DEF Message
  <2> HIDE DEF m
  <2>3. msg'[s] = m /\ Same
    BY <1>1, <2>1 DEF Put, OutboxOK, work, Same
  <2>4. ASSUME NEW d \in Duties, Announces(s, d) PROVE Announces(s, d)'
    BY <1>2, <2>2, <2>3, <2>4, SameDuties DEF Announces, UnderWay
  <2>5. settled \subseteq Duties
    BY <1>1 DEF OutboxOK
  <2> QED
    BY <2>1, <2>2, <2>4, <2>5, PutStep
<1> QED
  BY <1>4, <1>5

LEMMA RequeueStep ==
  ASSUME WorkInv, NEW s \in Places, msg[s].st \in {"built", "calling"}, msg[s].tries < Tries,
         Put(s, Requeued(s)), UNCHANGED settled
  PROVE  WorkInv'
<1> DEFINE m == Requeued(s)
<1>1. OutboxOK /\ MaxMoves \in Nat
  BY WorkParts, WorkAssumption
<1>2. msg[s] \in Message
  BY <1>1 DEF OutboxOK, NoMessage
<1>3. m \in Message /\ m.st = "queued" /\ m.kind = msg[s].kind /\ m.to = msg[s].to /\ m.tries = msg[s].tries
  <2>1. 0 \in 0..MaxMoves
    BY <1>1
  <2> QED
    BY <1>2, <2>1, Unstamped DEF Requeued
<1> HIDE DEF m
<1>4. msg'[s] = m /\ Same
  BY <1>1 DEF Put, OutboxOK, work, Same, m
<1>5. ASSUME NEW d \in Duties, Announces(s, d) PROVE Announces(s, d)'
  BY <1>3, <1>4, <1>5 DEF Announces, UnderWay
<1>6. settled \subseteq Duties
  BY <1>1 DEF OutboxOK
<1> QED
  BY <1>3, <1>5, <1>6, PutStep DEF m

LEMMA SendStep ==
  ASSUME WorkInv, NEW s \in Places, Send(s)
  PROVE  WorkInv'
<1>1. msg[s].st = "calling"
  BY DEF Send
<1>2. CASE Settle(s)
  BY <1>2, Ending
<1>3. CASE msg[s].plan # Shown(msg[s].kind) /\ Drop(s)
  BY <1>1, <1>3, Dropping DEF Announces
<1>4. CASE msg[s].tries < Tries /\ Put(s, Requeued(s)) /\ UNCHANGED settled
  BY <1>1, <1>4, RequeueStep
<1> QED
  BY <1>2, <1>3, <1>4 DEF Send

LEMMA LoseStep ==
  ASSUME WorkInv, NEW s \in Places, Lose(s)
  PROVE  WorkInv'
  BY Ending, RequeueStep DEF Lose

(* Steps that leave the work and the messages alone.                        *)
LEMMA AsideStep ==
  ASSUME WorkInv, Same, UNCHANGED <<msg, settled>>, on' \in BOOLEAN, ReadingOK'
  PROVE  WorkInv'
<1>1. WorkOK /\ OutboxOK
  BY WorkParts
<1>2. WorkOK' /\ Duties' = Duties /\ (\A k : Shown(k)' = Shown(k))
  BY <1>1, SameDuties, SameWork
<1>3. \A s, d : Announces(s, d) => Announces(s, d)'
  BY <1>2 DEF Announces, UnderWay
<1>4. Announced'
  BY <1>1, <1>2, <1>3 DEF OutboxOK, Announced
<1>5. OutboxOK'
  BY <1>1, <1>2, <1>4 DEF OutboxOK
<1> QED
  BY <1>2, <1>5, WorkParts

LEMMA ReaderStep ==
  ASSUME WorkInv, Configure \/ Look \/ BeginMark \/ EndMark
  PROVE  WorkInv'
<1>1. ReadingOK /\ OutboxOK
  BY WorkParts
<1>2. CASE Configure
  <2>1. Same /\ UNCHANGED <<msg, settled>> /\ UNCHANGED reading /\ on' \in BOOLEAN
    BY <1>2 DEF Configure, Same, work
  <2> QED
    BY <1>1, <2>1, TouchedOK, AsideStep
<1>3. CASE Look
  <2>1. Same /\ UNCHANGED <<msg, settled>> /\ on' = on /\ page' = TRUE /\ receipt' = receipt /\ mark' = mark
    BY <1>3 DEF Look, Same, work
  <2>2. ReadingOK'
    BY <1>1, <2>1 DEF ReadingOK
  <2> QED
    BY <1>1, <2>1, <2>2, AsideStep DEF OutboxOK
<1>4. CASE BeginMark
  <2>1. Same /\ UNCHANGED <<msg, settled>> /\ on' = on /\ page /\ page' = page /\ receipt' = receipt /\ mark' = "current"
    BY <1>4 DEF BeginMark, Same, work
  <2>2. ReadingOK'
    BY <1>1, <2>1 DEF ReadingOK
  <2> QED
    BY <1>1, <2>1, <2>2, AsideStep DEF OutboxOK
<1>5. CASE EndMark
  <2>1. Same /\ UNCHANGED <<msg, settled>> /\ on' = on /\ page' = page /\ mark' = "none" /\ receipt' = (mark = "current")
    BY <1>5 DEF EndMark, Same, work
  <2>2. ReadingOK'
    BY <1>1, <2>1 DEF ReadingOK
  <2> QED
    BY <1>1, <2>1, <2>2, AsideStep DEF OutboxOK
<1> QED
  BY <1>2, <1>3, <1>4, <1>5

LEMMA WorkBegins == WorkInit => WorkInv
<1> SUFFICES ASSUME WorkInit PROVE WorkInv
  OBVIOUS
<1>1. PICK o \in Recruiters : application = [stage |-> "new", owner |-> o, ended |-> FALSE]
  BY DEF WorkInit
<1>2. WorkOK
  BY <1>1, WorkAssumption DEF WorkInit, WorkOK, WorkStages
<1>3. Duties = {}
  <2> SUFFICES ASSUME NEW d \in Duties PROVE FALSE
    OBVIOUS
  <2>1. DueTo(d[1], d[2])
    BY DutiesAre DEF DutiesAreDue
  <2> QED
    BY <1>1, <2>1 DEF DueTo, WorkInit
<1>4. OutboxOK
  BY <1>3 DEF OutboxOK, Announced, WorkInit
<1>5. ReadingOK
  BY DEF ReadingOK, WorkInit
<1> QED
  BY <1>2, <1>4, <1>5, WorkParts

LEMMA WorkStep ==
  ASSUME WorkInv, [WorkNext]_WorkVars
  PROVE  WorkInv'
<1>1. CASE UNCHANGED WorkVars
  <2>1. Same /\ UNCHANGED <<msg, settled>> /\ on' = on /\ UNCHANGED reading
    BY <1>1 DEF WorkVars, Same, reading
  <2>2. ReadingOK' /\ on' \in BOOLEAN
    BY <2>1, WorkParts, TouchedOK DEF OutboxOK
  <2> QED
    BY <2>1, <2>2, AsideStep
<1>2. CASE Reviewing
  BY <1>2, RouteStep, BulkStep, ReferStep, ReassignStep, HandTaskStep, HandApplicationStep DEF Reviewing
<1>3. CASE WorkDecisions
  BY <1>3, NoticeDecideStep, NoticeWithdrawStep, NoticeTerminateStep DEF WorkDecisions
<1>4. CASE InterviewWork
  BY <1>4, NoticeConfirmStep, CancelInterviewStep, NoticeCompleteStep, BookStep, RescheduleStep, NoticeSubmitStep DEF InterviewWork
<1>5. CASE Configure \/ Look \/ BeginMark \/ EndMark
  BY <1>5, ReaderStep
<1>6. CASE \E s \in Places : Attempt(s)
  BY <1>6, HandleStep, GateStep, SendStep, LoseStep DEF Attempt
<1> QED
  BY <1>1, <1>2, <1>3, <1>4, <1>5, <1>6 DEF WorkNext

(* The inductive invariant of WorkNotices (recruiting/tasks.py,             *)
(* integrations/feishu/notifications.py and worker.py, notifications).      *)
THEOREM WorkInvariant == WorkSpec => []WorkInv
<1>1. WorkInit => WorkInv
  BY WorkBegins
<1>2. WorkInv /\ [WorkNext]_WorkVars => WorkInv'
  BY WorkStep
<1> QED
  BY <1>1, <1>2, PTL DEF WorkSpec

(* Nobody waits for work he was never told of, however it changes hands     *)
(* while outdated messages are on their way (schedule_feishu_notification,  *)
(* FeishuNotificationOutboxHandler).                                        *)
THEOREM DutyCorrect == WorkSpec => []DutyIsAnnounced
<1>1. WorkInv => DutyIsAnnounced
  BY DEF WorkInv, DutyIsAnnounced, Announces
<1> QED
  BY <1>1, WorkInvariant, PTL

(* What counts as read was on the Reader's page as it is now                *)
(* (mark_workbench_notification_read).                                      *)
THEOREM ReadingCorrect == WorkSpec => []ReadMeansSeen
<1>1. WorkInv => ReadMeansSeen
  BY DEF WorkInv
<1> QED
  BY <1>1, WorkInvariant, PTL


(* No command puts a message on its way: it waits for a worker first.       *)
NoCall == \A s \in Places : msg'[s].st = "calling" => msg'[s] = msg[s]

LEMMA NotifyCalls ==
  ASSUME NEW cards, NEW excused, Notify(cards, excused)
  PROVE  NoCall
<1> SUFFICES ASSUME NEW s \in Places, msg'[s].st = "calling" PROVE msg'[s] = msg[s]
  BY DEF NoCall
<1>1. \A c : SentTo(c).st # "calling"
  BY DEF SentTo
<1>2. CASE ~on
  BY <1>2 DEF Notify
<1>3. CASE on
  <2> DEFINE at == CHOOSE f \in [cards -> Spare] : \A c, d \in cards : f[c] = f[d] => c = d
             CardOf(t) == CHOOSE x \in cards : at[x] = t
  <2>1. msg' = [t \in Places |-> IF \E c \in cards : at[c] = t THEN SentTo(CardOf(t)) ELSE msg[t]]
    BY <1>3 DEF Notify
  <2> HIDE DEF at, CardOf
  <2>2. msg'[s] = msg[s] \/ msg'[s] = SentTo(CardOf(s))
    BY <2>1
  <2> QED
    BY <1>1, <2>2
<1> QED
  BY <1>2, <1>3

LEMMA SilentCalls == Silently => NoCall
  BY NotifyCalls DEF Silently

LEMMA CommandCalls ==
  ASSUME Reviewing \/ WorkDecisions \/ InterviewWork
  PROVE  NoCall
<1>1. ASSUME NEW m, NewTask(m) PROVE NoCall
  BY <1>1, NotifyCalls DEF NewTask
<1>2. CASE Route
  BY <1>1, <1>2, SilentCalls DEF Route
<1>3. CASE Bulk
  BY <1>3, SilentCalls DEF Bulk
<1>4. ASSUME NEW m \in Managers, Refer(m) \/ Reassign(m) \/ HandTask(m) PROVE NoCall
  BY <1>1, <1>4, NotifyCalls DEF Refer, Reassign, HandTask
<1>5. ASSUME NEW o \in Recruiters, HandApplication(o) PROVE NoCall
  BY <1>5, NotifyCalls DEF HandApplication
<1>6. ASSUME NEW action \in DOMAIN ToldActions, DecideAndTell(action) PROVE NoCall
  BY <1>6, NotifyCalls DEF DecideAndTell
<1>7. CASE WithdrawWork
  BY <1>7, SilentCalls DEF WithdrawWork
<1>8. CASE TerminateAndTell
  BY <1>8, NotifyCalls, SilentCalls DEF TerminateAndTell
<1>9. CASE ConfirmPlan \/ MissPlan
  BY <1>9, SilentCalls DEF ConfirmPlan, MissPlan
<1>10. CASE CancelInterview
  BY <1>10, NotifyCalls DEF CancelInterview
<1>11. CASE AdvanceAndTell
  BY <1>11, NotifyCalls DEF AdvanceAndTell
<1>12. CASE CompleteAndAsk
  BY <1>11, <1>12, NotifyCalls DEF CompleteAndAsk
<1>13. ASSUME NEW m \in Managers, SubmitAsked(m) PROVE NoCall
  BY <1>11, <1>13, SilentCalls DEF SubmitAsked
<1>14. ASSUME NEW part \in Juries, Book(part) PROVE NoCall
  BY <1>14, NotifyCalls DEF Book
<1>15. ASSUME NEW part \in Juries, Reschedule(part) PROVE NoCall
  BY <1>15, NotifyCalls DEF Reschedule
<1> QED
  BY <1>2, <1>3, <1>4, <1>5, <1>6, <1>7, <1>8, <1>9, <1>10, <1>12, <1>13, <1>14, <1>15
  DEF Reviewing, WorkDecisions, InterviewWork

LEMMA ForwardStep ==
  ASSUME WorkInv, WorkNext, WorkEnded, NEW s \in Places,
         msg'[s].st = "calling", msg'[s].kind \in Forward
  PROVE  msg[s].st = "calling"
<1>1. CASE Reviewing \/ WorkDecisions \/ InterviewWork
  BY <1>1, CommandCalls DEF NoCall
<1>2. CASE Configure \/ Look \/ BeginMark \/ EndMark
  BY <1>2 DEF Configure, Look, BeginMark, EndMark
<1>3. ASSUME NEW t \in Places, Attempt(t) PROVE msg[s].st = "calling"
  <2>1. OutboxOK
    BY WorkParts
  <2>2. ASSUME NEW m, Put(t, m), m.st # "calling" PROVE msg[s].st = "calling"
    BY <2>1, <2>2 DEF Put, OutboxOK
  <2>3. NoMessage.st # "calling" /\ Requeued(t).st # "calling"
    <3>1. msg[t] \in Message \cup {NoMessage}
      BY <2>1 DEF OutboxOK
    <3> QED
      BY <3>1 DEF NoMessage, Requeued, Message
  <2>4. CASE Settle(t) \/ Drop(t)
    BY <2>2, <2>3, <2>4 DEF Settle, Drop
  <2>5. CASE Handle(t)
    <3>1. [msg[t] EXCEPT !.st = "built", !.tries = @ + 1, !.plan = Shown(msg[t].kind)].st # "calling"
      <4>1. msg[t] \in Message \cup {NoMessage}
        BY <2>1 DEF OutboxOK
      <4> QED
        BY <4>1 DEF NoMessage, Message
    <3> QED
      BY <2>2, <2>4, <2>5, <3>1 DEF Handle
  <2>6. CASE Gate(t)
    <3>1. CASE t = s
      <4>1. CASE msg[s].kind \in Forward
        BY <2>4, <2>6, <3>1, <4>1 DEF Gate
      <4>2. CASE msg[s].kind \notin Forward
        <5>1. Put(s, [msg[s] EXCEPT !.st = "calling"])
          BY <2>6, <3>1, <4>2 DEF Gate
        <5>2. msg'[s] = [msg[s] EXCEPT !.st = "calling"] /\ msg[s] \in Message \cup {NoMessage}
          BY <2>1, <5>1 DEF Put, OutboxOK
        <5>3. msg'[s].kind = msg[s].kind
          BY <5>2 DEF Message, NoMessage
        <5> QED
          BY <4>2, <5>3
      <4> QED
        BY <4>1, <4>2
    <3>2. CASE t # s
      BY <2>1, <2>6, <3>2 DEF Gate, Drop, Put, OutboxOK
    <3> QED
      BY <3>1, <3>2
  <2>7. CASE Send(t)
    BY <2>2, <2>3, <2>4, <2>7 DEF Send
  <2>8. CASE Lose(t)
    BY <2>2, <2>3, <2>4, <2>8 DEF Lose
  <2> QED
    BY <1>3, <2>5, <2>6, <2>7, <2>8 DEF Attempt
<1> QED
  BY <1>1, <1>2, <1>3 DEF WorkNext

(* Once an application has ended no card that says it goes on starts on its *)
(* way, whatever a worker had built before (integrations/feishu/worker.py,  *)
(* the second transaction of FeishuNotificationOutboxHandler).              *)
THEOREM ForwardCorrect == WorkSpec => NoForwardAfterEnd
<1>1. WorkSpec => []WorkInv
  BY WorkInvariant
<1>2. WorkInv /\ [WorkNext]_WorkVars
        => [WorkEnded => \A s \in Places :
              msg'[s].st = "calling" /\ msg'[s].kind \in Forward => msg[s].st = "calling"]_WorkVars
  BY ForwardStep
<1> QED
  BY <1>1, <1>2, PTL DEF WorkSpec, NoForwardAfterEnd
=============================================================================
