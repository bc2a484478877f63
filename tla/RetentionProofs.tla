-------------------------- MODULE RetentionProofs --------------------------
(***************************************************************************)
(* Proofs about Retention, for any policies, pools, applications and days, *)
(* and about Backup and Recovery, for any candidates, backups and calls.   *)
(***************************************************************************)
EXTENDS Retention, Recovery, FiniteSetTheorems, WellFoundedInduction, TLAPS

-----------------------------------------------------------------------------
(* Maxima.                                                                  *)

LEMMA Least ==
  ASSUME NEW T \in SUBSET Nat, T # {}
  PROVE  \E x \in T : \A y \in T : x <= y
<1> DEFINE R == OpToRel(<, Nat)
<1>1. IsWellFoundedOn(R, Nat)
  BY NatLessThanWellFounded
<1>2. \A x, y \in Nat : y < x => <<y, x>> \in R
  BY DEF OpToRel
<1> HIDE DEF R
<1>3. PICK x \in T : \A y \in T : ~ (<<y, x>> \in R)
  BY <1>1, WFMin
<1>4. \A y \in T : ~ (y < x)
  BY <1>2, <1>3
<1>5. \A y \in T : x <= y
  BY <1>4, x \in Nat
<1> QED
  BY <1>5

LEMMA Greatest ==
  ASSUME NEW B \in Nat, NEW S \in SUBSET (0..B), S # {}
  PROVE  Max(S) \in S /\ \A y \in S : y <= Max(S)
<1> DEFINE T == {B - x : x \in S}
<1>1. T \in SUBSET Nat /\ T # {}
  <2>1. \A x \in S : B - x \in Nat
    OBVIOUS
  <2> QED
    BY <2>1
<1> HIDE DEF T
<1>2. PICK m \in T : \A n \in T : m <= n
  BY <1>1, Least
<1> USE DEF T
<1>3. PICK z \in S : m = B - z
  BY <1>2
<1>4. \A y \in S : z >= y
  BY <1>2, <1>3
<1> QED
  BY <1>4 DEF Max

-----------------------------------------------------------------------------
(* Types.                                                                   *)

Governing == hold \in BOOLEAN /\ request \in {"none", "open", "completed"}
Membered(m) == \A p \in DOMAIN m : m[p] \in MembershipRow
Pooled(P) == DOMAIN P \subseteq Pools \cup {System} /\ \A p \in DOMAIN P : P[p] \in Nat
Stages == {"none", "new", "review", "deferred", "ended"}

LEMMA Types ==
  TypeOK <=> /\ day \in Days /\ policy \in PolicyRow /\ preview \in Token \cup {None}
             /\ cand \in CandidateRow /\ acts \in 0..MaxActs
             /\ app \in [Applications -> Stages]
             /\ Pooled(pool) /\ DOMAIN member \subseteq DOMAIN pool /\ Membered(member)
             /\ begun \in {"nothing", "apply", "join"} /\ Governing /\ sweep \in SweepRow
  BY DEF TypeOK, Governing, Membered, Pooled, Stages

LEMMA TypesNext ==
  TypeOK' <=> /\ day' \in Days /\ policy' \in PolicyRow /\ preview' \in Token \cup {None}
              /\ cand' \in CandidateRow /\ acts' \in 0..MaxActs
              /\ app' \in [Applications -> Stages]
              /\ Pooled(pool') /\ DOMAIN member' \subseteq DOMAIN pool' /\ Membered(member')
              /\ begun' \in {"nothing", "apply", "join"} /\ Governing' /\ sweep' \in SweepRow
  BY DEF TypeOK, Governing, Membered, Pooled, Stages

LEMMA Numbers ==
  /\ LastDay \in Nat /\ MaxDays \in Nat /\ Horizon \in Nat /\ Horizon = LastDay + MaxDays
  /\ Days \subseteq Nat /\ Days \subseteq Dates /\ Dates \subseteq Nat /\ None \notin Dates
  /\ \A d \in Days, n \in 1..MaxDays : d + n \in Dates
  /\ \A v \in Values : v.terminal \in 1..MaxDays /\ v.talent \in 1..MaxDays
  BY ConstantsAssumption DEF Horizon, Days, Dates

LEMMA RetentionRows ==
  ASSUME TypeOK
  PROVE  /\ day \in Days /\ day \in Nat /\ acts \in 0..MaxActs
         /\ policy.days \in Values /\ policy.version \in 1..MaxActs + 1
         /\ policy.days.terminal \in 1..MaxDays /\ policy.days.talent \in 1..MaxDays
         /\ policy = [days |-> policy.days, version |-> policy.version]
         /\ cand.fact \in Days /\ cand.due \in Dates \cup {None} /\ cand.deleted \in BOOLEAN
         /\ sweep.pc \in {"none", "queued", "read", "scanned"} /\ sweep.at \in Days
         /\ sweep.date \in 0..LastDay + 1 /\ sweep.n \in 0..MaxAttempts
  BY Types, Numbers DEF PolicyRow, CandidateRow, SweepRow

(* What candidate_due_dates answers.                                        *)
LEMMA DueBounds ==
  ASSUME NEW t \in 1..MaxDays, NEW f \in Days, NEW a, NEW m, Membered(m)
  PROVE  /\ DueDate(t, f, a, m) \in Dates \cup {None}
         /\ DueDate(t, f, a, m) = None <=> Live(a) # {}
         /\ DueDate(t, f, a, m) # None =>
              /\ f + t <= DueDate(t, f, a, m)
              /\ \A p \in DOMAIN m : m[p].active => m[p].until <= DueDate(t, f, a, m)
<1> DEFINE S == {f + t} \cup {m[p].until : p \in {q \in DOMAIN m : m[q].active}}
<1>1. \A p \in DOMAIN m : m[p].until \in Dates
  BY DEF Membered, MembershipRow
<1>2. f + t \in Dates
  BY Numbers
<1>3. S \in SUBSET (0..Horizon) /\ S # {}
  BY <1>1, <1>2 DEF Dates
<1>4. f + t \in S /\ \A p \in DOMAIN m : m[p].active => m[p].until \in S
  OBVIOUS
<1>5. DueDate(t, f, a, m) = IF Live(a) # {} THEN None ELSE Max(S)
  BY DEF DueDate
<1> HIDE DEF S
<1>6. Max(S) \in S /\ \A y \in S : y <= Max(S)
  BY <1>3, Numbers, Greatest
<1>7. Max(S) \in Dates /\ Max(S) # None
  BY <1>3, <1>6, Numbers DEF Dates
<1> QED
  BY <1>4, <1>5, <1>6, <1>7

-----------------------------------------------------------------------------
(* Kinds of steps.                                                          *)

(* What no invariant reads, and what people have done.                      *)
Aside ==
  /\ acts' \in 0..MaxActs /\ acts' >= acts
  /\ preview' \in Token \cup {None} /\ begun' \in {"nothing", "apply", "join"} /\ Governing'

(* The candidate's facts stay as they are.                                  *)
LEMMA QuietStep ==
  ASSUME IInv, Aside, UNCHANGED <<policy, facts, sweep>>,
         day' \in Days, day' >= day, Pooled(pool'), DOMAIN member \subseteq DOMAIN pool'
  PROVE  IInv'
<1>1. TypeOK'
  BY Types, TypesNext DEF IInv, Aside, facts
<1>2. VersionsCount'
  BY RetentionRows DEF IInv, VersionsCount, Aside
<1>3. DueIffOver'
  BY DEF IInv, DueIffOver, facts, Live
<1>4. SweepOK'
  <2>1. Judged <=> Judged'
    BY DEF Judged, Due, DueDate, Live, facts
  <2>2. UnderWay <=> UnderWay'
    BY DEF UnderWay
  <2> QED
    BY <2>1, <2>2, RetentionRows, Numbers DEF IInv, SweepOK
<1> QED
  BY <1>1, <1>2, <1>3, <1>4 DEF IInv

(* The facts change, and the due date with them.                            *)
LEMMA FactsStep ==
  ASSUME IInv, Aside, UNCHANGED <<day, policy, sweep>>,
         NEW f \in Days, app' \in [Applications -> Stages],
         Pooled(pool'), DOMAIN member' \subseteq DOMAIN pool', Membered(member'),
         cand' = Recalculated(f, app', member')
  PROVE  IInv'
<1> DEFINE d == DueDate(policy.days.terminal, f, app', member')
<1>1. cand' = [cand EXCEPT !.fact = f, !.due = d]
  BY DEF Recalculated
<1>2. d \in Dates \cup {None} /\ (d = None <=> Live(app') # {})
  BY RetentionRows, DueBounds DEF IInv
<1>3. d = Due(policy.days.terminal)' <=> d = DueDate(policy.days.terminal, cand'.fact, app', member')
  BY DEF Due
<1>4. cand \in CandidateRow
  BY Types DEF IInv
<1>5. cand'.fact = f
  BY <1>1, <1>4 DEF CandidateRow
<1>6. d = Due(policy.days.terminal)'
  BY <1>3, <1>5
<1> HIDE DEF d
<1>7. cand' \in CandidateRow /\ cand'.due = d /\ cand'.deleted = cand.deleted
  BY <1>1, <1>2, <1>4 DEF CandidateRow
<1>8. TypeOK'
  BY <1>7, Types, TypesNext DEF IInv, Aside
<1>9. VersionsCount'
  BY RetentionRows DEF IInv, VersionsCount, Aside
<1>10. DueIffOver'
  BY <1>2, <1>7 DEF DueIffOver, Live
<1>11. SweepOK'
  BY <1>6, <1>7 DEF IInv, SweepOK, UnderWay, Judged
<1> QED
  BY <1>8, <1>9, <1>10, <1>11 DEF IInv

(* The sweep moves, and is not under way after it.                          *)
LEMMA SweepMoves ==
  ASSUME IInv, Aside, UNCHANGED <<day, policy, facts, pool>>,
         sweep' \in SweepRow, sweep'.pc \notin {"read", "scanned"}, sweep'.n < MaxAttempts
  PROVE  IInv'
<1>1. TypeOK'
  BY Types, TypesNext DEF IInv, Aside, facts
<1>2. VersionsCount'
  BY RetentionRows DEF IInv, VersionsCount, Aside
<1>3. DueIffOver'
  BY DEF IInv, DueIffOver, facts, Live
<1>4. SweepOK'
  BY DEF SweepOK, UnderWay
<1> QED
  BY <1>1, <1>2, <1>3, <1>4 DEF IInv

LEMMA ActsAside ==
  ASSUME TypeOK, Acts, preview' \in Token \cup {None}, begun' \in {"nothing", "apply", "join"}, Governing'
  PROVE  Aside
  BY Types, ConstantsAssumption DEF Acts, Aside

LEMMA ActsOnly ==
  ASSUME TypeOK, Acts, Unchanged
  PROVE  Aside /\ UNCHANGED <<day, policy, sweep>> /\ day \in Days
<1>1. Governing'
  BY Types DEF Unchanged, governance, Governing
<1> QED
  BY <1>1, Types, ActsAside DEF Unchanged

(* Adding, changing and removing rows of a table.                           *)
LEMMA Memberships ==
  ASSUME NEW m, Membered(m), NEW p, NEW r \in MembershipRow
  PROVE  /\ Membered(Put(m, p, r)) /\ DOMAIN Put(m, p, r) = DOMAIN m \cup {p}
         /\ Membered(Drop(m, p)) /\ DOMAIN Drop(m, p) = DOMAIN m \ {p}
  BY DEF Membered, Put, Drop

LEMMA SystemPool ==
  ASSUME TypeOK
  PROVE  Pooled(WithSystemPool) /\ DOMAIN WithSystemPool = DOMAIN pool \cup {System}
<1>1. policy.days.talent \in Nat
  BY RetentionRows
<1>2. Pooled(pool)
  BY Types
<1> QED
  BY <1>1, <1>2 DEF WithSystemPool, Put, Pooled

(* A deferral keeps the later of two dates.                                 *)
LEMMA Deferrals ==
  ASSUME TypeOK, NEW x \in Applications
  PROVE  Deferral(x) \in MembershipRow
<1> DEFINE S == {day + policy.days.talent} \cup (IF System \in DOMAIN member THEN {member[System].until} ELSE {})
<1>1. System \in DOMAIN member => member[System] \in MembershipRow
  BY Types DEF Membered
<1>2. day + policy.days.talent \in Dates
  BY RetentionRows, Numbers
<1>3. S \in SUBSET (0..Horizon) /\ S # {}
  BY <1>1, <1>2 DEF MembershipRow, Dates
<1>4. Deferral(x) = [until |-> Max(S), source |-> x, active |-> System \in DOMAIN member => member[System].active]
  BY DEF Deferral
<1> HIDE DEF S
<1>5. Max(S) \in Dates
  BY <1>3, Greatest, Numbers DEF Dates
<1>6. (System \in DOMAIN member => member[System].active) \in BOOLEAN
  OBVIOUS
<1> QED
  BY <1>4, <1>5, <1>6 DEF MembershipRow

-----------------------------------------------------------------------------
(* Applications.                                                            *)

LEMMA ApplyInd ==
  ASSUME IInv, NEW x \in Applications, Apply(x)
  PROVE  IInv'
<1>1. TypeOK
  BY DEF IInv
<1>2. Aside /\ UNCHANGED <<day, policy, sweep>> /\ day \in Days
  <2>1. Governing'
    BY <1>1, Types DEF Apply, governance, Governing
  <2> QED
    BY <1>1, <2>1, Types, ActsAside DEF Apply
<1>3. app' \in [Applications -> Stages]
  BY <1>1, Types DEF Apply, SetStage, Stages
<1>4. UNCHANGED <<member, pool>> /\ cand' = Recalculated(day, app', member')
  BY DEF Apply, SetStage
<1> QED
  BY <1>1, <1>2, <1>3, <1>4, Types, FactsStep

(* Whatever sets a stage and recalculates.                                  *)
LEMMA StageStep ==
  ASSUME IInv, Acts, Unchanged, NEW x \in Applications, NEW s \in Stages, SetStage(x, s), UNCHANGED <<member, pool>>
  PROVE  IInv'
<1>1. TypeOK
  BY DEF IInv
<1>2. Aside /\ UNCHANGED <<day, policy, sweep>> /\ day \in Days
  BY <1>1, ActsOnly
<1>3. app' \in [Applications -> Stages]
  BY <1>1, Types DEF SetStage
<1>4. cand' = Recalculated(day, app', member')
  BY DEF SetStage
<1> QED
  BY <1>1, <1>2, <1>3, <1>4, Types, FactsStep

LEMMA EndInd == ASSUME IInv, NEW x \in Applications, End(x) PROVE IInv'
  BY StageStep DEF End, Stages

LEMMA ReviewInd == ASSUME IInv, NEW x \in Applications, Review(x) PROVE IInv'
  BY StageStep DEF Review, Stages

LEMMA UndoInd == ASSUME IInv, NEW x \in Applications, UndoAdvance(x) PROVE IInv'
  BY StageStep DEF UndoAdvance, Stages

LEMMA SourceIs ==
  ASSUME TypeOK, NEW p \in DOMAIN member, member[p].source # None
  PROVE  member[p].source \in Applications
  BY Types DEF Membered, MembershipRow

LEMMA ReferInd == ASSUME IInv, NEW p, Refer(p) PROVE IInv'
<1>1. member[p].source \in Applications
  BY SourceIs DEF IInv, Refer
<1> QED
  BY <1>1, StageStep DEF Refer, Stages

LEMMA ReactivateInd == ASSUME IInv, NEW p, NEW x \in Applications, Reactivate(p, x) PROVE IInv'
  BY StageStep DEF Reactivate, Stages

LEMMA ProgressInd == ASSUME IInv, Progress PROVE IInv'
<1>1. TypeOK
  BY DEF IInv
<1>2. Aside /\ UNCHANGED <<day, policy, sweep>> /\ day \in Days
  BY <1>1, ActsOnly DEF Progress
<1>3. UNCHANGED <<app, member, pool>> /\ cand' = Recalculated(day, app', member')
  BY DEF Progress
<1> QED
  BY <1>1, <1>2, <1>3, Types, FactsStep

LEMMA DeferInd == ASSUME IInv, NEW x \in Applications, Defer(x) PROVE IInv'
<1>1. TypeOK
  BY DEF IInv
<1>2. Aside /\ UNCHANGED <<day, policy, sweep>> /\ day \in Days
  BY <1>1, ActsOnly DEF Defer
<1>3. app' \in [Applications -> Stages]
  BY <1>1, Types DEF Defer, Stages
<1>4. Pooled(pool') /\ DOMAIN pool' = DOMAIN pool \cup {System}
  BY <1>1, SystemPool DEF Defer
<1>5. Membered(member') /\ DOMAIN member' = DOMAIN member \cup {System}
  BY <1>1, Types, Deferrals, Memberships DEF Defer
<1>6. DOMAIN member' \subseteq DOMAIN pool'
  BY <1>1, <1>4, <1>5, Types
<1>7. cand' = Recalculated(day, app', member')
  BY DEF Defer
<1> QED
  BY <1>2, <1>3, <1>4, <1>5, <1>6, <1>7, FactsStep

(* The handover adds a fact of today and writes no due date.                *)
LEMMA HandoverInd == ASSUME IInv, Handover PROVE IInv'
<1>1. TypeOK /\ cand \in CandidateRow
  BY Types DEF IInv
<1>2. Aside /\ UNCHANGED <<day, policy, sweep>> /\ day \in Days
  BY <1>1, ActsOnly DEF Handover
<1>3. UNCHANGED <<app, member, pool>> /\ cand' = [cand EXCEPT !.fact = day]
  BY DEF Handover
<1>4. cand' \in CandidateRow /\ cand'.fact = day /\ cand'.due = cand.due /\ cand'.deleted = cand.deleted
  BY <1>1, <1>2, <1>3 DEF CandidateRow
<1>5. TypeOK'
  BY <1>1, <1>2, <1>3, <1>4, Types, TypesNext DEF Aside
<1>6. VersionsCount'
  BY <1>1, <1>2, RetentionRows DEF IInv, VersionsCount, Aside
<1>7. DueIffOver'
  BY <1>3, <1>4 DEF IInv, DueIffOver, Live
<1>8. SweepOK'
  BY <1>2, <1>4, <1>1, RetentionRows, Numbers DEF IInv, SweepOK, UnderWay, Judged
<1> QED
  BY <1>5, <1>6, <1>7, <1>8 DEF IInv

-----------------------------------------------------------------------------
(* Talent pools.                                                            *)

LEMMA BelongStep ==
  ASSUME IInv, Aside, UNCHANGED <<day, policy, sweep, app, pool>>, NEW m,
         Membered(m), DOMAIN m \subseteq DOMAIN pool, Belong(m)
  PROVE  IInv'
<1>1. TypeOK /\ cand.fact \in Days
  BY RetentionRows DEF IInv
<1>2. member' = m /\ cand' = Recalculated(cand.fact, app', member')
  BY DEF Belong
<1> QED
  BY <1>1, <1>2, Types, FactsStep

LEMMA JoinInd ==
  ASSUME IInv, NEW p \in Pools \cup {System}, NEW x \in {None} \cup Applications, Join(p, LastDay, x)
  PROVE  IInv'
<1>1. TypeOK
  BY DEF IInv
<1>2. Aside
  <2>1. Governing'
    BY <1>1, Types DEF Join, governance, Governing
  <2> QED
    BY <1>1, <2>1, Types, ActsAside DEF Join
<1>3. [until |-> LastDay, source |-> x, active |-> TRUE] \in MembershipRow
  BY Numbers DEF MembershipRow, Dates
<1> DEFINE m == Put(member, p, [until |-> LastDay, source |-> x, active |-> TRUE])
<1>4. Membered(m) /\ DOMAIN m = DOMAIN member \cup {p}
  BY <1>1, <1>3, Types, Memberships
<1>5. DOMAIN m \subseteq DOMAIN pool
  BY <1>1, <1>4, Types DEF Join
<1>6. Belong(m) /\ UNCHANGED <<day, policy, sweep, app, pool>>
  BY DEF Join
<1> HIDE DEF m
<1> QED
  BY <1>2, <1>4, <1>5, <1>6, BelongStep

LEMMA AmendInd ==
  ASSUME IInv, NEW p, NEW b \in BOOLEAN, Amend(p, day, b)
  PROVE  IInv'
<1>1. TypeOK
  BY DEF IInv
<1>2. Aside /\ UNCHANGED <<day, policy, sweep, app, pool>>
  BY <1>1, ActsOnly DEF Amend
<1> DEFINE m == [member EXCEPT ![p].until = day, ![p].active = b]
<1>3. day \in Dates /\ p \in DOMAIN member /\ Membered(member)
  BY <1>1, Types, Numbers DEF Amend
<1>4. DOMAIN m = DOMAIN member /\ \A q \in DOMAIN member : m[q] = IF q = p THEN [member[p] EXCEPT !.until = day, !.active = b] ELSE member[q]
  BY <1>3
<1>5. [member[p] EXCEPT !.until = day, !.active = b] \in MembershipRow
  BY <1>3 DEF Membered, MembershipRow
<1>6. Belong(m)
  BY DEF Amend
<1> HIDE DEF m
<1>7. Membered(m) /\ DOMAIN m \subseteq DOMAIN pool
  BY <1>1, <1>3, <1>4, <1>5, Types DEF Membered
<1> QED
  BY <1>2, <1>6, <1>7, BelongStep

LEMMA MoveInd ==
  ASSUME IInv, NEW p, NEW q \in Pools, Move(p, q)
  PROVE  IInv'
<1>1. TypeOK
  BY DEF IInv
<1>2. Aside /\ UNCHANGED <<day, policy, sweep, app, pool>>
  BY <1>1, ActsOnly DEF Move
<1>3. member[p] \in MembershipRow
  BY <1>1, Types DEF Move, Membered
<1> DEFINE n == Drop(member, p)
           m == Put(n, q, member[p])
<1>4. Membered(n) /\ DOMAIN n = DOMAIN member \ {p}
  BY <1>1, <1>3, Types, Memberships
<1>5. Belong(m)
  BY DEF Move
<1> HIDE DEF n
<1>6. Membered(m) /\ DOMAIN m = DOMAIN n \cup {q}
  BY <1>3, <1>4, Memberships
<1> HIDE DEF m
<1>7. DOMAIN m \subseteq DOMAIN pool
  BY <1>1, <1>4, <1>6, Types DEF Move
<1> QED
  BY <1>2, <1>5, <1>6, <1>7, BelongStep

LEMMA LeaveInd ==
  ASSUME IInv, NEW p, Leave(p)
  PROVE  IInv'
<1>1. TypeOK
  BY DEF IInv
<1>2. Aside /\ UNCHANGED <<day, policy, sweep, app, pool>>
  BY <1>1, ActsOnly DEF Leave
<1>3. Membered(Drop(member, p)) /\ DOMAIN Drop(member, p) \subseteq DOMAIN pool
  BY <1>1, Types DEF Membered, Drop
<1> QED
  BY <1>2, <1>3, BelongStep DEF Leave

LEMMA CreatePoolInd == ASSUME IInv, NEW p, CreatePool(p) PROVE IInv'
<1>1. TypeOK
  BY DEF IInv
<1>2. Aside /\ UNCHANGED <<day, policy, sweep, facts>>
  BY <1>1, ActsOnly DEF CreatePool
<1>3. Pooled(pool') /\ DOMAIN pool' = DOMAIN pool \cup {p}
  BY <1>1, Types DEF CreatePool, Pooled, Put
<1>4. day' \in Days /\ day' >= day
  BY <1>1, <1>2, RetentionRows
<1> QED
  BY <1>1, <1>2, <1>3, <1>4, Types, QuietStep

LEMMA DeletePoolInd == ASSUME IInv, NEW p, DeletePool(p) PROVE IInv'
<1>1. TypeOK
  BY DEF IInv
<1>2. Aside /\ UNCHANGED <<day, policy, sweep, facts>>
  BY <1>1, ActsOnly DEF DeletePool
<1>3. Pooled(pool') /\ DOMAIN pool' = DOMAIN pool \ {p}
  BY <1>1, Types DEF DeletePool, Pooled, Drop
<1>4. day' \in Days /\ day' >= day
  BY <1>1, <1>2, RetentionRows
<1>5. p \notin DOMAIN member
  BY DEF DeletePool
<1> QED
  BY <1>1, <1>2, <1>3, <1>4, <1>5, Types, QuietStep

-----------------------------------------------------------------------------
(* Time, the policy and governance.                                         *)

LEMMA TickInd == ASSUME IInv, Tick PROVE IInv'
<1>1. TypeOK
  BY DEF IInv
<1>2. day' \in Days /\ day' >= day
  BY <1>1, RetentionRows, Numbers DEF Tick, Days
<1>3. Aside
  BY <1>1, Types, ConstantsAssumption DEF Tick, Aside, governance, Governing
<1> QED
  BY <1>1, <1>2, <1>3, Types, QuietStep DEF Tick

LEMMA BeginInd == ASSUME IInv, NEW w \in {"apply", "join"}, Begin(w) PROVE IInv'
<1>1. TypeOK
  BY DEF IInv
<1>2. day' \in Days /\ day' >= day
  BY <1>1, RetentionRows DEF Begin
<1>3. Aside
  BY <1>1, Types, ConstantsAssumption DEF Begin, Aside, governance, Governing
<1> QED
  BY <1>1, <1>2, <1>3, Types, QuietStep DEF Begin

LEMMA PreviewInd == ASSUME IInv, NEW v \in Values, Preview(v) PROVE IInv'
<1>1. TypeOK
  BY DEF IInv
<1>2. day' \in Days /\ day' >= day
  BY <1>1, RetentionRows DEF Preview
<1>3. [days |-> v, version |-> policy.version, affected |-> Affected(v), day |-> day] \in Token
  BY <1>1, RetentionRows DEF Token, Affected
<1>4. Aside
  BY <1>1, <1>3, Types, ConstantsAssumption DEF Preview, Acts, Aside, governance, Governing
<1> QED
  BY <1>1, <1>2, <1>4, Types, QuietStep DEF Preview

(* A policy's change writes every due date anew.                            *)
LEMMA UpdatePolicyInd == ASSUME IInv, NEW v \in Values, UpdatePolicy(v) PROVE IInv'
<1>1. TypeOK /\ cand \in CandidateRow
  BY Types DEF IInv
<1>2. Aside /\ UNCHANGED <<day, app, member, pool, sweep>>
  <2>1. Governing'
    BY <1>1, Types DEF UpdatePolicy, governance, Governing
  <2> QED
    BY <1>1, <2>1, Types, ActsAside DEF UpdatePolicy
<1>3. policy' = [days |-> v, version |-> policy.version + 1] /\ acts' = acts + 1 /\ acts < MaxActs
  BY DEF UpdatePolicy, Acts
<1>4. policy' \in PolicyRow /\ policy'.version <= acts' + 1
  BY <1>1, <1>3, RetentionRows, ConstantsAssumption DEF IInv, VersionsCount, PolicyRow
<1>5. v.terminal \in 1..MaxDays /\ cand.fact \in Days /\ Membered(member)
  BY <1>1, RetentionRows, Numbers, Types
<1>6. Due(v.terminal) \in Dates \cup {None} /\ (Due(v.terminal) = None <=> Live(app) # {})
  BY <1>5, DueBounds DEF Due
<1>7. cand' = [cand EXCEPT !.due = Due(v.terminal)]
  BY DEF UpdatePolicy
<1>8. cand' \in CandidateRow /\ cand'.due = Due(v.terminal) /\ cand'.fact = cand.fact
  BY <1>1, <1>6, <1>7 DEF CandidateRow
<1>9. Due(policy.days.terminal)' = Due(v.terminal)
  BY <1>2, <1>3, <1>8 DEF Due
<1>10. TypeOK'
  BY <1>1, <1>2, <1>4, <1>8, Types, TypesNext DEF Aside
<1>11. DueIffOver'
  BY <1>2, <1>6, <1>8 DEF DueIffOver, Live
<1>12. SweepOK'
  BY <1>2, <1>8, <1>9 DEF IInv, SweepOK, UnderWay, Judged
<1> QED
  BY <1>4, <1>10, <1>11, <1>12 DEF IInv, VersionsCount

LEMMA HoldInd == ASSUME IInv, PlaceHold \/ ReleaseHold \/ AskDeletion PROVE IInv'
<1>1. TypeOK
  BY DEF IInv
<1>2. day' \in Days /\ day' >= day
  BY <1>1, RetentionRows DEF PlaceHold, ReleaseHold, AskDeletion
<1>3. Governing'
  BY <1>1, Types DEF PlaceHold, ReleaseHold, AskDeletion, Governing
<1>4. Aside
  BY <1>1, <1>3, Types, ConstantsAssumption DEF PlaceHold, ReleaseHold, AskDeletion, Acts, Aside
<1> QED
  BY <1>1, <1>2, <1>4, Types, QuietStep DEF PlaceHold, ReleaseHold, AskDeletion

(* Nothing is asked of a candidate who has been erased.                     *)
LEMMA EraseInd == ASSUME IInv, Erase PROVE IInv'
<1>1. TypeOK /\ cand \in CandidateRow
  BY Types DEF IInv
<1>2. Aside /\ UNCHANGED <<day, policy, pool, sweep>>
  <2>1. Governing'
    BY <1>1, Types DEF Erase, Governing
  <2> QED
    BY <1>1, <2>1, Types, ActsAside DEF Erase
<1>3. day \in Days
  BY <1>1, RetentionRows
<1>4. cand' \in CandidateRow /\ cand'.deleted
  <2>1. cand' = [cand EXCEPT !.deleted = TRUE, !.due = None, !.fact = day]
    BY DEF Erase
  <2> QED
    BY <1>1, <1>3, <2>1 DEF CandidateRow
<1>5. app' \in [Applications -> Stages] /\ DOMAIN member' = {} /\ Membered(member')
  BY DEF Erase, Stages, Membered
<1>6. TypeOK'
  BY <1>1, <1>2, <1>4, <1>5, Types, TypesNext DEF Aside
<1>7. VersionsCount'
  BY <1>1, <1>2, RetentionRows DEF IInv, VersionsCount, Aside
<1>8. DueIffOver'
  BY <1>4 DEF DueIffOver
<1>9. SweepOK'
  BY <1>2, <1>4 DEF IInv, SweepOK, UnderWay, Judged
<1> QED
  BY <1>6, <1>7, <1>8, <1>9 DEF IInv

-----------------------------------------------------------------------------
(* The sweep.                                                               *)

LEMMA OtherSteps ==
  ASSUME TypeOK, UNCHANGED <<acts, preview, begun, governance>>
  PROVE  Aside
  BY Types, ConstantsAssumption DEF Aside, governance, Governing

LEMMA Tomorrows ==
  ASSUME NEW d \in 0..LastDay + 1
  PROVE  Tomorrow(d) \in 0..LastDay + 1
<1> DEFINE S == {d + 1, LastDay}
<1>1. \E x \in S : \A y \in S : x =< y
  <2>1. CASE d + 1 <= LastDay
    BY <2>1, Numbers
  <2>2. CASE ~(d + 1 <= LastDay)
    BY <2>2, Numbers
  <2> QED
    BY <2>1, <2>2
<1>2. Min(S) \in S /\ \A y \in S : Min(S) =< y
  BY <1>1 DEF Min
<1> QED
  BY <1>2, Numbers DEF Tomorrow

LEMMA NextSweeps ==
  ASSUME TypeOK
  PROVE  NextSweep \in SweepRow /\ NextSweep.pc = "queued" /\ NextSweep.n = 0
<1> DEFINE t == Tomorrow(sweep.date)
<1>1. sweep \in SweepRow /\ t \in 0..LastDay + 1
  BY Types, RetentionRows, Tomorrows
<1>2. NextSweep = [sweep EXCEPT !.pc = "queued", !.date = t, !.at = 0, !.terminal = 0, !.hit = FALSE, !.n = 0]
  BY DEF NextSweep
<1> HIDE DEF t
<1>3. 0 \in Days /\ 0 \in 0..MaxAttempts
  BY Numbers, ConstantsAssumption DEF Days
<1> QED
  BY <1>1, <1>2, <1>3 DEF SweepRow

(* Every end of a sweep's transaction but Redate and Request.               *)
LEMMA EndedSweep ==
  ASSUME IInv, UNCHANGED <<acts, day, policy, preview, facts, pool, begun, governance>>, sweep' = NextSweep
  PROVE  IInv'
<1>1. TypeOK /\ 0 < MaxAttempts
  BY ConstantsAssumption DEF IInv
<1> QED
  BY <1>1, OtherSteps, NextSweeps, SweepMoves

LEMMA PassInd == ASSUME IInv, Pass PROVE IInv'
  BY EndedSweep DEF Pass

LEMMA FailSweepInd == ASSUME IInv, FailSweep PROVE IInv'
<1>1. CASE sweep.n = MaxAttempts
  BY <1>1, EndedSweep DEF FailSweep, FailedSweep, DeadSweep
<1>2. CASE sweep.n # MaxAttempts
  <2>1. TypeOK /\ sweep \in SweepRow /\ sweep.n \in 0..MaxAttempts /\ MaxAttempts \in Nat
    BY Types, RetentionRows, ConstantsAssumption DEF IInv
  <2>2. 0 \in Days
    BY Numbers DEF Days
  <2>3. sweep' = [sweep EXCEPT !.pc = "queued", !.at = 0, !.terminal = 0, !.hit = FALSE]
    BY <1>2 DEF FailSweep, FailedSweep
  <2>4. sweep' \in SweepRow /\ sweep'.pc = "queued" /\ sweep'.n = sweep.n
    BY <2>1, <2>2, <2>3 DEF SweepRow
  <2> QED
    BY <1>2, <2>1, <2>4, OtherSteps, SweepMoves DEF FailSweep
<1> QED
  BY <1>1, <1>2

LEMMA SeedInd == ASSUME IInv, Seed PROVE IInv'
<1>1. TypeOK /\ 0 < MaxAttempts
  BY ConstantsAssumption DEF IInv
<1>2. NextSweep \in SweepRow /\ NextSweep.pc = "queued" /\ NextSweep.n = 0
  BY <1>1, NextSweeps
<1>3. day \in 0..LastDay + 1
  BY <1>1, RetentionRows, Numbers DEF Days
<1>4. sweep' = [NextSweep EXCEPT !.date = day]
  BY DEF Seed
<1>5. sweep' \in SweepRow /\ sweep'.pc = "queued" /\ sweep'.n = 0
  BY <1>2, <1>3, <1>4 DEF SweepRow
<1> QED
  BY <1>1, <1>5, OtherSteps, SweepMoves DEF Seed

LEMMA RequestInd == ASSUME IInv, Request PROVE IInv'
<1>1. TypeOK /\ 0 < MaxAttempts
  BY ConstantsAssumption DEF IInv
<1>2. Aside
  BY <1>1, Types, ConstantsAssumption DEF Request, Aside, Governing
<1> QED
  BY <1>1, <1>2, NextSweeps, SweepMoves DEF Request

LEMMA RedateInd == ASSUME IInv, Redate PROVE IInv'
<1>1. TypeOK /\ 0 < MaxAttempts /\ cand \in CandidateRow
  BY Types, ConstantsAssumption DEF IInv
<1>2. sweep.terminal \in 1..MaxDays
  BY DEF IInv, SweepOK, UnderWay, Redate
<1>3. Found \in Dates \cup {None} /\ (Found = None <=> Live(app) # {})
  BY <1>1, <1>2, Types, RetentionRows, DueBounds DEF Found, Due
<1>4. cand' = [cand EXCEPT !.due = Found]
  BY DEF Redate
<1>5. cand' \in CandidateRow /\ cand'.due = Found
  BY <1>1, <1>3, <1>4 DEF CandidateRow
<1>6. sweep' \in SweepRow /\ sweep'.pc = "queued" /\ sweep'.n = 0
  BY <1>1, NextSweeps DEF Redate
<1>7. Aside /\ UNCHANGED <<day, policy, app, member, pool>>
  BY <1>1, OtherSteps DEF Redate
<1>8. TypeOK'
  BY <1>1, <1>5, <1>6, <1>7, Types, TypesNext DEF Aside
<1>9. VersionsCount'
  BY <1>1, <1>7, RetentionRows DEF IInv, VersionsCount, Aside
<1>10. DueIffOver'
  BY <1>3, <1>5, <1>7 DEF DueIffOver, Live
<1>11. SweepOK'
  BY <1>1, <1>6 DEF SweepOK, UnderWay
<1> QED
  BY <1>8, <1>9, <1>10, <1>11 DEF IInv

(* A sweep under way begins with the policy there is.                       *)
LEMMA StartSweepInd == ASSUME IInv, StartSweep PROVE IInv'
<1>1. TypeOK /\ sweep \in SweepRow
  BY Types DEF IInv
<1>2. sweep.n + 1 \in 0..MaxAttempts
  BY <1>1, RetentionRows, ConstantsAssumption DEF IInv, SweepOK, StartSweep
<1>3. day \in Days /\ policy.days.terminal \in 1..MaxDays /\ policy.days.terminal \in Nat
  BY <1>1, RetentionRows, Numbers
<1>4. sweep' = [sweep EXCEPT !.pc = "read", !.at = day, !.terminal = policy.days.terminal, !.n = sweep.n + 1]
  BY DEF StartSweep
<1>5. sweep' \in SweepRow /\ sweep'.pc = "read" /\ sweep'.at = day /\ sweep'.terminal = policy.days.terminal
  BY <1>1, <1>2, <1>3, <1>4 DEF SweepRow
<1>6. Aside /\ UNCHANGED <<day, policy, facts, pool>>
  BY <1>1, OtherSteps DEF StartSweep
<1>7. TypeOK'
  BY <1>1, <1>5, <1>6, Types, TypesNext DEF Aside, facts
<1>8. VersionsCount'
  BY <1>1, <1>6, RetentionRows DEF IInv, VersionsCount, Aside
<1>9. DueIffOver'
  BY <1>6 DEF IInv, DueIffOver, facts, Live
<1>10. SweepOK'
  <2>1. day <= day
    BY <1>1, RetentionRows
  <2> QED
    BY <1>3, <1>5, <1>6, <2>1 DEF SweepOK, UnderWay, Judged
<1> QED
  BY <1>7, <1>8, <1>9, <1>10 DEF IInv

LEMMA ScanInd == ASSUME IInv, Scan PROVE IInv'
<1>1. TypeOK /\ sweep \in SweepRow
  BY Types DEF IInv
<1> DEFINE h == Claimable(sweep.at) /\ ~Exempt
<1>2. h \in BOOLEAN
  BY DEF Claimable, Exempt
<1>3. sweep' = [sweep EXCEPT !.pc = "scanned", !.hit = h]
  BY DEF Scan
<1> HIDE DEF h
<1>4. sweep' \in SweepRow /\ sweep'.pc = "scanned" /\ sweep'.at = sweep.at /\ sweep'.terminal = sweep.terminal
  BY <1>1, <1>2, <1>3 DEF SweepRow
<1>5. Aside /\ UNCHANGED <<day, policy, facts, pool>>
  BY <1>1, OtherSteps DEF Scan
<1>6. TypeOK'
  BY <1>1, <1>4, <1>5, Types, TypesNext DEF Aside, facts
<1>7. VersionsCount'
  BY <1>1, <1>5, RetentionRows DEF IInv, VersionsCount, Aside
<1>8. DueIffOver'
  BY <1>5 DEF IInv, DueIffOver, facts, Live
<1>9. SweepOK'
  <2>1. Judged => Judged'
    BY <1>4, <1>5 DEF Judged, Due, DueDate, Live, facts
  <2>2. sweep.at <= day /\ sweep.terminal \in 1..MaxDays /\ Judged
    BY DEF IInv, SweepOK, UnderWay, Scan
  <2> QED
    BY <1>4, <1>5, <2>1, <2>2 DEF SweepOK, UnderWay
<1> QED
  BY <1>6, <1>7, <1>8, <1>9 DEF IInv

-----------------------------------------------------------------------------
(* The theorems.                                                            *)

LEMMA Initially == Init => IInv
<1> SUFFICES ASSUME Init PROVE IInv
  OBVIOUS
<1>1. policy \in PolicyRow /\ policy.days.terminal \in 1..MaxDays /\ policy.version = 1
  <2>1. PICK v \in Values : policy = [days |-> v, version |-> 1]
    BY DEF Init
  <2> QED
    BY <2>1, Numbers, ConstantsAssumption DEF PolicyRow
<1>2. 0 \in Days /\ 0 \in 0..MaxActs /\ 0 \in 0..MaxAttempts /\ 0 \in 0..LastDay + 1
  BY Numbers, ConstantsAssumption DEF Days
<1>3. Membered(member) /\ DOMAIN member = {} /\ Pooled(pool)
  BY DEF Init, Membered, Pooled
<1> DEFINE d == DueDate(policy.days.terminal, 0, app, member)
<1>4. d \in Dates \cup {None} /\ (d = None <=> Live(app) # {})
  BY <1>1, <1>2, <1>3, DueBounds
<1>5. cand = [fact |-> 0, due |-> d, deleted |-> FALSE]
  BY DEF Init
<1> HIDE DEF d
<1>6. cand \in CandidateRow
  BY <1>2, <1>4, <1>5 DEF CandidateRow
<1>7. sweep \in SweepRow /\ sweep.pc = "none"
  BY <1>2 DEF Init, SweepRow
<1>8. app \in [Applications -> Stages] /\ Governing
  BY DEF Init, Stages, Governing
<1>9. TypeOK
  BY <1>1, <1>2, <1>3, <1>6, <1>7, <1>8, Types DEF Init
<1>10. DueIffOver
  BY <1>4, <1>5 DEF DueIffOver
<1>11. VersionsCount /\ SweepOK
  BY <1>1, <1>7 DEF Init, VersionsCount, SweepOK, UnderWay
<1> QED
  BY <1>9, <1>10, <1>11 DEF IInv

LEMMA Inductive == IInv /\ [Next]_vars => IInv'
<1> SUFFICES ASSUME IInv, [Next]_vars PROVE IInv'
  OBVIOUS
<1>1. CASE Tick
  BY <1>1, TickInd
<1>2. CASE Candidates
  BY <1>2, BeginInd, ApplyInd, EndInd, ReviewInd, UndoInd, DeferInd, ProgressInd, HandoverInd DEF Candidates
<1>3. CASE Talent
  BY <1>3, CreatePoolInd, DeletePoolInd, JoinInd, AmendInd, MoveInd, LeaveInd, ReferInd, ReactivateInd DEF Talent
<1>4. CASE Governance
  BY <1>4, PreviewInd, UpdatePolicyInd, HoldInd, EraseInd DEF Governance
<1>5. CASE Sweeps
  BY <1>5, StartSweepInd, ScanInd, RedateInd, RequestInd, PassInd, FailSweepInd, SeedInd DEF Sweeps
<1>6. CASE UNCHANGED vars
  <2>1. TypeOK
    BY DEF IInv
  <2>2. UNCHANGED <<day, policy, facts, pool, sweep>> /\ UNCHANGED <<acts, preview, begun, governance>>
    BY <1>6 DEF vars
  <2>3. Aside
    BY <2>1, <2>2, OtherSteps
  <2>4. day' \in Days /\ day' >= day
    BY <2>1, <2>2, RetentionRows
  <2> QED
    BY <2>1, <2>2, <2>3, <2>4, Types, QuietStep
<1> QED
  BY <1>1, <1>2, <1>3, <1>4, <1>5, <1>6 DEF Next

(* Types, versions, and what a sweep under way may have read.               *)
THEOREM RetentionInvariant == Spec => []IInv
  BY Initially, Inductive, PTL DEF Spec

(* Every path that ends or begins an application, or changes a membership   *)
(* or the policy, leaves a due date exactly when no application is live     *)
(* (governance/retention.py and its callers).                               *)
THEOREM DueCorrect == Spec => []DueIffOver
<1>1. IInv => DueIffOver
  BY DEF IInv
<1> QED
  BY <1>1, RetentionInvariant, PTL

LEMMA RequestIsOver ==
  ASSUME IInv, Request
  PROVE  OverNow
<1>1. TypeOK /\ Membered(member)
  BY Types DEF IInv
<1>2. /\ ~cand.deleted /\ cand.due # None /\ cand.due <= sweep.at
      /\ Due(sweep.terminal) = cand.due
  BY DEF Request, Claims, Claimable, Found
<1>3. sweep.at <= day /\ sweep.terminal \in 1..MaxDays /\ Judged
  BY DEF IInv, SweepOK, UnderWay, Request
<1>4. /\ cand.fact \in Days /\ policy.days.terminal \in 1..MaxDays /\ sweep.at \in Nat /\ day \in Nat
      /\ cand.fact \in Nat /\ cand.due \in Nat
  BY <1>1, <1>2, RetentionRows, Numbers
<1>5. /\ Live(app) = {} /\ cand.fact + sweep.terminal <= cand.due
      /\ \A p \in DOMAIN member : member[p].active => member[p].until <= cand.due
  BY <1>1, <1>2, <1>3, <1>4, DueBounds DEF Due
<1>6. \A p \in DOMAIN member : member[p].until \in Nat
  BY <1>1, Numbers DEF Membered, MembershipRow
<1>7. \A p \in DOMAIN member : member[p].active => member[p].until <= day
  BY <1>2, <1>3, <1>4, <1>5, <1>6
<1>8. cand.fact + policy.days.terminal <= day
  <2>1. CASE sweep.terminal = policy.days.terminal
    BY <2>1, <1>2, <1>3, <1>4, <1>5
  <2>2. CASE cand.due = Due(policy.days.terminal)
    <3>1. cand.fact + policy.days.terminal <= cand.due
      BY <2>2, <1>1, <1>2, <1>4, DueBounds DEF Due
    <3> QED
      BY <3>1, <1>2, <1>3, <1>4
  <2>3. ~(cand.fact >= sweep.at)
    BY <1>2, <1>3, <1>4, <1>5
  <2> QED
    BY <2>1, <2>2, <2>3, <1>2, <1>3 DEF Judged
<1> QED
  BY <1>2, <1>5, <1>7, <1>8 DEF OverNow

(* A sweep that read an old policy, or made its claim before the facts      *)
(* changed, requests no deletion the policy of the moment would not         *)
(* (governance/retention_sweep.py).                                         *)
THEOREM SweepCorrect == Spec => SweptIsOver
<1>1. IInv /\ [Next]_vars => [Request => OverNow]_vars
  BY RequestIsOver
<1> QED
  BY <1>1, RetentionInvariant, PTL DEF Spec, SweptIsOver

(* The policy and its version change together, in one action.               *)
LEMMA PolicyKept ==
  ASSUME TypeOK, [Next]_vars, NEW v \in Values, policy' = [days |-> v, version |-> policy.version + 1]
  PROVE  \E w \in Values : UpdatePolicy(w)
<1>1. policy' # policy
  <2>1. policy.version \in Int
    BY RetentionRows
  <2> QED
    BY <2>1
<1>2. ~Tick /\ ~UNCHANGED vars
  BY <1>1 DEF Tick, vars
<1>3. ~Candidates
  BY <1>1 DEF Candidates, Begin, Apply, End, Review, UndoAdvance, Defer, Progress, Handover, Unchanged
<1>4. ~Talent
  BY <1>1 DEF Talent, CreatePool, DeletePool, Join, Amend, Move, Leave, Refer, Reactivate, Unchanged
<1>5. ~Sweeps
  BY <1>1 DEF Sweeps, StartSweep, Scan, Redate, Request, Pass, FailSweep, Seed
<1>6. Governance
  BY <1>2, <1>3, <1>4, <1>5 DEF Next
<1> QED
  BY <1>1, <1>6 DEF Governance, Preview, PlaceHold, ReleaseHold, AskDeletion, Erase

LEMMA ShorteningStep ==
  ASSUME TypeOK, [Next]_vars, NEW v \in Values, Shortens(v),
         policy' = [days |-> v, version |-> policy.version + 1], cand'.due # cand.due
  PROVE  preview.affected
<1>1. PICK w \in Values : UpdatePolicy(w)
  BY PolicyKept
<1>2. policy' = [days |-> w, version |-> policy.version + 1] /\ (Shortens(w) => Verified(w))
  BY <1>1 DEF UpdatePolicy
<1>3. w = v
  <2>1. policy'.days = v /\ policy'.days = w
    BY <1>2
  <2> QED
    BY <2>1
<1>4. preview.affected = Affected(v)
  BY <1>2, <1>3 DEF Verified
<1>5. cand'.due = Due(v.terminal)
  <2>1. cand \in CandidateRow /\ cand' = [cand EXCEPT !.due = Due(v.terminal)]
    BY <1>1, <1>3, Types DEF UpdatePolicy
  <2> QED
    BY <2>1 DEF CandidateRow
<1> QED
  BY <1>4, <1>5 DEF Affected

(* A shortened policy moves no due date that the confirmed preview did not  *)
(* announce, whatever happened since the preview                            *)
(* (governance/service.py, _verify_preview).                                *)
THEOREM ShorteningCorrect == Spec => ShorteningWasSeen
<1>1. IInv => TypeOK
  BY DEF IInv
<1>2. TypeOK /\ [Next]_vars =>
        [(\E v \in Values : Shortens(v) /\ policy' = [days |-> v, version |-> policy.version + 1])
           => (cand'.due # cand.due => preview.affected)]_vars
  BY ShorteningStep
<1> QED
  BY <1>1, <1>2, RetentionInvariant, PTL DEF Spec, ShorteningWasSeen

-----------------------------------------------------------------------------
(* What was deleted stays deleted when the plane is restored from a backup: *)
(* RecoverySpec of Recovery, which extends Backup, a specification of its own.*)

LEMMA PlaneNumbers ==
  /\ LastTime \in Nat /\ LastTime > 0 /\ MaxRuns \in Nat /\ MaxRuns > 0 /\ MaxKeys \in Nat /\ MaxKeys > 0
  /\ JobAttempts \in Nat /\ JobAttempts > 0 /\ MaxCalls \in Nat /\ MaxCalls > 0
  /\ IsFiniteSet(Applicants) /\ Nothing \notin Nat /\ Nothing \notin RecoveryRun
<1>1. {Window, PageAfter, LastTime, MaxRuns, MaxKeys} \subseteq Nat \ {0} /\ {JobAttempts, MaxCalls} \subseteq Nat \ {0}
  BY BackupAssumption, RecoveryAssumption
<1>2. IsFiniteSet(Applicants) /\ Nothing \notin Nat /\ Nothing \notin RecoveryRun
  BY BackupAssumption, NoneAssumption
<1>3. \A n \in {LastTime, MaxRuns, MaxKeys, JobAttempts, MaxCalls} : n \in Nat \ {0}
  BY <1>1
<1>4. \A n \in Nat \ {0} : n \in Nat /\ n > 0
  OBVIOUS
<1> QED
  BY <1>2, <1>3, <1>4

LEMMA BackupTypes ==
  /\ BackupTypeOK <=> /\ clock \in Times /\ key \in 1..MaxKeys
                       /\ row \in [Applicants -> PersonRow] /\ objects \in SUBSET Applicants
                       /\ ledger \in [Applicants -> LedgerEntry \cup {Nothing}]
                       /\ archives \in [Runs -> LedgerManifest \cup {Nothing}]
                       /\ groups \in [Runs -> BackupManifest \cup {Nothing}]
                       /\ sched \in PendingRun \cup {Nothing, Stopped} /\ fresh \in FreshnessState \cup {Nothing}
                       /\ plan \subseteq Runs
  /\ BackupTypeOK' <=> /\ clock' \in Times /\ key' \in 1..MaxKeys
                        /\ row' \in [Applicants -> PersonRow] /\ objects' \in SUBSET Applicants
                        /\ ledger' \in [Applicants -> LedgerEntry \cup {Nothing}]
                        /\ archives' \in [Runs -> LedgerManifest \cup {Nothing}]
                        /\ groups' \in [Runs -> BackupManifest \cup {Nothing}]
                        /\ sched' \in PendingRun \cup {Nothing, Stopped} /\ fresh' \in FreshnessState \cup {Nothing}
                        /\ plan' \subseteq Runs
  BY DEF BackupTypeOK, Rows, Entries

LEMMA RecoveryTypes ==
  /\ RecoveryTypeOK <=> /\ BackupTypeOK /\ restore \in RestoreEvidence /\ drill \in DrillEvidence
                 /\ asked \in 0..MaxCalls /\ calls \in 0..MaxCalls /\ run \in RecoveryRun \cup {Nothing}
                 /\ point \in [Applicants -> Checkpoint] /\ redone \in [Applicants -> Redeletion]
                 /\ thread \in [Applicants -> [Threads -> Thread]]
  /\ RecoveryTypeOK' <=> /\ BackupTypeOK' /\ restore' \in RestoreEvidence /\ drill' \in DrillEvidence
                  /\ asked' \in 0..MaxCalls /\ calls' \in 0..MaxCalls /\ run' \in RecoveryRun \cup {Nothing}
                  /\ point' \in [Applicants -> Checkpoint] /\ redone' \in [Applicants -> Redeletion]
                  /\ thread' \in [Applicants -> [Threads -> Thread]]
  BY DEF RecoveryTypeOK

(* What an archive says and what a group holds agree, because both agree    *)
(* with the plane they were taken of.                                       *)
LEMMA CopiesMeet == ASSUME CopiesOK PROVE CopiesAgree
  BY DEF CopiesOK, CopiesAgree, Recorded, RowsReflect, FilesReflect

LEMMA CopiesMeetNext == ASSUME CopiesOK' PROVE CopiesAgree'
  BY DEF CopiesOK, CopiesAgree, Recorded, RowsReflect, FilesReflect

(* Before a restore no recovery has begun.                                  *)
LEMMA ProduceStep ==
  ASSUME RecoveryInv, restore.step = "none", UNCHANGED recoveryVars, BackupTypeOK', WorkOK', CopiesOK'
  PROVE  RecoveryInv'
<1>1. /\ UNCHANGED <<restore, drill, asked, calls, run, point, redone, thread>>
      /\ restore \in RestoreEvidence /\ drill \in DrillEvidence
      /\ asked \in 0..MaxCalls /\ calls \in 0..MaxCalls /\ run \in RecoveryRun \cup {Nothing}
      /\ point \in [Applicants -> Checkpoint] /\ redone \in [Applicants -> Redeletion]
      /\ thread \in [Applicants -> [Threads -> Thread]]
  BY RecoveryTypes DEF RecoveryInv, recoveryVars, planeVars
<1>2. RecoveryTypeOK'
  BY <1>1, RecoveryTypes
<1>3. run = Nothing
  BY DEF RecoveryInv, RestoreOK
<1>4. RestoreOK'
  BY <1>1, <1>3 DEF RecoveryInv, RestoreOK
<1>5. RedeletionOK'
  BY <1>1, <1>3 DEF RecoveryInv, RedeletionOK, Untouched, Claimed
<1> QED
  BY <1>2, <1>4, <1>5, CopiesMeetNext DEF RecoveryInv

(* People work, and candidates are deleted.                                 *)
LEMMA WorkStep ==
  ASSUME BackupTypeOK, CopiesOK, UNCHANGED <<clock, archives, groups, sched>>, Recorded(ledger)',
         \A c \in Applicants :
           \/ row[c].kind # "redacted" /\ row'[c].kind # "redacted"
           \/ row[c].kind = "redacted" /\ row'[c] = row[c]
           \/ row[c].kind # "redacted" /\ row'[c].kind = "redacted" /\ row'[c].at = clock
  PROVE  CopiesOK'
<1>1. clock \in Int /\ \A r \in Points : groups[r].cutoff \in Int
  BY BackupTypes DEF Times, Points, BackupManifest
<1>2. Alive => sched.cutoff \in Int
  BY BackupTypes DEF Alive, PendingRun, Times
<1>3. Archived' = Archived /\ Points' = Points /\ (Alive' <=> Alive)
  BY DEF Archived, Points, Alive
<1>4. ASSUME NEW cutoff \in Int, cutoff < clock, NEW rows, RowsReflect(rows, cutoff)
      PROVE  \A c \in Applicants : row'[c].kind = "redacted" /\ row'[c].at <= cutoff => rows[c].kind = "redacted"
  BY <1>1, <1>4 DEF RowsReflect
<1>5. ASSUME NEW cutoff \in Int, cutoff < clock, NEW files, FilesReflect(files, cutoff)
      PROVE  \A c \in Applicants : row'[c].kind = "redacted" /\ row'[c].at <= cutoff => c \notin files
  BY <1>1, <1>5 DEF FilesReflect
<1>6. \A q \in Archived : Recorded(archives[q].entries)'
  BY DEF CopiesOK, Recorded
<1>7. ASSUME NEW r \in Points
      PROVE  /\ groups[r].cutoff < clock
             /\ RowsReflect(groups[r].rows, groups[r].cutoff)' /\ FilesReflect(groups[r].objects, groups[r].cutoff)'
  BY <1>1, <1>4, <1>5 DEF CopiesOK, RowsReflect, FilesReflect
<1>8. ASSUME Alive
      PROVE  /\ sched.cutoff < clock /\ FilesReflect(sched.objects, sched.cutoff)'
             /\ sched.stage \notin {"ledger_publish", "dump"} =>
                  sched.rows \in Rows /\ RowsReflect(sched.rows, sched.cutoff)'
  BY <1>2, <1>4, <1>5, <1>8 DEF CopiesOK, RowsReflect, FilesReflect
<1>9. clock >= 1
  BY DEF CopiesOK
<1> HIDE DEF Recorded, RowsReflect, FilesReflect
<1> QED
  BY <1>3, <1>6, <1>7, <1>8, <1>9 DEF CopiesOK

(* What the steps below need of the rows of the plane.                      *)
LEMMA BackupRows ==
  ASSUME BackupTypeOK
  PROVE  /\ clock \in Int /\ clock <= LastTime
         /\ \A c \in Applicants : /\ row[c] \in PersonRow /\ row[c].version \in 1..3 /\ row[c].approved \in 0..2
                                  /\ ledger[c] \in LedgerEntry \cup {Nothing}
         /\ \A q \in Archived : q \in Runs /\ archives[q] \in LedgerManifest
         /\ \A r \in Points : r \in Runs /\ groups[r] \in BackupManifest /\ groups[r].cutoff \in Int
         /\ Alive => sched \in PendingRun /\ sched.cutoff \in Times /\ sched.run \in Runs
<1>1. /\ clock \in 0..LastTime /\ row \in [Applicants -> PersonRow] /\ ledger \in [Applicants -> LedgerEntry \cup {Nothing}]
      /\ archives \in [Runs -> LedgerManifest \cup {Nothing}] /\ groups \in [Runs -> BackupManifest \cup {Nothing}]
      /\ sched \in PendingRun \cup {Nothing, Stopped} /\ LastTime \in Nat
  BY BackupTypes, PlaneNumbers DEF Times
<1>2. clock \in Int /\ clock <= LastTime
  BY <1>1
<1>3. ASSUME NEW c \in Applicants
      PROVE  /\ row[c] \in PersonRow /\ row[c].version \in 1..3 /\ row[c].approved \in 0..2
             /\ ledger[c] \in LedgerEntry \cup {Nothing}
  BY <1>1 DEF PersonRow
<1>4. \A q \in Archived : q \in Runs /\ archives[q] \in LedgerManifest
  BY <1>1 DEF Archived
<1>5. ASSUME NEW r \in Points PROVE r \in Runs /\ groups[r] \in BackupManifest /\ groups[r].cutoff \in Int
  BY <1>1 DEF Points, BackupManifest, Times
<1>6. ASSUME Alive PROVE sched \in PendingRun /\ sched.cutoff \in Times /\ sched.run \in Runs
  BY <1>1, <1>6 DEF Alive, PendingRun
<1> QED
  BY <1>2, <1>3, <1>4, <1>5, <1>6

LEMMA PlaneTypes ==
  ASSUME RecoveryInv
  PROVE  BackupTypeOK /\ RecoveryTypeOK
  BY RecoveryTypes DEF RecoveryInv

(* People and the worker: nobody who was deleted is there again.            *)
LEMMA WorkMoves ==
  ASSUME RecoveryInv, restore.step = "none", UNCHANGED recoveryVars, NEW c \in Applicants, Work(c),
         UNCHANGED <<clock, key, archives, groups, sched, fresh, plan>>
  PROVE  RecoveryInv'
<1>1. BackupTypeOK /\ WorkOK /\ CopiesOK
  BY PlaneTypes DEF RecoveryInv
<1>2. /\ row[c] \in PersonRow /\ row \in [Applicants -> PersonRow] /\ objects \in SUBSET Applicants
      /\ ledger \in [Applicants -> LedgerEntry \cup {Nothing}] /\ clock \in Times
  BY <1>1, BackupRows, BackupTypes
<1>3. /\ row[c].kind \in {"none", "live", "erasing", "redacted"} /\ row[c].version \in 1..3 /\ row[c].approved \in 0..2
      /\ row[c].at \in Times
  BY <1>2 DEF PersonRow
<1>4. SUFFICES ASSUME NEW new, row' = [row EXCEPT ![c] = new], new \in PersonRow,
                      objects' \in SUBSET Applicants, ledger' \in [Applicants -> LedgerEntry \cup {Nothing}],
                      \A d \in Applicants \ {c} : d \in objects' => d \in objects,
                      c \in objects' => new.kind = "live",
                      new.kind # "redacted" => new.version <= 2,
                      new.kind = "erasing" => new.approved = new.version,
                      new.kind = "redacted" => new.approved \in 1..2,
                      \/ row[c].kind # "redacted" /\ new.kind # "redacted"
                      \/ row[c].kind = "redacted" /\ new = row[c]
                      \/ row[c].kind # "redacted" /\ new.kind = "redacted" /\ new.at = clock,
                      \A d \in Applicants : \/ ledger'[d] = ledger[d]
                                            \/ d = c /\ row[c].kind = "redacted" /\ row[c].at = ledger'[d].at
               PROVE  RecoveryInv'
  <2>1. CASE Enrol(c)
    <3> DEFINE new == [row[c] EXCEPT !.kind = "live"]
    <3>1. /\ row' = [row EXCEPT ![c] = new] /\ ledger' = ledger /\ objects' = objects \cup {c} /\ row[c].kind = "none"
      BY <2>1 DEF Enrol
    <3>2. /\ new \in PersonRow /\ new.kind = "live" /\ new.version = row[c].version
      BY <1>2 DEF PersonRow
    <3> HIDE DEF new
    <3>3. new.version <= 2
      BY <1>1, <3>1, <3>2 DEF WorkOK
    <3> QED
      BY <1>2, <1>4, <3>1, <3>2, <3>3
  <2>2. CASE Correct(c)
    <3> DEFINE new == [row[c] EXCEPT !.version = 2]
    <3>1. /\ row' = [row EXCEPT ![c] = new] /\ ledger' = ledger /\ objects' = objects /\ row[c].kind = "live"
      BY <2>2 DEF Correct
    <3>2. new \in PersonRow /\ new.kind = "live" /\ new.version = 2
      BY <1>2, <3>1 DEF PersonRow
    <3> HIDE DEF new
    <3>3. new.version <= 2
      BY <3>2
    <3> QED
      BY <1>2, <1>4, <3>1, <3>2, <3>3
  <2>3. CASE EraseFile(c)
    <3> DEFINE m == [row[c] EXCEPT !.kind = "erasing"]
               new == [m EXCEPT !.approved = row[c].version]
    <3>1. /\ row' = [row EXCEPT ![c] = new] /\ ledger' = ledger /\ objects' = objects \ {c} /\ row[c].kind = "live"
      BY <2>3 DEF EraseFile
    <3>2. row[c].version <= 2 /\ row[c].version \in 0..2
      BY <1>1, <1>3, <3>1 DEF WorkOK
    <3>3. m \in PersonRow /\ m.kind = "erasing" /\ m.version = row[c].version
      BY <1>2 DEF PersonRow
    <3> HIDE DEF m
    <3>4. new \in PersonRow /\ new.kind = "erasing" /\ new.version = row[c].version /\ new.approved = row[c].version
      BY <3>2, <3>3 DEF PersonRow
    <3> HIDE DEF new
    <3> QED
      BY <1>2, <1>4, <3>1, <3>2, <3>4
  <2>4. CASE Redact(c)
    <3> DEFINE new == Redacted(row[c], row[c].approved, clock)
    <3>1. /\ row' = [row EXCEPT ![c] = new] /\ ledger' = ledger /\ objects' = objects /\ row[c].kind = "erasing"
      BY <2>4 DEF Redact
    <3>2. row[c].version <= 2 /\ row[c].version + 1 \in 1..3 /\ row[c].approved = row[c].version /\ row[c].version \in 1..2
      BY <1>1, <1>3, <3>1 DEF WorkOK
    <3>3. new \in PersonRow /\ new.kind = "redacted" /\ new.approved = row[c].approved /\ new.at = clock
      <4> DEFINE a == [row[c] EXCEPT !.kind = "redacted"]
                 b == [a EXCEPT !.version = row[c].version + 1]
                 e == [b EXCEPT !.approved = row[c].approved]
      <4>1. new = [e EXCEPT !.at = clock]
        BY <3>1 DEF Redacted
      <4>2. a \in PersonRow /\ a.kind = "redacted"
        BY <1>2 DEF PersonRow
      <4> HIDE DEF a
      <4>3. b \in PersonRow /\ b.kind = "redacted"
        BY <3>2, <4>2 DEF PersonRow
      <4> HIDE DEF b
      <4>4. e \in PersonRow /\ e.kind = "redacted" /\ e.approved = row[c].approved
        BY <1>3, <4>3 DEF PersonRow
      <4> HIDE DEF e, new
      <4> QED
        BY <1>2, <4>1, <4>4 DEF PersonRow
    <3> HIDE DEF new
    <3>4. c \notin objects
      BY <1>1, <3>1 DEF WorkOK
    <3> QED
      BY <1>2, <1>4, <3>1, <3>2, <3>3, <3>4
  <2>5. CASE Prove(c)
    <3> DEFINE entry == [approved |-> row[c].approved, at |-> row[c].at]
    <3>1. /\ row' = [row EXCEPT ![c] = row[c]] /\ ledger' = [ledger EXCEPT ![c] = entry]
          /\ objects' = objects /\ row[c].kind = "redacted"
      BY <1>2, <2>5 DEF Prove
    <3>2. row[c].approved \in 1..2 /\ c \notin objects
      BY <1>1, <3>1 DEF WorkOK
    <3>3. entry \in LedgerEntry /\ entry.at = row[c].at
      BY <1>3, <3>2 DEF LedgerEntry
    <3> HIDE DEF entry
    <3>4. \A d \in Applicants : ledger'[d] = IF d = c THEN entry ELSE ledger[d]
      BY <1>2, <3>1
    <3>5. ledger' \in [Applicants -> LedgerEntry \cup {Nothing}]
      BY <1>2, <3>1, <3>3
    <3> QED
      BY <1>2, <1>4, <3>1, <3>2, <3>3, <3>4, <3>5
  <2> QED
    BY <2>1, <2>2, <2>3, <2>4, <2>5 DEF Work
<1>5. \A d \in Applicants : row'[d] = IF d = c THEN new ELSE row[d]
  BY <1>2, <1>4
<1>6. row' \in [Applicants -> PersonRow]
  BY <1>2, <1>4
<1>7. BackupTypeOK'
  BY <1>1, <1>4, <1>6, BackupTypes
<1>8. WorkOK'
  BY <1>1, <1>4, <1>5 DEF WorkOK
<1>9. Recorded(ledger)'
  <2>1. Recorded(ledger)
    BY <1>1 DEF CopiesOK
  <2> QED
    BY <1>4, <1>5, <2>1 DEF Recorded
<1>10. CopiesOK'
  BY <1>1, <1>4, <1>5, <1>9, WorkStep
<1> QED
  BY <1>7, <1>8, <1>10, ProduceStep

(* The schedule and the stores: a copy is made of the plane as it is.       *)
LEMMA StoreStep ==
  ASSUME RecoveryInv, restore.step = "none", UNCHANGED recoveryVars, UNCHANGED <<row, objects, ledger>>,
         BackupTypeOK', clock' >= clock,
         \A q \in Archived' : \/ q \in Archived /\ archives'[q] = archives[q]
                              \/ archives'[q].entries = ledger,
         \A r \in Points' :
           \/ r \in Points /\ groups'[r] = groups[r]
           \/ /\ Running("business_publish") /\ groups'[r].rows = sched.rows
              /\ groups'[r].objects = sched.objects /\ groups'[r].cutoff = sched.cutoff,
         Alive' =>
           /\ sched'.cutoff < clock' /\ FilesReflect(sched'.objects, sched'.cutoff)
           /\ sched'.stage \notin {"ledger_publish", "dump"} =>
                sched'.rows \in Rows /\ RowsReflect(sched'.rows, sched'.cutoff)
  PROVE  RecoveryInv'
<1>1. BackupTypeOK /\ WorkOK /\ CopiesOK
  BY PlaneTypes DEF RecoveryInv
<1>2. WorkOK'
  BY <1>1 DEF WorkOK
<1>3. clock \in Int /\ clock' \in Int /\ (\A r \in Points : groups[r].cutoff \in Int) /\ (Alive => sched.cutoff \in Int)
  BY <1>1, BackupRows, BackupTypes, PlaneNumbers DEF Times
<1>4. Recorded(ledger)' /\ clock' >= 1
  BY <1>1, <1>3 DEF CopiesOK, Recorded
<1>5. ASSUME NEW q \in Archived' PROVE Recorded(archives[q].entries)'
  BY <1>1, <1>4 DEF CopiesOK, Recorded
<1>6. ASSUME NEW r \in Points'
      PROVE  /\ groups'[r].cutoff < clock'
             /\ RowsReflect(groups'[r].rows, groups'[r].cutoff) /\ FilesReflect(groups'[r].objects, groups'[r].cutoff)
  <2>1. CASE r \in Points /\ groups'[r] = groups[r]
    BY <1>1, <1>3, <2>1 DEF CopiesOK
  <2>2. CASE /\ Running("business_publish") /\ groups'[r].rows = sched.rows
             /\ groups'[r].objects = sched.objects /\ groups'[r].cutoff = sched.cutoff
    BY <1>1, <1>3, <2>2 DEF CopiesOK, Running
  <2> QED
    BY <2>1, <2>2
<1>7. \A rows, cutoff : RowsReflect(rows, cutoff) =>
        \A c \in Applicants : row'[c].kind = "redacted" /\ row'[c].at <= cutoff => rows[c].kind = "redacted"
  BY DEF RowsReflect
<1>8. \A files, cutoff : FilesReflect(files, cutoff) =>
        \A c \in Applicants : row'[c].kind = "redacted" /\ row'[c].at <= cutoff => c \notin files
  BY DEF FilesReflect
<1>9. CopiesOK'
  <2>1. ASSUME NEW r \in Points'
        PROVE  /\ groups'[r].cutoff < clock'
               /\ RowsReflect(groups[r].rows, groups[r].cutoff)' /\ FilesReflect(groups[r].objects, groups[r].cutoff)'
    BY <1>6, <1>7, <1>8 DEF RowsReflect, FilesReflect
  <2>2. ASSUME Alive'
        PROVE  /\ sched'.cutoff < clock' /\ FilesReflect(sched.objects, sched.cutoff)'
               /\ sched'.stage \notin {"ledger_publish", "dump"} =>
                    sched'.rows \in Rows /\ RowsReflect(sched.rows, sched.cutoff)'
    BY <1>7, <1>8, <2>2 DEF RowsReflect, FilesReflect
  <2> HIDE DEF Recorded, RowsReflect, FilesReflect
  <2>3. Rows' = Rows
    BY DEF Rows, PersonRow, Times
  <2> QED
    BY <1>4, <1>5, <2>1, <2>2, <2>3 DEF CopiesOK
<1> QED
  BY <1>2, <1>9, ProduceStep

(* Steps that make no copy.                                                 *)
LEMMA StoresAside ==
  ASSUME RecoveryInv, restore.step = "none", UNCHANGED recoveryVars, UNCHANGED <<row, objects, ledger, archives>>,
         BackupTypeOK', clock' = clock, \A r \in Points' : r \in Points /\ groups'[r] = groups[r],
         sched' = sched \/ ~Alive'
  PROVE  RecoveryInv'
<1>1. BackupTypeOK /\ CopiesOK
  BY PlaneTypes DEF RecoveryInv
<1>2. clock \in Int
  BY <1>1, BackupRows
<1>3. Alive' => sched' = sched /\ Alive
  BY DEF Alive
<1>4. Archived' = Archived
  BY DEF Archived
<1>5. Alive' =>
        /\ sched'.cutoff < clock' /\ FilesReflect(sched'.objects, sched'.cutoff)
        /\ sched'.stage \notin {"ledger_publish", "dump"} =>
             sched'.rows \in Rows /\ RowsReflect(sched'.rows, sched'.cutoff)
  BY <1>1, <1>3 DEF CopiesOK
<1>6. \A q \in Archived' : q \in Archived /\ archives'[q] = archives[q]
  BY <1>4
<1>7. clock' >= clock
  BY <1>2
<1> HIDE DEF Archived, Points, Alive
<1> QED
  BY <1>5, <1>6, <1>7, StoreStep

LEMMA RunsCounted ==
  /\ \A S \in SUBSET Runs : Cardinality(S) \in 0..MaxRuns
  /\ \A S \in SUBSET Runs : S # Runs => Cardinality(S) + 1 \in Runs
<1>1. IsFiniteSet(1..MaxRuns) /\ Cardinality(1..MaxRuns) = MaxRuns /\ MaxRuns \in Nat /\ MaxRuns > 0
  BY PlaneNumbers, FS_Interval
<1>2. ASSUME NEW S \in SUBSET (1..MaxRuns)
      PROVE  Cardinality(S) \in 0..MaxRuns /\ (S # 1..MaxRuns => Cardinality(S) + 1 \in 1..MaxRuns)
  <2>1. IsFiniteSet(S) /\ Cardinality(S) <= MaxRuns /\ (Cardinality(S) = MaxRuns => S = 1..MaxRuns)
    BY <1>1, FS_Subset
  <2>2. Cardinality(S) \in Nat
    BY <2>1, FS_CardinalityType
  <2> QED
    BY <1>1, <2>1, <2>2
<1> QED
  BY <1>2 DEF Runs

LEMMA NewestIs ==
  ASSUME NEW S \in SUBSET Runs, S # {}
  PROVE  Max(S) \in S
<1>1. S \in SUBSET (0..MaxRuns) /\ MaxRuns \in Nat
  BY PlaneNumbers DEF Runs
<1>2. Max(S) = Max(S)
  BY DEF Max, Max
<1> QED
  BY <1>1, <1>2, Greatest

LEMMA StartInd ==
  ASSUME RecoveryInv, restore.step = "none", UNCHANGED recoveryVars, Start
  PROVE  RecoveryInv'
<1>1. BackupTypeOK /\ CopiesOK /\ clock \in Int /\ clock >= 1 /\ clock + 1 <= LastTime /\ LastTime \in Nat
  BY PlaneTypes, PlaneNumbers, BackupRows, BackupTypes DEF RecoveryInv, CopiesOK, Start, Times
<1>2. PICK cutoff \in {clock - 1, clock} :
        sched' = [run |-> Cardinality(Archived) + 1, cutoff |-> cutoff, stage |-> "ledger_publish",
                  rows |-> Nothing, objects |-> {}]
  BY DEF Start
<1>3. cutoff \in Times /\ cutoff < clock + 1 /\ clock + 1 \in Times /\ clock + 1 >= clock
  BY <1>1 DEF Times
<1>4. Cardinality(Archived) + 1 \in Runs
  BY RunsCounted DEF Start, Archived
<1>5. sched' \in PendingRun
  BY <1>2, <1>3, <1>4 DEF PendingRun
<1>6. UNCHANGED <<row, objects, ledger, key, archives, groups, fresh, plan>> /\ clock' = clock + 1
  BY DEF Start, data, stores
<1>7. BackupTypeOK'
  BY <1>1, <1>3, <1>5, <1>6, BackupTypes
<1>8. /\ sched'.cutoff < clock' /\ FilesReflect(sched'.objects, sched'.cutoff)
      /\ sched'.stage = "ledger_publish"
  BY <1>2, <1>3, <1>6 DEF FilesReflect
<1>9. (\A q \in Archived' : q \in Archived /\ archives'[q] = archives[q])
      /\ (\A r \in Points' : r \in Points /\ groups'[r] = groups[r])
  BY <1>6 DEF Archived, Points
<1>10. clock' >= clock
  BY <1>3, <1>6
<1> HIDE DEF Archived, Points, Alive
<1> QED
  BY <1>6, <1>7, <1>8, <1>9, <1>10, StoreStep

LEMMA StagesRun ==
  ASSUME RecoveryInv, restore.step = "none", NEW stage, Running(stage)
  PROVE  /\ BackupTypeOK /\ WorkOK /\ CopiesOK /\ clock >= clock /\ clock \in Int
         /\ Alive /\ sched \in PendingRun /\ sched.stage = stage /\ sched.run \in Runs
         /\ sched.cutoff \in Times /\ sched.cutoff < clock
         /\ FilesReflect(sched.objects, sched.cutoff)
         /\ stage \notin {"ledger_publish", "dump"} =>
              sched.rows \in Rows /\ RowsReflect(sched.rows, sched.cutoff)
<1>1. BackupTypeOK /\ WorkOK /\ CopiesOK /\ Alive /\ sched.stage = stage
  BY PlaneTypes DEF RecoveryInv, Running
<1>2. clock \in Int /\ clock >= clock /\ sched \in PendingRun /\ sched.cutoff \in Times /\ sched.run \in Runs
  BY <1>1, BackupRows
<1> QED
  BY <1>1, <1>2 DEF CopiesOK

(* A publisher that commits, or not, and whose outcome is known, or not.    *)
LEMMA PublishedIs ==
  ASSUME NEW committed \in BOOLEAN, NEW next, sched \in PendingRun, Published(committed, next),
         next \in {"ledger_publish", "dump", "snapshot", "business_publish", "business_catalog"}
  PROVE  /\ sched' \in PendingRun \cup {Stopped}
         /\ Alive' =>
              /\ sched'.run = sched.run /\ sched'.cutoff = sched.cutoff /\ sched'.stage = next
              /\ sched'.rows = sched.rows /\ sched'.objects = sched.objects
<1>1. CASE sched' = Stopped
  BY <1>1 DEF Alive
<1>2. CASE sched' = [sched EXCEPT !.stage = next]
  BY <1>2 DEF PendingRun
<1> QED
  BY <1>1, <1>2 DEF Published, Ended, NextStage

LEMMA LedgerPublishInd ==
  ASSUME RecoveryInv, restore.step = "none", UNCHANGED recoveryVars, LedgerPublish
  PROVE  RecoveryInv'
<1>1. /\ BackupTypeOK /\ clock >= clock /\ sched \in PendingRun /\ sched.run \in Runs
      /\ sched.cutoff \in Times /\ sched.cutoff < clock /\ FilesReflect(sched.objects, sched.cutoff)
  BY StagesRun DEF LedgerPublish
<1>2. PICK committed \in BOOLEAN :
        /\ archives' = IF committed
             THEN [archives EXCEPT ![sched.run] = [cutoff |-> sched.cutoff, key |-> key, entries |-> ledger]]
             ELSE archives
        /\ Published(committed, "dump")
  BY DEF LedgerPublish, CutoffOfRun
<1>3. UNCHANGED <<clock, row, objects, ledger, key, groups, fresh, plan>>
  BY DEF LedgerPublish, data
<1>4. /\ sched' \in PendingRun \cup {Stopped}
      /\ Alive' => sched'.cutoff = sched.cutoff /\ sched'.stage = "dump" /\ sched'.objects = sched.objects
  BY <1>1, <1>2, PublishedIs
<1>5. /\ key \in 1..MaxKeys /\ ledger \in Entries /\ archives \in [Runs -> LedgerManifest \cup {Nothing}]
  BY <1>1, BackupTypes DEF Entries
<1> DEFINE manifest == [cutoff |-> sched.cutoff, key |-> key, entries |-> ledger]
<1>6. manifest \in LedgerManifest /\ manifest.entries = ledger
  BY <1>1, <1>5 DEF LedgerManifest
<1> HIDE DEF manifest
<1>7. archives' = archives \/ archives' = [archives EXCEPT ![sched.run] = manifest]
  BY <1>2 DEF manifest
<1>8. archives' \in [Runs -> LedgerManifest \cup {Nothing}]
  BY <1>5, <1>6, <1>7
<1>9. BackupTypeOK'
  BY <1>1, <1>3, <1>4, <1>8, BackupTypes
<1>10. ASSUME NEW q \in Archived'
       PROVE  \/ q \in Archived /\ archives'[q] = archives[q]
              \/ archives'[q].entries = ledger
  BY <1>5, <1>6, <1>7 DEF Archived
<1>11. \A r \in Points' : r \in Points /\ groups'[r] = groups[r]
  BY <1>3 DEF Points
<1>12. clock' >= clock
  BY <1>1, <1>3
<1>13. Alive' => /\ sched'.cutoff < clock' /\ FilesReflect(sched'.objects, sched'.cutoff) /\ sched'.stage = "dump"
  BY <1>1, <1>3, <1>4
<1> HIDE DEF Archived, Points, Alive
<1> QED
  BY <1>3, <1>9, <1>10, <1>11, <1>12, <1>13, StoreStep

LEMMA DumpInd ==
  ASSUME RecoveryInv, restore.step = "none", UNCHANGED recoveryVars, Dump
  PROVE  RecoveryInv'
<1>1. /\ BackupTypeOK /\ clock >= clock /\ sched \in PendingRun
      /\ sched.cutoff \in Times /\ sched.cutoff < clock /\ FilesReflect(sched.objects, sched.cutoff)
  BY StagesRun DEF Dump
<1>2. UNCHANGED <<clock, row, objects, ledger, key, archives, groups, fresh, plan>>
  BY DEF Dump, data, stores
<1>3. row \in Rows
  BY <1>1, BackupTypes DEF Rows
<1> DEFINE s == [sched EXCEPT !.stage = "snapshot"]
<1>4. s \in PendingRun /\ s.cutoff = sched.cutoff /\ s.objects = sched.objects /\ s.stage = "snapshot"
  BY <1>1 DEF PendingRun
<1>5. sched' = [s EXCEPT !.rows = row]
  BY DEF Dump
<1> HIDE DEF s
<1>6. sched' \in PendingRun /\ sched'.cutoff = sched.cutoff /\ sched'.objects = sched.objects /\ sched'.rows = row
  BY <1>3, <1>4, <1>5 DEF PendingRun
<1>7. BackupTypeOK'
  BY <1>1, <1>2, <1>6, BackupTypes
<1>8. /\ sched'.cutoff < clock' /\ FilesReflect(sched'.objects, sched'.cutoff)
      /\ sched'.rows \in Rows /\ RowsReflect(sched'.rows, sched'.cutoff)
  BY <1>1, <1>2, <1>3, <1>6 DEF RowsReflect
<1>9. (\A q \in Archived' : q \in Archived /\ archives'[q] = archives[q])
      /\ (\A r \in Points' : r \in Points /\ groups'[r] = groups[r])
  BY <1>2 DEF Archived, Points
<1>10. clock' >= clock
  BY <1>1, <1>2
<1> HIDE DEF Archived, Points, Alive
<1> QED
  BY <1>2, <1>7, <1>8, <1>9, <1>10, StoreStep

LEMMA SnapshotInd ==
  ASSUME RecoveryInv, restore.step = "none", UNCHANGED recoveryVars, Snapshot
  PROVE  RecoveryInv'
<1>1. /\ BackupTypeOK /\ WorkOK /\ clock >= clock /\ sched \in PendingRun /\ sched.cutoff \in Times /\ sched.cutoff < clock
      /\ sched.rows \in Rows /\ RowsReflect(sched.rows, sched.cutoff)
  BY StagesRun DEF Snapshot
<1>2. UNCHANGED <<clock, row, objects, ledger, key, archives, groups, fresh, plan>>
  BY DEF Snapshot, data, stores
<1>3. objects \in SUBSET Applicants
  BY <1>1, BackupTypes
<1> DEFINE s == [sched EXCEPT !.stage = "business_publish"]
<1>4. s \in PendingRun /\ s.cutoff = sched.cutoff /\ s.rows = sched.rows
  BY <1>1 DEF PendingRun
<1>5. sched' = [s EXCEPT !.objects = objects]
  BY DEF Snapshot
<1> HIDE DEF s
<1>6. sched' \in PendingRun /\ sched'.cutoff = sched.cutoff /\ sched'.objects = objects /\ sched'.rows = sched.rows
  BY <1>3, <1>4, <1>5 DEF PendingRun
<1>7. BackupTypeOK'
  BY <1>1, <1>2, <1>6, BackupTypes
<1>8. /\ sched'.cutoff < clock' /\ FilesReflect(sched'.objects, sched'.cutoff)
      /\ sched'.rows \in Rows /\ RowsReflect(sched'.rows, sched'.cutoff)
  BY <1>1, <1>2, <1>6 DEF WorkOK, FilesReflect
<1>9. (\A q \in Archived' : q \in Archived /\ archives'[q] = archives[q])
      /\ (\A r \in Points' : r \in Points /\ groups'[r] = groups[r])
  BY <1>2 DEF Archived, Points
<1>10. clock' >= clock
  BY <1>1, <1>2
<1> HIDE DEF Archived, Points, Alive
<1> QED
  BY <1>2, <1>7, <1>8, <1>9, <1>10, StoreStep

LEMMA BusinessPublishInd ==
  ASSUME RecoveryInv, restore.step = "none", UNCHANGED recoveryVars, BusinessPublish
  PROVE  RecoveryInv'
<1>1. /\ BackupTypeOK /\ clock >= clock /\ sched \in PendingRun /\ sched.run \in Runs
      /\ sched.cutoff \in Times /\ sched.cutoff < clock /\ FilesReflect(sched.objects, sched.cutoff)
      /\ sched.rows \in Rows /\ RowsReflect(sched.rows, sched.cutoff)
  BY StagesRun DEF BusinessPublish
<1>2. PICK committed \in BOOLEAN :
        /\ groups' = IF committed
             THEN [groups EXCEPT ![sched.run] =
                     [cutoff |-> sched.cutoff, rows |-> sched.rows, objects |-> sched.objects]]
             ELSE groups
        /\ Published(committed, "business_catalog")
  BY DEF BusinessPublish, CutoffOfRun
<1>3. UNCHANGED <<clock, row, objects, ledger, key, archives, fresh, plan>> /\ Running("business_publish")
  BY DEF BusinessPublish, data
<1>4. /\ sched' \in PendingRun \cup {Stopped}
      /\ Alive' => sched'.cutoff = sched.cutoff /\ sched'.rows = sched.rows /\ sched'.objects = sched.objects
  BY <1>1, <1>2, PublishedIs
<1>5. groups \in [Runs -> BackupManifest \cup {Nothing}] /\ sched.objects \in SUBSET Applicants
  BY <1>1, BackupTypes DEF PendingRun
<1> DEFINE manifest == [cutoff |-> sched.cutoff, rows |-> sched.rows, objects |-> sched.objects]
<1>6. /\ manifest \in BackupManifest /\ manifest.rows = sched.rows /\ manifest.objects = sched.objects
      /\ manifest.cutoff = sched.cutoff
  BY <1>1, <1>5 DEF BackupManifest
<1> HIDE DEF manifest
<1>7. groups' = groups \/ groups' = [groups EXCEPT ![sched.run] = manifest]
  BY <1>2 DEF manifest
<1>8. groups' \in [Runs -> BackupManifest \cup {Nothing}]
  BY <1>5, <1>6, <1>7
<1>9. BackupTypeOK'
  BY <1>1, <1>3, <1>4, <1>8, BackupTypes
<1>10. ASSUME NEW r \in Points'
       PROVE  \/ r \in Points /\ groups'[r] = groups[r]
              \/ /\ groups'[r].rows = sched.rows /\ groups'[r].objects = sched.objects
                 /\ groups'[r].cutoff = sched.cutoff
  BY <1>5, <1>6, <1>7 DEF Points
<1>11. \A q \in Archived' : q \in Archived /\ archives'[q] = archives[q]
  BY <1>3 DEF Archived
<1>12. clock' >= clock
  BY <1>1, <1>3
<1>13. Alive' =>
         /\ sched'.cutoff < clock' /\ FilesReflect(sched'.objects, sched'.cutoff)
         /\ sched'.rows \in Rows /\ RowsReflect(sched'.rows, sched'.cutoff)
  BY <1>1, <1>3, <1>4
<1> HIDE DEF Archived, Points, Alive, Running
<1> QED
  BY <1>3, <1>9, <1>10, <1>11, <1>12, <1>13, StoreStep

LEMMA SucceedInd ==
  ASSUME RecoveryInv, restore.step = "none", UNCHANGED recoveryVars, Succeed
  PROVE  RecoveryInv'
<1>1. UNCHANGED <<clock, row, objects, ledger, key, archives, groups, plan>> /\ sched' = Nothing
  BY DEF Succeed, data, stores, Catalog
<1>2. BackupTypeOK /\ Points \in SUBSET Runs
  BY PlaneTypes DEF Points
<1>3. Cardinality(Points) >= 2 /\ Cardinality(Points) \in 0..MaxRuns /\ MaxRuns \in Nat
  BY <1>2, RunsCounted, PlaneNumbers DEF Succeed, Catalog, PointsHold
<1>4. Points # {}
  <2>1. Cardinality({}) = 0
    BY FS_EmptySet
  <2> QED
    BY <1>3, <2>1
<1>5. sched.run \in Points
  <2>1. sched.run = Max(Points)
    BY DEF Succeed, Catalog, PointsHold
  <2> HIDE DEF Points
  <2> QED
    BY <1>2, <1>4, <2>1, NewestIs
<1>6. groups[sched.run].cutoff \in Times /\ sched.run \in Runs
  BY <1>2, <1>5, BackupRows DEF BackupManifest
<1>7. fresh' \in FreshnessState
  <2>1. fresh' = [run |-> sched.run, cutoff |-> groups[sched.run].cutoff, points |-> Cardinality(Points)]
    BY DEF Succeed, Catalog
  <2>2. Cardinality(Points) \in 2..MaxRuns
    BY <1>3
  <2> HIDE DEF Points
  <2> QED
    BY <1>6, <2>1, <2>2 DEF FreshnessState
<1>8. BackupTypeOK'
  BY <1>1, <1>2, <1>7, BackupTypes
<1>9. ~Alive' /\ \A r \in Points' : r \in Points /\ groups'[r] = groups[r]
  BY <1>1 DEF Alive, Points
<1> HIDE DEF Points, Alive
<1> QED
  BY <1>1, <1>8, <1>9, StoresAside

LEMMA EndedInd ==
  ASSUME RecoveryInv, restore.step = "none", UNCHANGED recoveryVars, StageFails \/ Reconcile
  PROVE  RecoveryInv'
<1>1. UNCHANGED <<clock, row, objects, ledger, key, archives, groups, fresh, plan>> /\ sched' \in {Nothing, Stopped}
  BY DEF StageFails, Reconcile, Ended, data, stores
<1>2. BackupTypeOK'
  BY <1>1, PlaneTypes, BackupTypes
<1>3. ~Alive' /\ \A r \in Points' : r \in Points /\ groups'[r] = groups[r]
  BY <1>1 DEF Alive, Points
<1> QED
  BY <1>1, <1>2, <1>3, StoresAside

LEMMA PruneInd ==
  ASSUME RecoveryInv, restore.step = "none", UNCHANGED recoveryVars,
         PlanPrune \/ PruneStops \/ \E r \in Runs : DeleteGroup(r)
  PROVE  RecoveryInv'
<1>1. UNCHANGED <<clock, row, objects, ledger, key, archives, sched, fresh>>
  BY DEF PlanPrune, PruneStops, DeleteGroup, data, stores
<1>2. BackupTypeOK /\ groups \in [Runs -> BackupManifest \cup {Nothing}] /\ plan \subseteq Runs
  BY PlaneTypes, BackupTypes
<1>3. CASE PlanPrune \/ PruneStops
  <2>1. groups' = groups /\ plan' \subseteq Runs
    BY <1>3 DEF PlanPrune, PruneStops, Prunable, Points, stores
  <2>2. BackupTypeOK'
    BY <1>1, <1>2, <2>1, BackupTypes
  <2>3. \A r \in Points' : r \in Points /\ groups'[r] = groups[r]
    BY <2>1 DEF Points
  <2> QED
    BY <1>1, <2>2, <2>3, StoresAside
<1>4. CASE \E r \in Runs : DeleteGroup(r)
  <2>1. PICK r \in Runs : groups' = [groups EXCEPT ![r] = Nothing] /\ plan' = plan \ {r}
    BY <1>4 DEF DeleteGroup
  <2>2. groups' \in [Runs -> BackupManifest \cup {Nothing}] /\ plan' \subseteq Runs
    BY <1>2, <2>1
  <2>3. BackupTypeOK'
    BY <1>1, <1>2, <2>2, BackupTypes
  <2>4. \A q \in Points' : q \in Points /\ groups'[q] = groups[q]
    BY <1>2, <2>1 DEF Points
  <2> QED
    BY <1>1, <2>3, <2>4, StoresAside
<1> QED
  BY <1>3, <1>4

LEMMA RotateKeyInd ==
  ASSUME RecoveryInv, restore.step = "none", UNCHANGED recoveryVars, RotateKey
  PROVE  RecoveryInv'
<1>1. /\ UNCHANGED <<clock, row, objects, ledger, archives, groups, sched, fresh, plan>>
      /\ key < MaxKeys /\ key' = key + 1
  BY DEF RotateKey, data, stores
<1>2. BackupTypeOK /\ key \in 1..MaxKeys /\ MaxKeys \in Nat
  BY PlaneTypes, BackupTypes, PlaneNumbers
<1>3. key' \in 1..MaxKeys
  BY <1>1, <1>2
<1>4. BackupTypeOK'
  BY <1>1, <1>2, <1>3, BackupTypes
<1>5. \A r \in Points' : r \in Points /\ groups'[r] = groups[r]
  BY <1>1 DEF Points
<1> QED
  BY <1>1, <1>4, <1>5, StoresAside

LEMMA ProduceInd ==
  ASSUME RecoveryInv, Produce
  PROVE  RecoveryInv'
<1>1. restore.step = "none" /\ UNCHANGED recoveryVars /\ BackupNext
  BY DEF Produce
<1>2. CASE Schedule
  BY <1>1, <1>2, StartInd, LedgerPublishInd, DumpInd, SnapshotInd, BusinessPublishInd, SucceedInd, EndedInd DEF Schedule
<1>3. CASE \E c \in Applicants : Work(c) /\ UNCHANGED <<clock, key, stores, sched, fresh, plan>>
  BY <1>1, <1>3, WorkMoves DEF stores
<1>4. CASE PlanPrune \/ PruneStops \/ \E r \in Runs : DeleteGroup(r)
  BY <1>1, <1>4, PruneInd
<1>5. CASE RotateKey
  BY <1>1, <1>5, RotateKeyInd
<1> QED
  BY <1>1, <1>2, <1>3, <1>4, <1>5 DEF BackupNext

(* Until the restore is done nothing is known of a recovery.                *)
LEMMA NoneAsked ==
  ASSUME RecoveryInv, restore.step # "done"
  PROVE  run = Nothing /\ (\A c \in Applicants : Untouched(c)) /\ ~Claimed /\ asked <= calls
  BY DEF RecoveryInv, RestoreOK, RedeletionOK

LEMMA RestoreStep ==
  ASSUME RecoveryInv, restore.step # "done", UNCHANGED <<drill, asked, calls, run, point, redone, thread>>,
         restore' \in RestoreEvidence, restore'.step # "none", BackupTypeOK', CopiesAgree', RestoreOK'
  PROVE  RecoveryInv'
<1>1. run = Nothing /\ (\A c \in Applicants : Untouched(c)) /\ ~Claimed /\ asked <= calls
  BY NoneAsked
<1>2. RecoveryTypeOK'
  BY RecoveryTypes DEF RecoveryInv
<1>3. RedeletionOK'
  BY <1>1 DEF RedeletionOK, Untouched, Claimed
<1> QED
  BY <1>2, <1>3 DEF RecoveryInv

LEMMA BeginRestoreInd ==
  ASSUME RecoveryInv, NEW r \in Runs, BeginRestore(r)
  PROVE  RecoveryInv'
<1>1. /\ restore.step # "done" /\ r \in Points
      /\ restore' = [step |-> "ledger", of |-> r, cutoff |-> groups[r].cutoff]
      /\ row' = [c \in Applicants |-> NewRow] /\ objects' = {} /\ ledger' = [c \in Applicants |-> Nothing]
      /\ clock' = LastTime /\ sched' = Nothing /\ fresh' = Nothing /\ plan' = {}
      /\ UNCHANGED <<key, archives, groups, drill, asked, calls, run, point, redone, thread>>
  BY DEF BeginRestore, stores
<1>2. BackupTypeOK /\ LastTime \in Nat /\ LastTime \in Times /\ 0 \in Times /\ groups[r].cutoff \in Times
  BY <1>1, PlaneTypes, PlaneNumbers, BackupRows DEF Times, BackupManifest
<1>3. restore' \in RestoreEvidence /\ restore'.step = "ledger" /\ restore'.of = r /\ restore'.cutoff = groups[r].cutoff
  BY <1>1, <1>2 DEF RestoreEvidence
<1>4. NewRow \in PersonRow
  BY <1>2 DEF NewRow, PersonRow
<1>5. BackupTypeOK'
  <2>1. row' \in [Applicants -> PersonRow] /\ ledger' \in [Applicants -> LedgerEntry \cup {Nothing}] /\ objects' \in SUBSET Applicants
    BY <1>1, <1>4
  <2>2. key \in 1..MaxKeys /\ archives \in [Runs -> LedgerManifest \cup {Nothing}] /\ groups \in [Runs -> BackupManifest \cup {Nothing}]
    BY <1>2, BackupTypes
  <2> QED
    BY <1>1, <1>2, <2>1, <2>2, BackupTypes
<1>6. CopiesAgree'
  BY <1>1 DEF RecoveryInv, CopiesAgree, Archived, Points
<1>7. run = Nothing /\ asked = 0
  BY <1>1 DEF RecoveryInv, RestoreOK
<1>8. RestoreOK'
  BY <1>1, <1>3, <1>7 DEF RestoreOK, Points
<1> QED
  BY <1>1, <1>3, <1>5, <1>6, <1>8, RestoreStep

LEMMA RestoringIs ==
  ASSUME RecoveryInv, NEW step, NEW next, Restoring(step, next), step # "done", step # "none",
         next \in {"ledger", "database", "objects", "done"}
  PROVE  /\ restore.step = step /\ restore'.step = next /\ restore'.of = restore.of /\ restore'.cutoff = restore.cutoff
         /\ restore' \in RestoreEvidence /\ restore' = [restore EXCEPT !.step = next]
         /\ UNCHANGED <<clock, key, sched, fresh, plan, drill, asked, calls, run, point, redone, thread>>
         /\ run = Nothing /\ asked = 0 /\ CopiesAgree /\ BackupTypeOK
<1>1. restore \in RestoreEvidence /\ BackupTypeOK
  BY RecoveryTypes, PlaneTypes
<1>2. restore.step = step /\ restore' = [restore EXCEPT !.step = next]
      /\ UNCHANGED <<clock, key, sched, fresh, plan, drill, asked, calls, run, point, redone, thread>>
  BY DEF Restoring
<1>3. run = Nothing /\ asked = 0 /\ CopiesAgree
  BY <1>2 DEF RecoveryInv, RestoreOK
<1>4. restore'.step = next /\ restore'.of = restore.of /\ restore'.cutoff = restore.cutoff /\ restore' \in RestoreEvidence
  BY <1>1, <1>2 DEF RestoreEvidence
<1> QED
  BY <1>1, <1>2, <1>3, <1>4

LEMMA RestoreLedgerInd ==
  ASSUME RecoveryInv, RestoreLedger
  PROVE  RecoveryInv'
<1>1. /\ restore.step = "ledger" /\ restore'.step = "database" /\ restore'.of = restore.of /\ restore'.cutoff = restore.cutoff
      /\ restore' \in RestoreEvidence
      /\ UNCHANGED <<clock, key, sched, fresh, plan, drill, asked, calls, run, point, redone, thread>>
      /\ run = Nothing /\ asked = 0 /\ CopiesAgree /\ BackupTypeOK
  BY RestoringIs DEF RestoreLedger
<1>2. PICK q \in Archived : ledger' = archives[q].entries
  BY DEF RestoreLedger, Selected, ValidArchive
<1>3. UNCHANGED <<row, objects, archives, groups>>
  BY DEF RestoreLedger, stores
<1>4. ledger' \in [Applicants -> LedgerEntry \cup {Nothing}]
  BY <1>1, <1>2, BackupRows DEF LedgerManifest, Entries
<1>5. BackupTypeOK'
  BY <1>1, <1>3, <1>4, BackupTypes
<1>6. CopiesAgree'
  BY <1>1, <1>3 DEF CopiesAgree, Archived, Points
<1>7. restore.of \in Points /\ restore.cutoff = groups[restore.of].cutoff
  BY <1>1 DEF RecoveryInv, RestoreOK
<1>8. restore'.of \in Points' /\ restore'.cutoff = groups'[restore'.of].cutoff
  BY <1>1, <1>3, <1>7 DEF Points
<1>9. q \in Archived' /\ ledger' = archives'[q].entries
  BY <1>2, <1>3 DEF Archived
<1>10. RestoreOK'
  BY <1>1, <1>8, <1>9 DEF RestoreOK
<1> QED
  BY <1>1, <1>5, <1>6, <1>10, RestoreStep

LEMMA RestoreDatabaseInd ==
  ASSUME RecoveryInv, RestoreDatabase
  PROVE  RecoveryInv'
<1>1. /\ restore.step = "database" /\ restore'.step = "objects" /\ restore'.of = restore.of /\ restore'.cutoff = restore.cutoff
      /\ restore' \in RestoreEvidence
      /\ UNCHANGED <<clock, key, sched, fresh, plan, drill, asked, calls, run, point, redone, thread>>
      /\ run = Nothing /\ asked = 0 /\ CopiesAgree /\ BackupTypeOK
  BY RestoringIs DEF RestoreDatabase
<1>2. UNCHANGED <<objects, ledger, archives, groups>> /\ row' = groups[restore.of].rows
  BY DEF RestoreDatabase, stores
<1>3. /\ restore.of \in Points /\ restore.cutoff = groups[restore.of].cutoff
      /\ \E q \in Archived : ledger = archives[q].entries
  BY <1>1 DEF RecoveryInv, RestoreOK
<1>4. row' \in [Applicants -> PersonRow]
  BY <1>1, <1>2, <1>3, BackupRows DEF BackupManifest, Rows
<1>5. BackupTypeOK'
  BY <1>1, <1>2, <1>4, BackupTypes
<1>6. CopiesAgree'
  BY <1>1, <1>2 DEF CopiesAgree, Archived, Points
<1>7. restore'.of \in Points' /\ restore'.cutoff = groups'[restore'.of].cutoff /\ row' = groups'[restore'.of].rows
  BY <1>1, <1>2, <1>3 DEF Points
<1>8. \E q \in Archived' : ledger' = archives'[q].entries
  BY <1>2, <1>3 DEF Archived
<1>9. RestoreOK'
  BY <1>1, <1>7, <1>8 DEF RestoreOK
<1> QED
  BY <1>1, <1>5, <1>6, <1>9, RestoreStep

(* Whom the restored ledger says was deleted before the cutoff is not in    *)
(* the restored group.                                                      *)
LEMMA RestoreObjectsInd ==
  ASSUME RecoveryInv, RestoreObjects
  PROVE  RecoveryInv'
<1>1. /\ restore.step = "objects" /\ restore'.step = "done" /\ restore'.cutoff = restore.cutoff
      /\ restore' \in RestoreEvidence
      /\ UNCHANGED <<clock, key, sched, fresh, plan, drill, asked, calls, run, point, redone, thread>>
      /\ run = Nothing /\ asked = 0 /\ CopiesAgree /\ BackupTypeOK
  BY RestoringIs DEF RestoreObjects
<1>2. /\ UNCHANGED <<row, ledger>> /\ objects' = groups[restore.of].objects
      /\ archives' = [q \in Runs |-> Nothing] /\ groups' = [q \in Runs |-> Nothing]
  BY DEF RestoreObjects
<1>3. /\ restore.of \in Points /\ restore.cutoff = groups[restore.of].cutoff /\ row = groups[restore.of].rows
      /\ \E q \in Archived : ledger = archives[q].entries
  BY <1>1 DEF RecoveryInv, RestoreOK
<1>4. /\ objects' \in SUBSET Applicants /\ row \in [Applicants -> PersonRow]
      /\ ledger \in [Applicants -> LedgerEntry \cup {Nothing}]
  BY <1>1, <1>2, <1>3, BackupRows, BackupTypes DEF BackupManifest
<1>5. archives' \in [Runs -> LedgerManifest \cup {Nothing}] /\ groups' \in [Runs -> BackupManifest \cup {Nothing}]
  BY <1>2
<1>6. BackupTypeOK'
  BY <1>1, <1>2, <1>4, <1>5, BackupTypes
<1>7. CopiesAgree'
  BY <1>2 DEF CopiesAgree, Archived
<1>8. PICK q \in Archived : ledger = archives[q].entries
  BY <1>3
<1>9. ASSUME NEW c \in Applicants, ledger'[c] # Nothing, ledger'[c].at <= restore'.cutoff
      PROVE  Clean(c)'
  <2>1. archives[q].entries[c] # Nothing /\ archives[q].entries[c].at <= groups[restore.of].cutoff
    BY <1>1, <1>2, <1>3, <1>8, <1>9
  <2>2. groups[restore.of].rows[c].kind = "redacted" /\ c \notin groups[restore.of].objects
    BY <1>1, <1>3, <2>1 DEF CopiesAgree
  <2> QED
    BY <1>2, <1>3, <2>2 DEF Clean
<1>10. RestoreOK'
  BY <1>1, <1>9 DEF RestoreOK
<1> QED
  BY <1>1, <1>6, <1>7, <1>10, RestoreStep

-----------------------------------------------------------------------------
(* The recovery.                                                            *)

LEMMA Fewer ==
  ASSUME NEW T \in SUBSET Applicants, NEW S \in SUBSET T
  PROVE  Cardinality(S) \in Nat /\ Cardinality(T) \in Nat /\ Cardinality(S) <= Cardinality(T)
<1>1. IsFiniteSet(Applicants)
  BY PlaneNumbers
<1>2. IsFiniteSet(T)
  BY <1>1, FS_Subset
<1>3. IsFiniteSet(S) /\ Cardinality(S) <= Cardinality(T)
  BY <1>2, FS_Subset
<1>4. Cardinality(S) \in Nat /\ Cardinality(T) \in Nat
  BY <1>2, <1>3, FS_CardinalityType
<1> QED
  BY <1>3, <1>4

LEMMA RecoveryRows ==
  ASSUME RecoveryInv
  PROVE  /\ restore \in RestoreEvidence /\ drill \in DrillEvidence /\ asked \in Nat /\ calls \in Nat
         /\ run # Nothing => run \in RecoveryRun /\ restore.step = "done"
         /\ \A c \in Applicants : /\ point[c] \in Checkpoint /\ redone[c] \in Redeletion
                                  /\ thread[c] \in [Threads -> Thread] /\ row[c] \in PersonRow
         /\ Applicable \subseteq Applicants
<1>1. RecoveryTypeOK /\ BackupTypeOK /\ MaxCalls \in Nat
  BY PlaneTypes, PlaneNumbers
<1>2. /\ restore \in RestoreEvidence /\ drill \in DrillEvidence /\ asked \in 0..MaxCalls /\ calls \in 0..MaxCalls
      /\ run \in RecoveryRun \cup {Nothing} /\ point \in [Applicants -> Checkpoint] /\ redone \in [Applicants -> Redeletion]
      /\ thread \in [Applicants -> [Threads -> Thread]]
  BY <1>1, RecoveryTypes
<1>3. run # Nothing => restore.step = "done"
  BY DEF RecoveryInv, RestoreOK
<1>4. asked \in Nat /\ calls \in Nat
  BY <1>1, <1>2
<1> QED
  BY <1>1, <1>2, <1>3, <1>4, BackupRows DEF Applicable

(* Steps of the recovery's own tables.                                      *)
LEMMA AsideStep ==
  ASSUME RecoveryInv, UNCHANGED <<backupVars, restore>>, RecoveryTypeOK', RedeletionOK',
         restore.step # "done" => run' = Nothing /\ asked' = 0
  PROVE  RecoveryInv'
<1>1. UNCHANGED <<clock, row, objects, ledger, key, archives, groups, sched, fresh, plan, restore>>
  BY DEF backupVars, data, stores
<1>2. Archived' = Archived /\ Points' = Points /\ Alive' = Alive
  BY <1>1 DEF Archived, Points, Alive
<1>3. CopiesAgree'
  BY <1>1, <1>2 DEF RecoveryInv, CopiesAgree
<1>4. RestoreOK'
  BY <1>1, <1>2 DEF RecoveryInv, RestoreOK, Clean
<1>5. WorkOK => WorkOK'
  BY <1>1 DEF WorkOK
<1>6. Rows' = Rows
  BY DEF Rows, PersonRow, Times
<1>7. CopiesOK => CopiesOK'
  BY <1>1, <1>2, <1>6 DEF CopiesOK, Recorded, RowsReflect, FilesReflect
<1> QED
  BY <1>1, <1>3, <1>4, <1>5, <1>7 DEF RecoveryInv

(* Commands and the drill: only Prepare touches a checkpoint.               *)
LEMMA DrillStep ==
  ASSUME RecoveryInv, UNCHANGED <<backupVars, restore, run, point, redone, thread>>,
         drill' \in DrillEvidence, asked' \in 0..MaxCalls, calls' \in 0..MaxCalls, asked' <= calls',
         restore.step # "done" => asked' = 0,
         drill'.attested > 0 \/ drill'.verdict = "verified" => Claimed
  PROVE  RecoveryInv'
<1>1. UNCHANGED <<clock, row, objects, ledger, key, archives, groups, sched, fresh, plan, restore, run, point, redone, thread>>
  BY DEF backupVars, data, stores
<1>2. BackupTypeOK'
  BY <1>1, PlaneTypes, BackupTypes
<1>3. RecoveryTypeOK'
  BY <1>1, <1>2, PlaneTypes, RecoveryTypes
<1>4. Claimed' => Claimed
  BY <1>1 DEF Claimed
<1>5. Applicable' = Applicable
  BY <1>1 DEF Applicable
<1>6. RedeletionOK
  BY DEF RecoveryInv
<1>7. ASSUME NEW c \in Applicants PROVE (PointOK(c) => PointOK(c)') /\ (Untouched(c) => Untouched(c)')
  BY <1>1 DEF PointOK, Untouched, ThreadOK, Others, Clean
<1>8. RedeletionOK'
  BY <1>1, <1>4, <1>5, <1>6, <1>7 DEF RedeletionOK
<1>9. restore.step # "done" => run' = Nothing /\ asked' = 0
  BY <1>1 DEF RecoveryInv, RestoreOK
<1> QED
  BY <1>1, <1>3, <1>8, <1>9, AsideStep DEF backupVars, data, stores

LEMMA AskInd == ASSUME RecoveryInv, Ask PROVE RecoveryInv'
<1>1. /\ drill \in DrillEvidence /\ asked \in Nat /\ calls \in Nat /\ asked <= calls /\ MaxCalls \in Nat
      /\ restore.step = "done"
  BY RecoveryRows, PlaneNumbers DEF RecoveryInv, RedeletionOK, Ask, RestoreBinding
<1>2. /\ UNCHANGED <<backupVars, restore, run, point, redone, thread>> /\ calls < MaxCalls /\ calls' = calls + 1
      /\ asked' = IF run = Nothing THEN asked + 1 ELSE asked
      /\ drill' = [drill EXCEPT !.attested = 0, !.verdict = IF run = Nothing THEN drill.verdict ELSE "failed"]
  BY DEF Ask
<1>3. asked' \in 0..MaxCalls /\ calls' \in 0..MaxCalls /\ asked' <= calls'
  BY <1>1, <1>2
<1> DEFINE a == [drill EXCEPT !.attested = 0]
<1>4. a \in DrillEvidence /\ a.attested = 0 /\ a.verdict = drill.verdict
  <2>1. 0 \in 0..Cardinality(Applicants)
    BY Fewer
  <2> QED
    BY <1>1, <2>1 DEF DrillEvidence
<1>5. drill' = [a EXCEPT !.verdict = IF run = Nothing THEN drill.verdict ELSE "failed"]
  BY <1>2
<1> HIDE DEF a
<1>6. drill' \in DrillEvidence /\ drill'.attested = 0 /\ drill'.verdict \in {drill.verdict, "failed"}
  BY <1>1, <1>4, <1>5 DEF DrillEvidence
<1>7. drill'.attested > 0 \/ drill'.verdict = "verified" => Claimed
  BY <1>6 DEF Claimed
<1> QED
  BY <1>1, <1>2, <1>3, <1>6, <1>7, DrillStep

LEMMA VerdictIs ==
  ASSUME RecoveryInv, NEW verified \in BOOLEAN, Verdict(verified), verified => drill.attested > 0
  PROVE  RecoveryInv'
<1>1. /\ drill \in DrillEvidence /\ asked \in 0..MaxCalls /\ calls \in 0..MaxCalls /\ asked <= calls
  BY RecoveryRows, PlaneTypes, RecoveryTypes DEF RecoveryInv, RedeletionOK
<1>2. UNCHANGED <<backupVars, restore, asked, calls, run, point, redone, thread>>
      /\ drill' = [drill EXCEPT !.verdict = IF verified THEN "verified" ELSE "failed"]
  BY DEF Verdict
<1>3. /\ drill' \in DrillEvidence /\ drill'.attested = drill.attested
      /\ drill'.verdict = IF verified THEN "verified" ELSE "failed"
  BY <1>1, <1>2 DEF DrillEvidence
<1>4. drill'.attested > 0 \/ drill'.verdict = "verified" => Claimed
  BY <1>3 DEF Claimed
<1>5. restore.step # "done" => asked' = 0
  BY <1>2 DEF RecoveryInv, RestoreOK
<1> QED
  BY <1>1, <1>2, <1>3, <1>4, <1>5, DrillStep

LEMMA AcceptInd == ASSUME RecoveryInv, Accept \/ TrafficGate PROVE RecoveryInv'
<1>1. CASE Accept
  <2> DEFINE verified == EvidenceHolds /\ drill.attested = drill.prepared
  <2>1. verified \in BOOLEAN /\ (verified => drill.attested > 0) /\ Verdict(verified)
    BY <1>1 DEF Accept, EvidenceHolds
  <2> HIDE DEF verified
  <2> QED
    BY <2>1, VerdictIs
<1>2. CASE TrafficGate
  BY <1>2, VerdictIs DEF TrafficGate, EvidenceHolds
<1> QED
  BY <1>1, <1>2

LEMMA AttestInd == ASSUME RecoveryInv, Attest PROVE RecoveryInv'
<1>1. /\ drill \in DrillEvidence /\ asked \in 0..MaxCalls /\ calls \in 0..MaxCalls /\ asked <= calls /\ run \in RecoveryRun
  BY RecoveryRows, PlaneTypes, RecoveryTypes DEF RecoveryInv, RedeletionOK, Attest
<1>2. UNCHANGED <<backupVars, restore, asked, calls, run, point, redone, thread>>
      /\ drill' = [drill EXCEPT !.attested = run.count]
  BY DEF Attest
<1>3. drill' \in DrillEvidence
  BY <1>1, <1>2 DEF DrillEvidence, RecoveryRun
<1>4. Claimed
  BY DEF Attest, Claimed
<1>5. restore.step # "done" => asked' = 0
  BY <1>2 DEF RecoveryInv, RestoreOK
<1> QED
  BY <1>1, <1>2, <1>3, <1>4, <1>5, DrillStep

(* The one run of a restore: whom it takes up it takes up for the first     *)
(* time.                                                                    *)
LEMMA PrepareRun ==
  ASSUME RecoveryInv, Prepare, run = Nothing, Applicable \subseteq Present
  PROVE  RecoveryInv'
<1>1. /\ UNCHANGED <<backupVars, restore, calls, redone, thread>> /\ asked > 0 /\ asked' = asked - 1
      /\ run' = [status |-> IF Applicable = {} THEN "completed" ELSE "queued", count |-> 0]
      /\ point' = [c \in Applicants |-> IF c \in Applicable THEN Prepared(c) ELSE point[c]]
      /\ drill' = IF Applicable = {} THEN [drill EXCEPT !.verdict = "failed"]
                  ELSE [drill EXCEPT !.prepared = Cardinality(Applicable)]
  BY DEF Prepare
<1>2. /\ drill \in DrillEvidence /\ asked \in 0..MaxCalls /\ calls \in 0..MaxCalls /\ asked <= calls /\ MaxCalls \in Nat
      /\ redone \in [Applicants -> Redeletion] /\ thread \in [Applicants -> [Threads -> Thread]]
      /\ restore \in RestoreEvidence /\ point \in [Applicants -> Checkpoint] /\ BackupTypeOK
  BY RecoveryRows, PlaneTypes, RecoveryTypes, PlaneNumbers DEF RecoveryInv, RedeletionOK
<1>3. UNCHANGED <<clock, row, objects, ledger, key, archives, groups, sched, fresh, plan, restore, redone, thread>>
  BY <1>1 DEF backupVars, data, stores
<1>4. /\ asked' \in 0..MaxCalls /\ asked' <= calls
  BY <1>1, <1>2
<1>5. (\A c \in Applicants : Untouched(c)) /\ ~Claimed
  BY DEF RecoveryInv, RedeletionOK
<1>6. Cardinality(Applicable) \in 0..Cardinality(Applicants) /\ 0 \in 0..Cardinality(Applicants)
  BY Fewer DEF Applicable
<1>7. run' \in RecoveryRun /\ run' # Nothing /\ (run'.status = "completed" => Applicable = {})
  BY <1>1, <1>6, PlaneNumbers DEF RecoveryRun
<1>8. drill' \in DrillEvidence /\ drill'.attested = drill.attested /\ drill'.verdict \in {drill.verdict, "failed"}
  BY <1>1, <1>2, <1>6 DEF DrillEvidence
<1>9. ASSUME NEW c \in Applicants
      PROVE  /\ Prepared(c) \in Checkpoint /\ Prepared(c).status = "pending" /\ Prepared(c).target = 1
             /\ Prepared(c).attempts = 0
  <2>1. point[c] \in Checkpoint /\ redone[c].generation = 0 /\ point[c].attempts = 0 /\ 0 + 1 = 1
    BY <1>2, <1>5 DEF Untouched
  <2> DEFINE a == [point[c] EXCEPT !.status = "pending"]
             b == [a EXCEPT !.target = 1]
  <2>2. a \in Checkpoint /\ a.status = "pending" /\ a.attempts = 0
    BY <2>1 DEF Checkpoint
  <2>3. Prepared(c) = [b EXCEPT !.job = "queued"]
    BY <2>1 DEF Prepared
  <2> HIDE DEF a
  <2>4. b \in Checkpoint /\ b.status = "pending" /\ b.attempts = 0 /\ b.target = 1
    BY <2>2 DEF Checkpoint
  <2> HIDE DEF b
  <2> QED
    BY <2>3, <2>4 DEF Checkpoint
<1>10. point' \in [Applicants -> Checkpoint]
  BY <1>1, <1>2, <1>9
<1>11. BackupTypeOK'
  BY <1>2, <1>3, BackupTypes
<1>12. RecoveryTypeOK'
  BY <1>1, <1>2, <1>3, <1>4, <1>7, <1>8, <1>10, <1>11, RecoveryTypes
<1>13. Applicable' = Applicable
  BY <1>3 DEF Applicable
<1>14. ASSUME NEW c \in Applicants, c \in Applicable PROVE PointOK(c)'
  <2>1. point'[c] = Prepared(c)
    BY <1>1, <1>14
  <2>2. /\ redone'[c].generation = 0 /\ redone'[c].file = "none" /\ \A t \in Threads : thread'[c][t] = Idle
    BY <1>3, <1>5 DEF Untouched
  <2>3. \A t \in Threads : ThreadOK(c, t)'
    BY <2>2 DEF ThreadOK, Idle
  <2> QED
    BY <1>9, <2>1, <2>2, <2>3, PlaneNumbers DEF PointOK
<1>15. ASSUME NEW c \in Applicants, c \notin Applicable PROVE Untouched(c)'
  BY <1>1, <1>3, <1>5, <1>15 DEF Untouched
<1>16. Claimed' => Applicable = {}
  BY <1>5, <1>7, <1>8 DEF Claimed
<1>17. RedeletionOK'
  BY <1>1, <1>4, <1>7, <1>13, <1>14, <1>15, <1>16 DEF RedeletionOK
<1>18. restore.step = "done"
  BY <1>1 DEF RecoveryInv, RestoreOK
<1> QED
  BY <1>1, <1>12, <1>17, <1>18, AsideStep

LEMMA PrepareInd == ASSUME RecoveryInv, Prepare PROVE RecoveryInv'
<1>1. CASE run = Nothing /\ Applicable \subseteq Present
  BY <1>1, PrepareRun
<1>2. CASE ~(run = Nothing /\ Applicable \subseteq Present)
  <2>1. /\ UNCHANGED <<backupVars, restore, calls, run, point, redone, thread>> /\ asked > 0 /\ asked' = asked - 1
        /\ drill' = [drill EXCEPT !.verdict = "failed"]
    BY <1>2 DEF Prepare
  <2>2. /\ drill \in DrillEvidence /\ asked \in 0..MaxCalls /\ calls \in 0..MaxCalls /\ asked <= calls /\ MaxCalls \in Nat
    BY RecoveryRows, PlaneTypes, RecoveryTypes, PlaneNumbers DEF RecoveryInv, RedeletionOK
  <2>3. asked' \in 0..MaxCalls /\ asked' <= calls' /\ calls' \in 0..MaxCalls
    BY <2>1, <2>2
  <2>4. drill' \in DrillEvidence /\ drill'.attested = drill.attested /\ drill'.verdict = "failed"
    BY <2>1, <2>2 DEF DrillEvidence
  <2>5. drill'.attested > 0 \/ drill'.verdict = "verified" => Claimed
    BY <2>4 DEF Claimed
  <2>6. restore.step = "done"
    BY <2>1 DEF RecoveryInv, RestoreOK
  <2> QED
    BY <2>1, <2>3, <2>4, <2>5, <2>6, DrillStep
<1> QED
  BY <1>1, <1>2

(* A step of one candidate's job.  u is what its two handlers do next, p,  *)
(* q and x its checkpoint, request and row, files the objects.              *)
HandlersFit(c, u, q, x, files) ==
  \A t \in Threads :
    \/ u[t] = thread[c][t]
    \/ /\ u[t].pc \notin {"idle", "read"} => q.generation = 1
       /\ u[t].pc \in {"mark", "redact"} => c \notin files
       /\ u[t].pc \in {"count", "commit", "end"} => x.kind = "redacted" /\ c \notin files
       /\ u[t].pc = "commit" => u[t].others <= Cardinality(Others(c))

JobFits(c, p, q, x, files) ==
  /\ p.status # "none" /\ p.target = 1 /\ (p.job = "queued" => p.attempts < JobAttempts)
  /\ point[c].status = "completed" => p.status = "completed"
  /\ q.generation \in {0, 1} /\ (redone[c].generation = 1 => q.generation = 1)
  /\ q.file = "deleted" => c \notin files
  /\ p.status = "completed" => x.kind = "redacted" /\ c \notin files /\ q.generation = 1
  /\ row[c].kind = "redacted" => x.kind = "redacted"

LEMMA JobStep ==
  ASSUME RecoveryInv, NEW c \in Applicants, run # Nothing, c \in Applicable,
         NEW p \in Checkpoint, NEW q \in Redeletion, NEW u \in [Threads -> Thread], NEW x \in PersonRow,
         point' = [point EXCEPT ![c] = p], redone' = [redone EXCEPT ![c] = q],
         thread' = [thread EXCEPT ![c] = u], row' = [row EXCEPT ![c] = x],
         objects' = objects \/ objects' = objects \ {c},
         UNCHANGED <<clock, ledger, key, archives, groups, sched, fresh, plan, restore, drill, asked, calls>>,
         run' \in RecoveryRun,
         \/ run'.status # "completed"
         \/ run.status = "completed"
         \/ p.status = "completed" /\ \A d \in Applicable \ {c} : point[d].status = "completed",
         JobFits(c, p, q, x, objects'), HandlersFit(c, u, q, x, objects')
  PROVE  RecoveryInv'
<1>. /\ p.status # "none" /\ p.target = 1 /\ (p.job = "queued" => p.attempts < JobAttempts)
     /\ point[c].status = "completed" => p.status = "completed"
     /\ q.generation \in {0, 1} /\ (redone[c].generation = 1 => q.generation = 1)
     /\ q.file = "deleted" => c \notin objects'
     /\ p.status = "completed" => x.kind = "redacted" /\ c \notin objects' /\ q.generation = 1
     /\ row[c].kind = "redacted" => x.kind = "redacted"
  BY DEF JobFits
<1>1. /\ BackupTypeOK /\ restore.step = "done" /\ restore \in RestoreEvidence /\ drill \in DrillEvidence
      /\ asked \in 0..MaxCalls /\ calls \in 0..MaxCalls /\ asked <= calls
      /\ point \in [Applicants -> Checkpoint] /\ redone \in [Applicants -> Redeletion]
      /\ thread \in [Applicants -> [Threads -> Thread]] /\ row \in [Applicants -> PersonRow]
      /\ objects \in SUBSET Applicants
  BY RecoveryRows, PlaneTypes, RecoveryTypes, BackupTypes DEF RecoveryInv, RedeletionOK
<1>2. /\ \A d \in Applicants : /\ point'[d] = IF d = c THEN p ELSE point[d]
                               /\ redone'[d] = IF d = c THEN q ELSE redone[d]
                               /\ thread'[d] = IF d = c THEN u ELSE thread[d]
                               /\ row'[d] = IF d = c THEN x ELSE row[d]
                               /\ d # c => (d \in objects' <=> d \in objects)
  BY <1>1
<1>3. c \in objects' => c \in objects
  OBVIOUS
<1>4. RecoveryTypeOK'
  <2>1. row' \in [Applicants -> PersonRow] /\ objects' \in SUBSET Applicants
    BY <1>1
  <2>2. BackupTypeOK'
    BY <1>1, <2>1, BackupTypes
  <2>3. /\ point' \in [Applicants -> Checkpoint] /\ redone' \in [Applicants -> Redeletion]
        /\ thread' \in [Applicants -> [Threads -> Thread]]
    BY <1>1
  <2> QED
    BY <1>1, <2>2, <2>3, RecoveryTypes
<1>5. run' # Nothing /\ Applicable' = Applicable
  BY PlaneNumbers DEF Applicable
<1>6. \A d \in Applicants : Clean(d) => Clean(d)'
  BY <1>2, <1>3 DEF Clean
<1>7. \A d \in Applicants : point[d].status = "completed" => point'[d].status = "completed"
  BY <1>2
<1>8. ASSUME NEW d \in Applicants
      PROVE  /\ Cardinality(Others(d)) \in Nat /\ Cardinality(Others(d)') \in Nat
             /\ Cardinality(Others(d)) <= Cardinality(Others(d)')
  <2>1. Others(d)' \in SUBSET Applicants /\ Others(d) \in SUBSET (Others(d)')
    BY <1>7 DEF Others
  <2> QED
    BY <2>1, Fewer
<1>9. RestoreOK'
  BY <1>1, <1>5, <1>6 DEF RecoveryInv, RestoreOK
<1>10. CopiesAgree'
  BY DEF RecoveryInv, CopiesAgree, Archived, Points
<1>11. RedeletionOK
  BY DEF RecoveryInv
<1>12. PointOK(c)
  BY <1>11 DEF RedeletionOK
<1>13. ASSUME NEW t \in Threads PROVE ThreadOK(c, t)'
  <2>1. thread'[c][t] = u[t] /\ redone'[c] = q /\ row'[c] = x
    BY <1>2
  <2>2. ThreadOK(c, t)
    BY <1>12 DEF PointOK
  <2>3. CASE u[t] = thread[c][t]
    <3>1. u[t].pc = "commit" => u[t].others \in Nat /\ u[t].others <= Cardinality(Others(c))
      <4>1. thread[c][t].others \in Nat
        BY <1>1, Fewer DEF Thread
      <4> QED
        BY <2>2, <2>3, <4>1 DEF ThreadOK
    <3>2. u[t].pc = "commit" => u[t].others <= Cardinality(Others(c)')
      BY <1>8, <3>1
    <3> QED
      BY <1>3, <1>6, <2>1, <2>2, <2>3, <3>2 DEF ThreadOK
  <2>4. CASE /\ u[t].pc \notin {"idle", "read"} => q.generation = 1
             /\ u[t].pc \in {"mark", "redact"} => c \notin objects'
             /\ u[t].pc \in {"count", "commit", "end"} => x.kind = "redacted" /\ c \notin objects'
             /\ u[t].pc = "commit" => u[t].others <= Cardinality(Others(c))
    <3>1. u[t].others \in Nat
      BY Fewer DEF Thread
    <3>2. u[t].pc = "commit" => u[t].others <= Cardinality(Others(c)')
      BY <1>8, <2>4, <3>1
    <3> QED
      BY <2>1, <2>4, <3>2 DEF ThreadOK, Clean
  <2> QED
    BY <2>3, <2>4 DEF HandlersFit
<1>14. PointOK(c)'
  BY <1>2, <1>13 DEF PointOK, Clean
<1>15. ASSUME NEW d \in Applicants, d # c, PointOK(d) PROVE PointOK(d)'
  <2>1. ASSUME NEW t \in Threads PROVE ThreadOK(d, t)'
    <3>1. ThreadOK(d, t) /\ thread'[d][t] = thread[d][t] /\ redone'[d] = redone[d]
      BY <1>2, <1>15 DEF PointOK
    <3>2. thread[d][t].others \in Nat
      BY <1>1, Fewer DEF Thread
    <3>3. thread[d][t].pc = "commit" => thread[d][t].others <= Cardinality(Others(d)')
      BY <1>8, <3>1, <3>2 DEF ThreadOK
    <3> QED
      BY <1>2, <1>6, <1>15, <3>1, <3>3 DEF ThreadOK
  <2> QED
    BY <1>2, <1>6, <1>15, <2>1 DEF PointOK
<1>16. ASSUME NEW d \in Applicants, d # c, Untouched(d) PROVE Untouched(d)'
  BY <1>2, <1>16 DEF Untouched
<1>17. ASSUME Claimed' PROVE \A d \in Applicable : point'[d].status = "completed"
  <2>1. CASE Claimed
    BY <1>7, <1>11, <2>1, RecoveryRows DEF RedeletionOK
  <2>2. CASE ~Claimed
    <3>1. p.status = "completed" /\ \A d \in Applicable \ {c} : point[d].status = "completed"
      BY <1>17, <2>2 DEF Claimed
    <3> QED
      BY <1>2, <3>1, RecoveryRows
  <2> QED
    BY <2>1, <2>2
<1>18. ASSUME NEW d \in Applicants PROVE IF run' # Nothing /\ d \in Applicable' THEN PointOK(d)' ELSE Untouched(d)'
  <2>1. CASE d = c
    BY <1>5, <1>14, <2>1
  <2>2. CASE d # c
    <3>1. IF d \in Applicable THEN PointOK(d) ELSE Untouched(d)
      BY <1>11 DEF RedeletionOK
    <3> QED
      BY <1>5, <1>15, <1>16, <2>2, <3>1
  <2> QED
    BY <2>1, <2>2
<1>19. RedeletionOK'
  BY <1>1, <1>5, <1>17, <1>18 DEF RedeletionOK
<1> QED
  BY <1>1, <1>4, <1>9, <1>10, <1>19 DEF RecoveryInv

LEMMA JobFacts ==
  ASSUME RecoveryInv, NEW c \in Applicants, run # Nothing, c \in Applicable
  PROVE  /\ PointOK(c) /\ run \in RecoveryRun /\ BackupTypeOK /\ JobAttempts \in Nat
         /\ point \in [Applicants -> Checkpoint] /\ redone \in [Applicants -> Redeletion]
         /\ thread \in [Applicants -> [Threads -> Thread]] /\ row \in [Applicants -> PersonRow]
         /\ point[c] \in Checkpoint /\ redone[c] \in Redeletion /\ thread[c] \in [Threads -> Thread]
         /\ row[c] \in PersonRow /\ ledger[c] \in LedgerEntry /\ clock \in Times
         /\ \A t \in Threads : ThreadOK(c, t) /\ thread[c][t] \in Thread
<1>1. PointOK(c)
  BY DEF RecoveryInv, RedeletionOK
<1>2. /\ BackupTypeOK /\ point \in [Applicants -> Checkpoint] /\ redone \in [Applicants -> Redeletion]
      /\ thread \in [Applicants -> [Threads -> Thread]] /\ row \in [Applicants -> PersonRow]
      /\ run \in RecoveryRun /\ JobAttempts \in Nat /\ clock \in Times
      /\ ledger \in [Applicants -> LedgerEntry \cup {Nothing}]
  BY PlaneTypes, RecoveryTypes, BackupTypes, PlaneNumbers
<1>3. ledger[c] \in LedgerEntry
  BY <1>2 DEF Applicable
<1>4. \A t \in Threads : ThreadOK(c, t)
  BY <1>1 DEF PointOK
<1> QED
  BY <1>1, <1>2, <1>3, <1>4

(* A job, or a handler that runs, is of a candidate the run has taken up.   *)
LEMMA TakenUp ==
  ASSUME RecoveryInv, NEW c \in Applicants,
         point[c].job # "none" \/ \E t \in Threads : thread[c][t] # Idle
  PROVE  run # Nothing /\ c \in Applicable
<1>1. ~Untouched(c)
  BY DEF Untouched
<1> QED
  BY <1>1 DEF RecoveryInv, RedeletionOK

(* What leaves the candidate and the request alone.                         *)
LEMMA JobAside ==
  ASSUME RecoveryInv, NEW c \in Applicants, run # Nothing, c \in Applicable,
         NEW p \in Checkpoint, NEW u \in [Threads -> Thread],
         point' = [point EXCEPT ![c] = p], thread' = [thread EXCEPT ![c] = u],
         UNCHANGED <<backupVars, planeVars, redone>>,
         run' \in RecoveryRun, run'.status = "completed" => run.status = "completed",
         p.status # "none", p.target = 1, p.job = "queued" => p.attempts < JobAttempts,
         p.status = "completed" <=> point[c].status = "completed",
         HandlersFit(c, u, redone[c], row[c], objects)
  PROVE  RecoveryInv'
<1>1. UNCHANGED <<clock, row, objects, ledger, key, archives, groups, sched, fresh, plan, restore, drill, asked, calls, redone>>
  BY DEF backupVars, planeVars, data, stores
<1>2. /\ redone \in [Applicants -> Redeletion] /\ row \in [Applicants -> PersonRow] /\ redone[c] \in Redeletion
      /\ row[c] \in PersonRow /\ PointOK(c)
  BY JobFacts
<1>3. JobFits(c, p, redone[c], row[c], objects')
  BY <1>1, <1>2 DEF PointOK, Clean, JobFits
<1>4. HandlersFit(c, u, redone[c], row[c], objects')
  BY <1>1 DEF HandlersFit
<1>5. redone' = [redone EXCEPT ![c] = redone[c]] /\ row' = [row EXCEPT ![c] = row[c]] /\ objects' = objects
  BY <1>1, <1>2
<1> QED
  BY <1>1, <1>2, <1>3, <1>4, <1>5, JobStep

(* A handler does something next, or ends.                                  *)
LEMMA HandlerMoves ==
  ASSUME RecoveryInv, NEW c \in Applicants, run # Nothing, c \in Applicable, NEW t \in Threads, NEW h \in Thread
  PROVE  /\ [thread[c] EXCEPT ![t] = h] \in [Threads -> Thread]
         /\ [thread EXCEPT ![c][t] = h] = [thread EXCEPT ![c] = [thread[c] EXCEPT ![t] = h]]
         /\ \A q, x, files :
              /\ h.pc \notin {"idle", "read"} => q.generation = 1
              /\ h.pc \in {"mark", "redact"} => c \notin files
              /\ h.pc \in {"count", "commit", "end"} => x.kind = "redacted" /\ c \notin files
              /\ h.pc = "commit" => h.others <= Cardinality(Others(c))
              => HandlersFit(c, [thread[c] EXCEPT ![t] = h], q, x, files)
<1>1. thread[c] \in [Threads -> Thread] /\ thread \in [Applicants -> [Threads -> Thread]]
  BY JobFacts
<1>2. \A s \in Threads : [thread[c] EXCEPT ![t] = h][s] = IF s = t THEN h ELSE thread[c][s]
  BY <1>1
<1> QED
  BY <1>1, <1>2 DEF HandlersFit

LEMMA IdleIs ==
  /\ Idle \in Thread /\ Idle.pc = "idle"
  /\ \A pc \in {"idle", "read", "remove", "mark", "redact", "count", "commit", "end"} :
       [pc |-> pc, others |-> 0] \in Thread
<1>1. 0 \in 0..Cardinality(Applicants)
  BY Fewer
<1> QED
  BY <1>1 DEF Idle, Thread

(* What the queue makes of an attempt that ended.                           *)
LEMMA QueueIs ==
  ASSUME RecoveryInv, NEW c \in Applicants, run # Nothing, c \in Applicable,
         \/ Retried(c)
         \/ Finalized(c)
         \/ UNCHANGED <<point, run>>
         \/ point' = [point EXCEPT ![c].job = "done", ![c].owner = Nothing] /\ UNCHANGED run
  PROVE  /\ run' \in RecoveryRun /\ (run'.status = "completed" => run.status = "completed")
         /\ \E p \in Checkpoint :
              /\ point' = [point EXCEPT ![c] = p] /\ p.status # "none" /\ p.target = 1
              /\ p.job = "queued" => p.attempts < JobAttempts
              /\ p.status = "completed" <=> point[c].status = "completed"
<1>1. /\ point \in [Applicants -> Checkpoint] /\ point[c] \in Checkpoint /\ run \in RecoveryRun
      /\ point[c].status # "none" /\ point[c].target = 1 /\ (point[c].job = "queued" => point[c].attempts < JobAttempts)
  BY JobFacts DEF PointOK
<1>2. ASSUME NEW job \in {"queued", "leased", "done", "dead"}
      PROVE  /\ [[point[c] EXCEPT !.job = job] EXCEPT !.owner = Nothing] \in Checkpoint
             /\ [[point[c] EXCEPT !.job = job] EXCEPT !.owner = Nothing].status = point[c].status
             /\ [[point[c] EXCEPT !.job = job] EXCEPT !.owner = Nothing].target = 1
             /\ [[point[c] EXCEPT !.job = job] EXCEPT !.owner = Nothing].job = job
             /\ [[point[c] EXCEPT !.job = job] EXCEPT !.owner = Nothing].attempts = point[c].attempts
  <2> DEFINE a == [point[c] EXCEPT !.job = job]
  <2>1. a \in Checkpoint /\ a.status = point[c].status /\ a.target = 1 /\ a.job = job /\ a.attempts = point[c].attempts
    BY <1>1 DEF Checkpoint
  <2> HIDE DEF a
  <2>2. /\ [a EXCEPT !.owner = Nothing] \in Checkpoint /\ [a EXCEPT !.owner = Nothing].status = point[c].status
        /\ [a EXCEPT !.owner = Nothing].target = 1 /\ [a EXCEPT !.owner = Nothing].job = job
        /\ [a EXCEPT !.owner = Nothing].attempts = point[c].attempts
    BY <2>1 DEF Checkpoint
  <2> QED
    BY <2>2 DEF a
<1>3. CASE UNCHANGED <<point, run>>
  <2>1. point' = [point EXCEPT ![c] = point[c]]
    BY <1>1, <1>3
  <2> QED
    BY <1>1, <1>3, <2>1
<1>4. CASE point' = [point EXCEPT ![c].job = "done", ![c].owner = Nothing] /\ UNCHANGED run
  <2> DEFINE p == [[point[c] EXCEPT !.job = "done"] EXCEPT !.owner = Nothing]
  <2>1. point' = [point EXCEPT ![c] = p]
    BY <1>1, <1>4
  <2>2. p \in Checkpoint /\ p.status = point[c].status /\ p.target = 1 /\ p.job = "done"
    BY <1>2
  <2> HIDE DEF p
  <2> QED
    BY <1>1, <1>4, <2>1, <2>2
<1>5. CASE point[c].attempts < JobAttempts /\ point' = [point EXCEPT ![c].job = "queued", ![c].owner = Nothing] /\ UNCHANGED run
  <2> DEFINE p == [[point[c] EXCEPT !.job = "queued"] EXCEPT !.owner = Nothing]
  <2>1. point' = [point EXCEPT ![c] = p]
    BY <1>1, <1>5
  <2>2. p \in Checkpoint /\ p.status = point[c].status /\ p.target = 1 /\ p.job = "queued" /\ p.attempts = point[c].attempts
    BY <1>2
  <2> HIDE DEF p
  <2> QED
    BY <1>1, <1>5, <2>1, <2>2
<1>6. CASE Finalized(c)
  <2> DEFINE b == [[point[c] EXCEPT !.job = "dead"] EXCEPT !.owner = Nothing]
             st == IF point[c].status # "completed" THEN "failed" ELSE point[c].status
             p == [b EXCEPT !.status = st]
  <2>1. b \in Checkpoint /\ b.status = point[c].status /\ b.target = 1 /\ b.job = "dead"
    BY <1>2
  <2>2. point' = [point EXCEPT ![c] = p]
    BY <1>1, <1>6 DEF Finalized
  <2>3. st \in {"none", "pending", "running", "completed", "failed"} /\ st # "none"
        /\ (st = "completed" <=> point[c].status = "completed")
    BY <1>1 DEF Checkpoint
  <2>4. run' = run \/ run' = [run EXCEPT !.status = "failed"]
    BY <1>6 DEF Finalized
  <2>5. run' \in RecoveryRun /\ (run'.status = "completed" => run.status = "completed")
    BY <1>1, <2>4 DEF RecoveryRun
  <2> HIDE DEF b, st
  <2>6. p \in Checkpoint /\ p.status = st /\ p.target = 1 /\ p.job = "dead"
    BY <2>1, <2>3 DEF Checkpoint
  <2> HIDE DEF p
  <2> QED
    BY <2>2, <2>3, <2>5, <2>6
<1> QED
  BY <1>3, <1>4, <1>5, <1>6 DEF Retried

LEMMA ClaimAgainInd ==
  ASSUME RecoveryInv, NEW c \in Applicants, NEW t \in Threads, Claim(c, t)
  PROVE  RecoveryInv'
<1>1. run # Nothing /\ c \in Applicable
  BY TakenUp DEF Claim
<1>2. /\ PointOK(c) /\ run \in RecoveryRun /\ JobAttempts \in Nat /\ point \in [Applicants -> Checkpoint]
      /\ thread \in [Applicants -> [Threads -> Thread]] /\ point[c] \in Checkpoint /\ t \in {1, 2}
  BY <1>1, JobFacts DEF Threads
<1> DEFINE a == [point[c] EXCEPT !.job = "leased"]
           b == [a EXCEPT !.owner = t]
           p == [b EXCEPT !.attempts = point[c].attempts + 1]
           h == [pc |-> "read", others |-> 0]
           u == [thread[c] EXCEPT ![t] = h]
<1>3. point' = [point EXCEPT ![c] = p]
  BY <1>2 DEF Claim
<1>4. thread' = [thread EXCEPT ![c] = u]
  <2>1. [Idle EXCEPT !.pc = "read"] = h
    BY DEF Idle
  <2>2. thread' = [thread EXCEPT ![c] = [thread[c] EXCEPT ![t] = [thread[c][t] EXCEPT !.pc = "read"]]]
    BY <1>2 DEF Claim
  <2>3. thread[c][t] = Idle
    BY DEF Claim
  <2> HIDE DEF h
  <2> QED
    BY <2>1, <2>2, <2>3
<1>5. a \in Checkpoint /\ a.status = point[c].status /\ a.target = 1 /\ a.job = "leased" /\ a.attempts = point[c].attempts
  BY <1>2 DEF Checkpoint, PointOK
<1> HIDE DEF a
<1>6. /\ b \in Checkpoint /\ b.status = point[c].status /\ b.target = 1 /\ b.job = "leased"
      /\ b.attempts = point[c].attempts
  BY <1>2, <1>5 DEF Checkpoint, Threads
<1> HIDE DEF b
<1>7. point[c].attempts + 1 \in 0..JobAttempts
  <2>1. point[c].attempts < JobAttempts /\ point[c].attempts \in 0..JobAttempts
    BY <1>2 DEF PointOK, Claim, Checkpoint
  <2> QED
    BY <1>2, <2>1
<1>8. p \in Checkpoint /\ p.status = point[c].status /\ p.target = 1 /\ p.job = "leased"
  BY <1>6, <1>7 DEF Checkpoint
<1>9. h \in Thread /\ h.pc = "read"
  BY IdleIs
<1> HIDE DEF p, h
<1>10. u \in [Threads -> Thread] /\ HandlersFit(c, u, redone[c], row[c], objects)
  BY <1>1, <1>9, HandlerMoves
<1>11. UNCHANGED <<backupVars, planeVars, redone>> /\ UNCHANGED run
  BY DEF Claim
<1>12. p.status # "none"
  BY <1>2, <1>8 DEF PointOK
<1> HIDE DEF u
<1> QED
  BY <1>1, <1>2, <1>3, <1>4, <1>8, <1>10, <1>11, <1>12, JobAside

LEMMA LoseLeaseInd ==
  ASSUME RecoveryInv, NEW c \in Applicants, LoseLease(c)
  PROVE  RecoveryInv'
<1>1. run # Nothing /\ c \in Applicable
  BY TakenUp DEF LoseLease
<1>2. thread \in [Applicants -> [Threads -> Thread]] /\ thread[c] \in [Threads -> Thread]
  BY <1>1, JobFacts
<1>3. Retried(c) /\ UNCHANGED <<backupVars, planeVars, redone>> /\ UNCHANGED thread
  BY DEF LoseLease
<1>4. /\ run' \in RecoveryRun /\ (run'.status = "completed" => run.status = "completed")
      /\ \E p \in Checkpoint :
           /\ point' = [point EXCEPT ![c] = p] /\ p.status # "none" /\ p.target = 1
           /\ p.job = "queued" => p.attempts < JobAttempts
           /\ p.status = "completed" <=> point[c].status = "completed"
  BY <1>1, <1>3, QueueIs
<1>5. PICK p \in Checkpoint :
           /\ point' = [point EXCEPT ![c] = p] /\ p.status # "none" /\ p.target = 1
           /\ p.job = "queued" => p.attempts < JobAttempts
           /\ p.status = "completed" <=> point[c].status = "completed"
  BY <1>4
<1>6. thread' = [thread EXCEPT ![c] = thread[c]]
  BY <1>2, <1>3
<1>7. HandlersFit(c, thread[c], redone[c], row[c], objects)
  BY DEF HandlersFit
<1> QED
  BY <1>1, <1>2, <1>3, <1>4, <1>5, <1>6, <1>7, JobAside

(* An attempt that ended, whatever came of it.                              *)
LEMMA EndAttemptInd ==
  ASSUME RecoveryInv, NEW c \in Applicants, NEW t \in Threads,
         thread[c][t] # Idle, NEW outcome \in {"retry", "fail", "done"}, EndAttempt(c, t, outcome)
  PROVE  RecoveryInv'
<1>1. run # Nothing /\ c \in Applicable
  BY TakenUp
<1>2. /\ thread' = [thread EXCEPT ![c][t] = Idle] /\ UNCHANGED <<backupVars, planeVars, redone>>
      /\ \/ Retried(c)
         \/ Finalized(c)
         \/ UNCHANGED <<point, run>>
         \/ point' = [point EXCEPT ![c].job = "done", ![c].owner = Nothing] /\ UNCHANGED run
  BY DEF EndAttempt
<1>4. /\ run' \in RecoveryRun /\ (run'.status = "completed" => run.status = "completed")
      /\ \E p \in Checkpoint :
           /\ point' = [point EXCEPT ![c] = p] /\ p.status # "none" /\ p.target = 1
           /\ p.job = "queued" => p.attempts < JobAttempts
           /\ p.status = "completed" <=> point[c].status = "completed"
  BY <1>1, <1>2, QueueIs
<1>5. PICK p \in Checkpoint :
           /\ point' = [point EXCEPT ![c] = p] /\ p.status # "none" /\ p.target = 1
           /\ p.job = "queued" => p.attempts < JobAttempts
           /\ p.status = "completed" <=> point[c].status = "completed"
  BY <1>4
<1> DEFINE u == [thread[c] EXCEPT ![t] = Idle]
<1>6. Idle \in Thread /\ Idle.pc = "idle"
  BY IdleIs
<1>7. u \in [Threads -> Thread] /\ HandlersFit(c, u, redone[c], row[c], objects)
  BY <1>1, <1>6, HandlerMoves
<1>8. thread' = [thread EXCEPT ![c] = u]
  BY <1>1, <1>2, <1>6, HandlerMoves
<1> HIDE DEF u
<1> QED
  BY <1>1, <1>2, <1>4, <1>5, <1>7, <1>8, JobAside

LEMMA DieInd ==
  ASSUME RecoveryInv, NEW c \in Applicants, NEW t \in Threads, Die(c, t)
  PROVE  RecoveryInv'
<1>1. /\ thread[c][t] # Idle /\ thread' = [thread EXCEPT ![c][t] = Idle]
      /\ UNCHANGED <<backupVars, planeVars, redone>> /\ UNCHANGED <<point, run>>
  BY DEF Die
<1>2. run # Nothing /\ c \in Applicable
  BY <1>1, TakenUp
<1>3. /\ run \in RecoveryRun /\ point \in [Applicants -> Checkpoint] /\ point[c] \in Checkpoint /\ PointOK(c)
  BY <1>2, JobFacts
<1>4. point' = [point EXCEPT ![c] = point[c]]
  BY <1>1, <1>3
<1> DEFINE u == [thread[c] EXCEPT ![t] = Idle]
<1>6. Idle \in Thread /\ Idle.pc = "idle"
  BY IdleIs
<1>7. u \in [Threads -> Thread] /\ HandlersFit(c, u, redone[c], row[c], objects)
  BY <1>2, <1>6, HandlerMoves
<1>8. thread' = [thread EXCEPT ![c] = u]
  BY <1>1, <1>2, <1>6, HandlerMoves
<1>9. /\ point[c].status # "none" /\ point[c].target = 1
      /\ point[c].job = "queued" => point[c].attempts < JobAttempts
  BY <1>3 DEF PointOK
<1> HIDE DEF u
<1> QED
  BY <1>1, <1>2, <1>3, <1>4, <1>7, <1>8, <1>9, JobAside

LEMMA RedeletionBeginInd ==
  ASSUME RecoveryInv, NEW c \in Applicants, NEW t \in Threads, BeginDeletion(c, t)
  PROVE  RecoveryInv'
<1>1. thread[c][t].pc = "read" /\ thread[c][t] # Idle
  BY IdleIs DEF BeginDeletion
<1>2. CASE EndAttempt(c, t, "done")
  BY <1>1, <1>2, EndAttemptInd
<1>3. CASE ~ EndAttempt(c, t, "done")
  <2>1. /\ point[c].status # "completed"
        /\ redone' = [redone EXCEPT ![c] = Rewritten(c)] /\ point' = [point EXCEPT ![c].status = "running"]
        /\ run' = [run EXCEPT !.status = "running"]
        /\ thread' = [thread EXCEPT ![c][t] = [pc |-> "remove", others |-> 0]]
        /\ UNCHANGED <<backupVars, planeVars>>
    BY <1>3 DEF BeginDeletion, Go
  <2>2. run # Nothing /\ c \in Applicable
    BY <1>1, TakenUp
  <2>3. /\ PointOK(c) /\ run \in RecoveryRun /\ point \in [Applicants -> Checkpoint] /\ point[c] \in Checkpoint
        /\ redone[c] \in Redeletion /\ row \in [Applicants -> PersonRow] /\ row[c] \in PersonRow
    BY <2>2, JobFacts
  <2> DEFINE p == [point[c] EXCEPT !.status = "running"]
             q == Rewritten(c)
             h == [pc |-> "remove", others |-> 0]
             u == [thread[c] EXCEPT ![t] = h]
  <2>4. /\ p \in Checkpoint /\ p.status = "running" /\ p.target = 1
        /\ p.job = point[c].job /\ p.attempts = point[c].attempts
    BY <2>3 DEF Checkpoint, PointOK
  <2>5. point' = [point EXCEPT ![c] = p]
    BY <2>1, <2>3
  <2>6. run' \in RecoveryRun /\ run'.status = "running"
    BY <2>1, <2>3 DEF RecoveryRun
  <2>7. q \in Redeletion /\ q.generation = 1 /\ (q.file = "deleted" => c \notin objects)
    <3>1. point[c].target = 1 /\ (redone[c].file = "deleted" => c \notin objects)
      BY <2>3 DEF PointOK
    <3>2. CASE Resumable(c)
      BY <2>3, <3>1, <3>2 DEF Rewritten, Resumable
    <3>3. CASE ~ Resumable(c)
      <4>1. q = [status |-> "executing", generation |-> 1, file |-> "pending"]
        BY <3>1, <3>3 DEF Rewritten
      <4> QED
        BY <4>1 DEF Redeletion
    <3> QED
      BY <3>2, <3>3
  <2>8. h \in Thread /\ h.pc = "remove"
    BY IdleIs
  <2>9. UNCHANGED <<clock, row, objects, ledger, key, archives, groups, sched, fresh, plan, restore, drill, asked, calls>>
    BY <2>1 DEF backupVars, planeVars, data, stores
  <2>10. redone' = [redone EXCEPT ![c] = q] /\ row' = [row EXCEPT ![c] = row[c]] /\ objects' = objects
    BY <2>1, <2>3, <2>9
  <2> HIDE DEF p, q, h
  <2>11. u \in [Threads -> Thread] /\ HandlersFit(c, u, q, row[c], objects')
    BY <2>2, <2>7, <2>8, HandlerMoves
  <2>12. thread' = [thread EXCEPT ![c] = u]
    BY <2>1, <2>2, <2>8, HandlerMoves DEF h
  <2>13. JobFits(c, p, q, row[c], objects')
    BY <2>1, <2>3, <2>4, <2>7, <2>10 DEF JobFits, PointOK
  <2> HIDE DEF u
  <2> QED
    BY <2>2, <2>3, <2>4, <2>5, <2>6, <2>7, <2>9, <2>10, <2>11, <2>12, <2>13, JobStep
<1> QED
  BY <1>2, <1>3

LEMMA RemoveFileInd ==
  ASSUME RecoveryInv, NEW c \in Applicants, NEW t \in Threads, RemoveFile(c, t)
  PROVE  RecoveryInv'
<1>1. thread[c][t].pc = "remove" /\ thread[c][t] # Idle
  BY IdleIs DEF RemoveFile
<1>2. run # Nothing /\ c \in Applicable
  BY <1>1, TakenUp
<1>3. /\ PointOK(c) /\ run \in RecoveryRun /\ point \in [Applicants -> Checkpoint] /\ point[c] \in Checkpoint
      /\ redone \in [Applicants -> Redeletion] /\ redone[c] \in Redeletion
      /\ row \in [Applicants -> PersonRow] /\ row[c] \in PersonRow /\ ThreadOK(c, t)
  BY <1>2, JobFacts
<1>4. /\ UNCHANGED <<clock, row, ledger, key, archives, groups, sched, fresh, plan, restore, drill, asked, calls>>
      /\ UNCHANGED <<run, point, redone>>
      /\ objects' = objects \/ objects' = objects \ {c}
  BY DEF RemoveFile, planeVars, stores
<1>5. PICK pc \in {"mark", "redact"} :
        /\ c \notin objects' /\ thread' = [thread EXCEPT ![c][t] = [pc |-> pc, others |-> 0]]
  BY <1>3 DEF RemoveFile, Go, PointOK
<1> DEFINE h == [pc |-> pc, others |-> 0]
           u == [thread[c] EXCEPT ![t] = h]
<1>6. h \in Thread /\ h.pc = pc
  BY <1>5, IdleIs
<1>7. redone[c].generation = 1
  BY <1>1, <1>3 DEF ThreadOK
<1> HIDE DEF h
<1>8. u \in [Threads -> Thread] /\ HandlersFit(c, u, redone[c], row[c], objects')
  BY <1>2, <1>5, <1>6, <1>7, HandlerMoves
<1>9. thread' = [thread EXCEPT ![c] = u]
  BY <1>2, <1>5, <1>6, HandlerMoves DEF h
<1>10. JobFits(c, point[c], redone[c], row[c], objects')
  BY <1>3, <1>4 DEF JobFits, PointOK, Clean
<1>11. /\ point' = [point EXCEPT ![c] = point[c]] /\ redone' = [redone EXCEPT ![c] = redone[c]]
       /\ row' = [row EXCEPT ![c] = row[c]]
  BY <1>3, <1>4
<1>12. run' \in RecoveryRun /\ (run'.status # "completed" \/ run.status = "completed")
  BY <1>3, <1>4
<1> HIDE DEF u
<1> QED
  BY <1>2, <1>3, <1>4, <1>8, <1>9, <1>10, <1>11, <1>12, JobStep

LEMMA MarkDeletedInd ==
  ASSUME RecoveryInv, NEW c \in Applicants, NEW t \in Threads, MarkDeleted(c, t)
  PROVE  RecoveryInv'
<1>1. thread[c][t].pc = "mark" /\ thread[c][t] # Idle
  BY IdleIs DEF MarkDeleted
<1>2. run # Nothing /\ c \in Applicable
  BY <1>1, TakenUp
<1>3. /\ PointOK(c) /\ run \in RecoveryRun /\ point \in [Applicants -> Checkpoint] /\ point[c] \in Checkpoint
      /\ redone \in [Applicants -> Redeletion] /\ redone[c] \in Redeletion
      /\ row \in [Applicants -> PersonRow] /\ row[c] \in PersonRow /\ ThreadOK(c, t)
  BY <1>2, JobFacts
<1>4. /\ UNCHANGED <<clock, row, objects, ledger, key, archives, groups, sched, fresh, plan, restore, drill, asked, calls>>
      /\ UNCHANGED <<run, point>> /\ redone' = [redone EXCEPT ![c].file = "deleted"]
      /\ thread' = [thread EXCEPT ![c][t] = [pc |-> "redact", others |-> 0]]
  BY DEF MarkDeleted, Go, planeVars, backupVars, data, stores
<1> DEFINE q == [redone[c] EXCEPT !.file = "deleted"]
           h == [pc |-> "redact", others |-> 0]
           u == [thread[c] EXCEPT ![t] = h]
<1>5. redone[c].generation = 1 /\ c \notin objects
  BY <1>1, <1>3 DEF ThreadOK
<1>6. q \in Redeletion /\ q.generation = 1
  BY <1>3, <1>5 DEF Redeletion
<1>7. h \in Thread /\ h.pc = "redact"
  BY IdleIs
<1>8. redone' = [redone EXCEPT ![c] = q]
  BY <1>3, <1>4
<1> HIDE DEF h, q
<1>9. u \in [Threads -> Thread] /\ HandlersFit(c, u, q, row[c], objects')
  BY <1>2, <1>4, <1>5, <1>6, <1>7, HandlerMoves
<1>10. thread' = [thread EXCEPT ![c] = u]
  BY <1>2, <1>4, <1>7, HandlerMoves DEF h
<1>11. JobFits(c, point[c], q, row[c], objects')
  BY <1>3, <1>4, <1>5, <1>6 DEF JobFits, PointOK, Clean
<1>12. /\ point' = [point EXCEPT ![c] = point[c]] /\ row' = [row EXCEPT ![c] = row[c]]
  BY <1>3, <1>4
<1>13. run' \in RecoveryRun /\ (run'.status # "completed" \/ run.status = "completed")
  BY <1>3, <1>4
<1> HIDE DEF u
<1> QED
  BY <1>2, <1>3, <1>4, <1>6, <1>8, <1>9, <1>10, <1>11, <1>12, <1>13, JobStep

LEMMA RedactAgainInd ==
  ASSUME RecoveryInv, NEW c \in Applicants, NEW t \in Threads, RedactAgain(c, t)
  PROVE  RecoveryInv'
<1>1. thread[c][t].pc = "redact" /\ thread[c][t] # Idle
  BY IdleIs DEF RedactAgain
<1>2. CASE EndAttempt(c, t, "fail")
  BY <1>1, <1>2, EndAttemptInd
<1>3. CASE ~ EndAttempt(c, t, "fail")
  <2>1. /\ Redactable(c) /\ row' = [row EXCEPT ![c] = Redacted(row[c], ledger[c].approved, clock)]
        /\ thread' = [thread EXCEPT ![c][t] = [pc |-> "count", others |-> 0]]
        /\ UNCHANGED <<clock, objects, ledger, key, archives, groups, sched, fresh, plan, restore, drill, asked, calls>>
        /\ UNCHANGED <<run, point, redone>>
    BY <1>3 DEF RedactAgain, Go, planeVars, stores
  <2>2. run # Nothing /\ c \in Applicable
    BY <1>1, TakenUp
  <2>3. /\ PointOK(c) /\ run \in RecoveryRun /\ point \in [Applicants -> Checkpoint] /\ point[c] \in Checkpoint
        /\ redone \in [Applicants -> Redeletion] /\ redone[c] \in Redeletion
        /\ row[c] \in PersonRow /\ ThreadOK(c, t) /\ ledger[c] \in LedgerEntry /\ clock \in Times
    BY <2>2, JobFacts
  <2>4. redone[c].generation = 1 /\ c \notin objects
    BY <1>1, <2>3 DEF ThreadOK
  <2> DEFINE x == Redacted(row[c], ledger[c].approved, clock)
             h == [pc |-> "count", others |-> 0]
             u == [thread[c] EXCEPT ![t] = h]
  <2>5. x \in PersonRow /\ x.kind = "redacted"
    <3>1. CASE row[c].kind = "redacted"
      BY <2>3, <3>1 DEF Redacted
    <3>2. CASE row[c].kind # "redacted"
      <4> DEFINE a == [row[c] EXCEPT !.kind = "redacted"]
                 b == [a EXCEPT !.version = row[c].version + 1]
                 d == [b EXCEPT !.approved = ledger[c].approved]
                 e == [d EXCEPT !.at = clock]
      <4>1. x = e
        BY <2>3, <3>2 DEF Redacted
      <4>2. ledger[c].approved \in 1..2 /\ row[c].version = ledger[c].approved
        BY <2>1, <2>3, <3>2 DEF Redactable, LedgerEntry
      <4>3. row[c].version + 1 \in 1..3
        BY <4>2
      <4>4. a \in PersonRow /\ a.kind = "redacted"
        BY <2>3 DEF PersonRow
      <4> HIDE DEF a
      <4>5. b \in PersonRow /\ b.kind = "redacted"
        BY <4>3, <4>4 DEF PersonRow
      <4> HIDE DEF b
      <4>6. d \in PersonRow /\ d.kind = "redacted"
        BY <4>2, <4>5 DEF PersonRow
      <4> HIDE DEF d
      <4>7. e \in PersonRow /\ e.kind = "redacted"
        BY <2>3, <4>6 DEF PersonRow
      <4> QED
        BY <4>1, <4>7
    <3> QED
      BY <3>1, <3>2
  <2>6. row' = [row EXCEPT ![c] = x]
    BY <2>1
  <2>7. h \in Thread /\ h.pc = "count"
    BY IdleIs
  <2> HIDE DEF h, x
  <2>9. u \in [Threads -> Thread] /\ HandlersFit(c, u, redone[c], x, objects')
    BY <2>1, <2>2, <2>4, <2>5, <2>7, HandlerMoves
  <2>10. thread' = [thread EXCEPT ![c] = u]
    BY <2>1, <2>2, <2>7, HandlerMoves DEF h
  <2>11. JobFits(c, point[c], redone[c], x, objects')
    BY <2>1, <2>3, <2>4, <2>5 DEF JobFits, PointOK
  <2>12. point' = [point EXCEPT ![c] = point[c]] /\ redone' = [redone EXCEPT ![c] = redone[c]]
    BY <2>1, <2>3
  <2>13. run' \in RecoveryRun /\ (run'.status # "completed" \/ run.status = "completed")
    BY <2>1, <2>3
  <2> HIDE DEF u
  <2> QED
    BY <2>1, <2>2, <2>3, <2>5, <2>6, <2>9, <2>10, <2>11, <2>12, <2>13, JobStep
<1> QED
  BY <1>2, <1>3

LEMMA CountInd ==
  ASSUME RecoveryInv, NEW c \in Applicants, NEW t \in Threads, Count(c, t)
  PROVE  RecoveryInv'
<1>1. thread[c][t].pc = "count" /\ thread[c][t] # Idle
  BY IdleIs DEF Count
<1>2. run # Nothing /\ c \in Applicable
  BY <1>1, TakenUp
<1>3. /\ PointOK(c) /\ run \in RecoveryRun /\ point \in [Applicants -> Checkpoint] /\ point[c] \in Checkpoint
      /\ ThreadOK(c, t)
  BY <1>2, JobFacts
<1> DEFINE h == [pc |-> "commit", others |-> Cardinality(Others(c))]
           u == [thread[c] EXCEPT ![t] = h]
<1>4. /\ UNCHANGED <<backupVars, planeVars, redone>> /\ UNCHANGED <<run, point>>
      /\ thread' = [thread EXCEPT ![c][t] = h]
  BY DEF Count, Others
<1>5. redone[c].generation = 1 /\ row[c].kind = "redacted" /\ c \notin objects
  BY <1>1, <1>3 DEF ThreadOK, Clean
<1>6. Cardinality(Others(c)) \in Nat /\ Cardinality(Others(c)) \in 0..Cardinality(Applicants)
  <2>1. Others(c) \in SUBSET Applicants
    BY DEF Others
  <2> QED
    BY <2>1, Fewer
<1>7. h \in Thread /\ h.pc = "commit" /\ h.others <= Cardinality(Others(c))
  BY <1>6 DEF Thread
<1> HIDE DEF h
<1>8. u \in [Threads -> Thread] /\ HandlersFit(c, u, redone[c], row[c], objects)
  BY <1>2, <1>5, <1>7, HandlerMoves
<1>9. thread' = [thread EXCEPT ![c] = u]
  BY <1>2, <1>4, <1>7, HandlerMoves
<1>10. point' = [point EXCEPT ![c] = point[c]]
  BY <1>3, <1>4
<1>11. /\ point[c].status # "none" /\ point[c].target = 1
       /\ point[c].job = "queued" => point[c].attempts < JobAttempts
  BY <1>3 DEF PointOK
<1> HIDE DEF u
<1> QED
  BY <1>2, <1>3, <1>4, <1>8, <1>9, <1>10, <1>11, JobAside

(* The completed checkpoints are all there are when their number is the     *)
(* number of those prepared, which is the number of the applicable ones.    *)
LEMMA AllCompleted ==
  ASSUME RecoveryInv, NEW c \in Applicants, run # Nothing, c \in Applicable,
         NEW n \in Nat, n <= Cardinality(Others(c))
  PROVE  /\ n + 1 \in 0..Cardinality(Applicants)
         /\ n + 1 = Total => \A d \in Applicable \ {c} : point[d].status = "completed"
<1>1. \A d \in Applicants : point[d].status # "none" <=> d \in Applicable
  BY DEF RecoveryInv, RedeletionOK, PointOK, Untouched
<1>2. Applicable \in SUBSET Applicants /\ Others(c) \in SUBSET (Applicable \ {c})
  BY <1>1, RecoveryRows DEF Others
<1>3. {d \in Applicants : point[d].status # "none"} = Applicable
  BY <1>1, <1>2
<1>4. Total = Cardinality(Applicable)
  BY <1>3 DEF Total
<1>5. IsFiniteSet(Applicable) /\ Cardinality(Applicable) <= Cardinality(Applicants)
  BY <1>2, PlaneNumbers, FS_Subset
<1>6. IsFiniteSet(Applicable \ {c}) /\ Cardinality(Applicable \ {c}) = Cardinality(Applicable) - 1
  BY <1>5, FS_RemoveElement
<1>7. IsFiniteSet(Others(c)) /\ Cardinality(Others(c)) <= Cardinality(Applicable \ {c})
  BY <1>2, <1>6, FS_Subset
<1>8. Cardinality(Applicable) = Cardinality(Others(c)) + 1 => Applicable \ {c} = Others(c)
  <2>1. Cardinality(Applicable \ {c}) = Cardinality(Others(c)) => Applicable \ {c} = Others(c)
    BY <1>2, <1>6, FS_Subset
  <2>2. Cardinality(Others(c)) \in Nat /\ Cardinality(Applicable) \in Nat
    BY <1>5, <1>7, FS_CardinalityType
  <2> QED
    BY <1>6, <2>1, <2>2
<1>9. Cardinality(Others(c)) \in Nat /\ Cardinality(Applicable) \in Nat /\ Cardinality(Applicants) \in Nat
  BY <1>5, <1>7, PlaneNumbers, FS_CardinalityType
<1>10. n <= Cardinality(Others(c)) /\ Cardinality(Applicants) = Cardinality(Applicants)
  OBVIOUS
<1>11. n + 1 \in 0..Cardinality(Applicants)
  BY <1>5, <1>6, <1>7, <1>9, <1>10
<1>12. n + 1 = Total => Applicable \ {c} = Others(c)
  BY <1>4, <1>6, <1>7, <1>8, <1>9, <1>10
<1> QED
  BY <1>10, <1>11, <1>12 DEF Others

LEMMA CompleteInd ==
  ASSUME RecoveryInv, NEW c \in Applicants, NEW t \in Threads, Complete(c, t)
  PROVE  RecoveryInv'
<1>1. thread[c][t].pc = "commit" /\ thread[c][t] # Idle
  BY IdleIs DEF Complete
<1>2. run # Nothing /\ c \in Applicable
  BY <1>1, TakenUp
<1>3. /\ PointOK(c) /\ run \in RecoveryRun /\ point \in [Applicants -> Checkpoint] /\ point[c] \in Checkpoint
      /\ redone \in [Applicants -> Redeletion] /\ redone[c] \in Redeletion
      /\ row \in [Applicants -> PersonRow] /\ row[c] \in PersonRow
      /\ ThreadOK(c, t) /\ thread[c][t] \in Thread
  BY <1>2, JobFacts
<1> DEFINE n == thread[c][t].others
           q == [redone[c] EXCEPT !.status = "completed"]
           p == [point[c] EXCEPT !.status = "completed"]
           h == [pc |-> "end", others |-> 0]
           u == [thread[c] EXCEPT ![t] = h]
<1>4. /\ UNCHANGED <<clock, row, objects, ledger, key, archives, groups, sched, fresh, plan, restore, drill, asked, calls>>
      /\ run' = [status |-> IF n + 1 = Total THEN "completed" ELSE run.status, count |-> n + 1]
      /\ redone' = [redone EXCEPT ![c].status = "completed"] /\ point' = [point EXCEPT ![c].status = "completed"]
      /\ thread' = [thread EXCEPT ![c][t] = h]
  BY DEF Complete, Go, planeVars, backupVars, data, stores
<1>5. redone[c].generation = 1 /\ row[c].kind = "redacted" /\ c \notin objects /\ n <= Cardinality(Others(c))
  BY <1>1, <1>3 DEF ThreadOK, Clean
<1>6. n \in Nat
  BY <1>3, Fewer DEF Thread
<1>7. q \in Redeletion /\ q.generation = 1
  BY <1>3, <1>5 DEF Redeletion
<1>8. /\ p \in Checkpoint /\ p.status = "completed" /\ p.target = 1
      /\ p.job = point[c].job /\ p.attempts = point[c].attempts
  BY <1>3 DEF Checkpoint, PointOK
<1>9. h \in Thread /\ h.pc = "end"
  BY IdleIs
<1>10. redone' = [redone EXCEPT ![c] = q] /\ point' = [point EXCEPT ![c] = p]
  BY <1>3, <1>4
<1> HIDE DEF n
<1>11. /\ n + 1 \in 0..Cardinality(Applicants)
       /\ n + 1 = Total => \A d \in Applicable \ {c} : point[d].status = "completed"
  BY <1>2, <1>5, <1>6, AllCompleted
<1>12. run' \in RecoveryRun
  <2>1. run.status \in {"queued", "running", "completed", "failed"}
    BY <1>3 DEF RecoveryRun
  <2> QED
    BY <1>4, <1>11, <2>1 DEF RecoveryRun
<1>13. \/ run'.status # "completed"
       \/ run.status = "completed"
       \/ p.status = "completed" /\ \A d \in Applicable \ {c} : point[d].status = "completed"
  BY <1>4, <1>8, <1>11
<1> HIDE DEF h, p, q
<1>14. u \in [Threads -> Thread] /\ HandlersFit(c, u, q, row[c], objects')
  BY <1>2, <1>4, <1>5, <1>7, <1>9, HandlerMoves
<1>15. thread' = [thread EXCEPT ![c] = u]
  BY <1>2, <1>4, <1>9, HandlerMoves
<1>16. JobFits(c, p, q, row[c], objects')
  BY <1>3, <1>4, <1>5, <1>7, <1>8 DEF JobFits, PointOK
<1>17. row' = [row EXCEPT ![c] = row[c]]
  BY <1>3, <1>4
<1> HIDE DEF u
<1> QED
  BY <1>2, <1>3, <1>4, <1>7, <1>8, <1>10, <1>12, <1>13, <1>14, <1>15, <1>16, <1>17, JobStep

LEMMA JobInd ==
  ASSUME RecoveryInv, NEW c \in Applicants, Job(c)
  PROVE  RecoveryInv'
<1>1. CASE LoseLease(c)
  BY <1>1, LoseLeaseInd
<1>2. ASSUME NEW t \in Threads, Claim(c, t) \/ Handle(c, t) \/ Outage(c, t) \/ Die(c, t)
      PROVE  RecoveryInv'
  <2>1. CASE Claim(c, t)
    BY <2>1, ClaimAgainInd
  <2>2. CASE Outage(c, t)
    <3>1. thread[c][t] # Idle /\ EndAttempt(c, t, "retry")
      BY <2>2, IdleIs DEF Outage
    <3> QED
      BY <3>1, EndAttemptInd
  <2>3. CASE Die(c, t)
    BY <2>3, DieInd
  <2>4. CASE Finish(c, t)
    <3>1. thread[c][t] # Idle /\ EndAttempt(c, t, "done")
      BY <2>4, IdleIs DEF Finish
    <3> QED
      BY <3>1, EndAttemptInd
  <2>5. CASE BeginDeletion(c, t)
    BY <2>5, RedeletionBeginInd
  <2>6. CASE RemoveFile(c, t)
    BY <2>6, RemoveFileInd
  <2>7. CASE MarkDeleted(c, t)
    BY <2>7, MarkDeletedInd
  <2>8. CASE RedactAgain(c, t)
    BY <2>8, RedactAgainInd
  <2>9. CASE Count(c, t)
    BY <2>9, CountInd
  <2>10. CASE Complete(c, t)
    BY <2>10, CompleteInd
  <2> QED
    BY <1>2, <2>1, <2>2, <2>3, <2>4, <2>5, <2>6, <2>7, <2>8, <2>9, <2>10 DEF Handle
<1> QED
  BY <1>1, <1>2 DEF Job

LEMMA RestoreBegins ==
  ASSUME RecoveryInit
  PROVE  RecoveryInv
<1>1. /\ clock = 1 /\ key = 1 /\ ledger = [c \in Applicants |-> Nothing]
      /\ archives = [r \in Runs |-> Nothing] /\ groups = [r \in Runs |-> Nothing]
      /\ sched = Nothing /\ fresh = Nothing /\ plan = {}
      /\ restore = [step |-> "none", of |-> Nothing, cutoff |-> 0]
      /\ drill = [prepared |-> 0, attested |-> 0, verdict |-> "none"]
      /\ asked = 0 /\ calls = 0 /\ run = Nothing
      /\ redone = [c \in Applicants |-> [status |-> "restored", generation |-> 0, file |-> "none"]]
      /\ thread = [c \in Applicants |-> [t \in Threads |-> Idle]]
  BY DEF RecoveryInit, BackupInit
<1>2. point = [c \in Applicants |-> [status |-> "none", target |-> 0, job |-> "none", owner |-> Nothing, attempts |-> 0]]
  BY DEF RecoveryInit
<1>3. PICK there \in SUBSET Applicants :
        /\ row = [c \in Applicants |-> IF c \in there THEN [NewRow EXCEPT !.kind = "live"] ELSE NewRow]
        /\ objects = there
  BY DEF RecoveryInit, BackupInit
<1>4. /\ LastTime \in Nat /\ LastTime > 0 /\ MaxKeys \in Nat /\ MaxKeys > 0
      /\ JobAttempts \in Nat /\ MaxCalls \in Nat /\ Cardinality(Applicants) \in Nat
  BY PlaneNumbers, Fewer
<1>5. 0 \in Times /\ 1 \in Times /\ 1 \in 1..MaxKeys /\ 0 \in 0..JobAttempts /\ 0 \in 0..MaxCalls /\ 0 \in 0..Cardinality(Applicants)
  BY <1>4 DEF Times
<1> DEFINE living == [NewRow EXCEPT !.kind = "live"]
<1>6. /\ NewRow \in PersonRow /\ NewRow.kind = "none" /\ NewRow.version = 1
      /\ living \in PersonRow /\ living.kind = "live" /\ living.version = 1
  BY <1>5 DEF NewRow, PersonRow
<1> HIDE DEF living
<1>7. \A c \in Applicants : row[c] = IF c \in there THEN living ELSE NewRow
  BY <1>3 DEF living
<1>8. row \in [Applicants -> PersonRow]
  BY <1>3, <1>6 DEF living
<1>9. WorkOK
  <2>1. ASSUME NEW c \in Applicants
        PROVE  row[c].kind \in {"none", "live"} /\ row[c].version = 1 /\ (c \in objects => row[c].kind = "live")
    BY <1>3, <1>6, <1>7
  <2> QED
    BY <2>1 DEF WorkOK
<1>10. BackupTypeOK
  BY <1>1, <1>3, <1>5, <1>8, BackupTypes
<1>11. Archived = {} /\ Points = {} /\ ~ Alive
  BY <1>1 DEF Archived, Points, Alive
<1>12. CopiesOK
  BY <1>1, <1>11 DEF CopiesOK, Recorded
<1>13. RecoveryTypeOK
  <2>1. restore \in RestoreEvidence /\ drill \in DrillEvidence
    BY <1>1, <1>5 DEF RestoreEvidence, DrillEvidence
  <2>2. point \in [Applicants -> Checkpoint]
    BY <1>2, <1>5 DEF Checkpoint
  <2>3. redone \in [Applicants -> Redeletion]
    BY <1>1 DEF Redeletion
  <2>4. thread \in [Applicants -> [Threads -> Thread]]
    BY <1>1, IdleIs
  <2> QED
    BY <1>1, <1>5, <1>10, <2>1, <2>2, <2>3, <2>4, RecoveryTypes
<1>14. restore.step = "none" /\ ~ Claimed
  BY <1>1 DEF Claimed
<1>15. RestoreOK
  BY <1>1, <1>14 DEF RestoreOK
<1>16. ASSUME NEW c \in Applicants PROVE Untouched(c)
  BY <1>1, <1>2 DEF Untouched
<1>17. RedeletionOK
  BY <1>1, <1>14, <1>16 DEF RedeletionOK
<1> QED
  BY <1>9, <1>12, <1>13, <1>15, <1>17, CopiesMeet DEF RecoveryInv

LEMMA RestoreInductive ==
  ASSUME RecoveryInv, [RecoveryNext]_RecoveryVars
  PROVE  RecoveryInv'
<1>1. CASE Produce
  BY <1>1, ProduceInd
<1>2. CASE \E r \in Runs : BeginRestore(r)
  BY <1>2, BeginRestoreInd
<1>3. CASE RestoreLedger \/ RestoreDatabase \/ RestoreObjects
  BY <1>3, RestoreLedgerInd, RestoreDatabaseInd, RestoreObjectsInd
<1>4. CASE Protocol
  BY <1>4, AskInd, PrepareInd, AttestInd, AcceptInd DEF Protocol
<1>5. CASE \E c \in Applicants : Job(c)
  BY <1>5, JobInd
<1>6. CASE UNCHANGED RecoveryVars
  <2>1. UNCHANGED <<backupVars, restore, run, point, redone, thread>> /\ UNCHANGED <<drill, asked, calls>>
    BY <1>6 DEF RecoveryVars, recoveryVars, planeVars
  <2>2. /\ drill \in DrillEvidence /\ asked \in 0..MaxCalls /\ calls \in 0..MaxCalls /\ asked <= calls
        /\ restore.step # "done" => asked = 0
    BY PlaneTypes, RecoveryTypes DEF RecoveryInv, RedeletionOK, RestoreOK
  <2> QED
    BY <2>1, <2>2, DrillStep DEF Claimed
<1> QED
  BY <1>1, <1>2, <1>3, <1>4, <1>5, <1>6 DEF RecoveryNext

LEMMA RecoveryFollows ==
  ASSUME RecoveryInv
  PROVE  RecoverySafety
<1>1. ASSUME Claimed, NEW c \in Applicants, ledger[c] # Nothing
      PROVE  Clean(c)
  <2>1. run # Nothing /\ restore.step = "done" /\ \A d \in Applicable : point[d].status = "completed"
    BY <1>1, RecoveryRows DEF RecoveryInv, RedeletionOK
  <2>2. CASE c \in Applicable
    BY <2>1, <2>2 DEF RecoveryInv, RedeletionOK, PointOK
  <2>3. CASE c \notin Applicable
    <3>1. ~ (ledger[c].at > restore.cutoff)
      BY <1>1, <2>3 DEF Applicable
    <3>2. ledger[c].at \in Int /\ restore.cutoff \in Int
      <4>1. ledger[c] \in LedgerEntry /\ restore \in RestoreEvidence /\ LastTime \in Nat
        BY <1>1, BackupRows, PlaneTypes, RecoveryRows, PlaneNumbers
      <4> QED
        BY <4>1 DEF LedgerEntry, RestoreEvidence, Times
    <3> QED
      BY <1>1, <2>1, <3>1, <3>2 DEF RecoveryInv, RestoreOK
  <2> QED
    BY <2>2, <2>3
<1>2. RecoveredIsClean
  BY <1>1 DEF RecoveredIsClean, Claimed, Clean
<1>3. ASSUME NEW c \in Applicants
      PROVE  redone[c].generation <= 1 /\ (point[c].status = "completed" => redone[c].generation = point[c].target)
  <2>1. PointOK(c) \/ Untouched(c)
    BY DEF RecoveryInv, RedeletionOK
  <2> QED
    BY <2>1 DEF PointOK, Untouched
<1> QED
  BY <1>2, <1>3 DEF RecoverySafety, GenerationOnce

(* Whatever is restored, and however often the recovery is asked for and    *)
(* its jobs are tried (backupctl.py, recovery.py), the plane, its copies    *)
(* and the handlers stay consistent with what was deleted.                  *)
THEOREM RecoveryInvariant == RecoverySpec => []RecoveryInv
<1>1. RecoveryInit => RecoveryInv
  BY RestoreBegins
<1>2. RecoveryInv /\ [RecoveryNext]_RecoveryVars => RecoveryInv'
  BY RestoreInductive
<1> QED
  BY <1>1, <1>2, PTL DEF RecoverySpec

(* A recovery that says "completed", and a drill that says "verified", have *)
(* left nothing of anybody whom the restored ledger names, and a request's  *)
(* generation was raised once, for any number of candidates, backups and    *)
(* calls (recovery.py:466-508, backupctl.py:1655-1738).                     *)
THEOREM RecoveryCorrect == RecoverySpec => []RecoverySafety
<1>1. RecoveryInv => RecoverySafety
  BY RecoveryFollows
<1>2. RecoverySpec => []RecoveryInv
  BY RecoveryInvariant
<1> QED
  BY <1>1, <1>2, PTL

-----------------------------------------------------------------------------
(* The stores.  Archives are numbered in turn.                              *)
LEMMA NumberedInTurn ==
  ASSUME NEW n \in 0..MaxRuns, Archived = 1..n
  PROVE  Cardinality(Archived) = n /\ n \in Nat
<1>1. n \in Nat
  BY PlaneNumbers
<1>2. Cardinality(1..n) = n
  BY <1>1, FS_Interval
<1> QED
  BY <1>1, <1>2

LEMMA FewerRuns ==
  ASSUME NEW T \in SUBSET Runs, NEW S \in SUBSET T
  PROVE  Cardinality(S) \in Nat /\ Cardinality(T) \in Nat /\ Cardinality(S) <= Cardinality(T)
<1>1. IsFiniteSet(Runs)
  BY PlaneNumbers, FS_Interval DEF Runs
<1>2. IsFiniteSet(T)
  BY <1>1, FS_Subset
<1>3. IsFiniteSet(S) /\ Cardinality(S) <= Cardinality(T)
  BY <1>2, FS_Subset
<1>4. Cardinality(S) \in Nat /\ Cardinality(T) \in Nat
  BY <1>2, <1>3, FS_CardinalityType
<1> QED
  BY <1>3, <1>4

(* Steps that publish nothing.                                              *)
LEMMA CatalogAside ==
  ASSUME CatalogOK, UNCHANGED <<clock, archives, groups, fresh, plan>>,
         Alive' =>
           /\ Alive /\ sched'.run = sched.run /\ sched'.cutoff = sched.cutoff
           /\ \/ sched'.stage = sched.stage
              \/ sched.stage \in {"dump", "snapshot"} /\ sched'.stage \in {"snapshot", "business_publish"}
  PROVE  CatalogOK'
<1>1. Archived' = Archived /\ Points' = Points /\ (CheckFreshness' <=> CheckFreshness)
  BY DEF Archived, Points, CheckFreshness
<1> HIDE DEF Archived, Points, CheckFreshness, Alive
<1> QED
  BY <1>1 DEF CatalogOK, Running

LEMMA StartNumbers ==
  ASSUME BackupTypeOK, CatalogOK, Start
  PROVE  CatalogOK'
<1>1. /\ UNCHANGED <<archives, groups, fresh, plan>> /\ clock' = clock + 1
      /\ sched'.run = Cardinality(Archived) + 1 /\ sched'.stage = "ledger_publish"
  BY DEF Start, stores
<1>2. Archived' = Archived /\ Points' = Points
  BY <1>1 DEF Archived, Points
<1>3. clock \in Int /\ Window \in Int /\ PageAfter \in Int /\ \A r \in Points : groups[r].cutoff \in Int
  BY BackupRows, BackupAssumption
<1>4. fresh # Nothing => fresh.cutoff \in Int
  <2>1. fresh # Nothing => fresh \in FreshnessState
    BY BackupTypes
  <2> QED
    BY <2>1, PlaneNumbers DEF FreshnessState, Times
<1>5. CheckFreshness' => CheckFreshness
  BY <1>1, <1>3, <1>4 DEF CheckFreshness
<1>6. \A r \in plan : groups[r].cutoff < clock' - Window
  BY <1>1, <1>3 DEF CatalogOK
<1> HIDE DEF Archived, Points, CheckFreshness, Alive
<1> QED
  BY <1>1, <1>2, <1>5, <1>6 DEF CatalogOK, Running

LEMMA LedgerNumbers ==
  ASSUME BackupTypeOK, CatalogOK, LedgerPublish
  PROVE  CatalogOK'
<1>1. PICK committed \in BOOLEAN :
        /\ archives' = IF committed
             THEN [archives EXCEPT ![sched.run] = [cutoff |-> sched.cutoff, key |-> key, entries |-> ledger]]
             ELSE archives
        /\ Published(committed, "dump")
  BY DEF LedgerPublish, CutoffOfRun
<1>2. UNCHANGED <<clock, groups, fresh, plan>> /\ Alive /\ sched.stage = "ledger_publish"
  BY DEF LedgerPublish, Running
<1>3. sched \in PendingRun /\ sched.run \in Runs /\ sched.cutoff \in Times
  BY <1>2, BackupRows
<1>4. /\ archives \in [Runs -> LedgerManifest \cup {Nothing}] /\ key \in 1..MaxKeys /\ ledger \in Entries
  BY BackupTypes DEF Entries
<1>5. PICK n \in 0..MaxRuns : Archived = 1..n
  BY DEF CatalogOK
<1>6. n \in Nat /\ sched.run = n + 1 /\ MaxRuns \in Nat
  BY <1>2, <1>5, NumberedInTurn, PlaneNumbers DEF CatalogOK, Running
<1> DEFINE manifest == [cutoff |-> sched.cutoff, key |-> key, entries |-> ledger]
<1>7. manifest # Nothing /\ manifest.cutoff = sched.cutoff
  BY <1>3, <1>4, ManifestAssumption DEF LedgerManifest
<1> HIDE DEF manifest
<1>8. sched.run \notin Points /\ sched.run \notin Archived /\ Points' = Points /\ (CheckFreshness' <=> CheckFreshness)
  BY <1>2, <1>5, <1>6 DEF CatalogOK, Points, CheckFreshness
<1>9. CASE committed
  <2>1. /\ archives' = [archives EXCEPT ![sched.run] = manifest] /\ n + 1 \in 0..MaxRuns
        /\ \A r \in Runs : archives'[r] = IF r = sched.run THEN manifest ELSE archives[r]
    BY <1>1, <1>3, <1>4, <1>6, <1>9 DEF manifest, Runs
  <2>2. Archived' = Archived \cup {sched.run}
    BY <1>3, <1>7, <2>1 DEF Archived
  <2>3. Archived' = 1..(n + 1)
    BY <1>5, <1>6, <2>2
  <2>4. \A r \in Points : r \in Archived' /\ archives'[r].cutoff = groups[r].cutoff
    BY <1>8, <2>1, <2>2 DEF CatalogOK, Points
  <2>5. Alive' => /\ sched'.stage = "dump" /\ sched'.run \in Archived' /\ archives'[sched'.run].cutoff = sched'.cutoff
                   /\ sched'.run \notin Points
    BY <1>1, <1>3, <1>7, <1>8, <2>1, <2>2, PublishedIs
  <2> HIDE DEF Archived, Points, CheckFreshness, Alive
  <2> QED
    BY <1>2, <1>8, <2>1, <2>3, <2>4, <2>5 DEF CatalogOK, Running
<1>10. CASE ~committed
  <2>1. UNCHANGED archives /\ ~ Alive'
    BY <1>1, <1>10 DEF Published, Ended, Alive
  <2> QED
    BY <1>2, <2>1, CatalogAside
<1> QED
  BY <1>9, <1>10

LEMMA PointsPublished ==
  ASSUME RecoveryInv, restore.step = "none", CatalogOK, BusinessPublish
  PROVE  CatalogOK'
<1>1. PICK committed \in BOOLEAN :
        /\ groups' = IF committed
             THEN [groups EXCEPT ![sched.run] =
                     [cutoff |-> sched.cutoff, rows |-> sched.rows, objects |-> sched.objects]]
             ELSE groups
        /\ Published(committed, "business_catalog")
  BY DEF BusinessPublish, CutoffOfRun
<1>2. UNCHANGED <<clock, archives, fresh, plan>> /\ Alive /\ sched.stage = "business_publish"
  BY DEF BusinessPublish, Running
<1>3. /\ sched \in PendingRun /\ sched.run \in Runs /\ sched.cutoff \in Times /\ sched.rows \in Rows
      /\ BackupTypeOK
  BY StagesRun DEF BusinessPublish
<1>4. groups \in [Runs -> BackupManifest \cup {Nothing}] /\ sched.objects \in SUBSET Applicants
  BY <1>3, BackupTypes DEF PendingRun
<1>5. /\ sched.run \notin Points /\ sched.run \in Archived /\ archives[sched.run].cutoff = sched.cutoff
      /\ Archived' = Archived
  BY <1>2 DEF CatalogOK, Archived
<1>6. CASE ~committed
  <2>1. UNCHANGED groups /\ ~ Alive'
    BY <1>1, <1>6 DEF Published, Ended, Alive
  <2> QED
    BY <1>2, <2>1, CatalogAside
<1> DEFINE manifest == [cutoff |-> sched.cutoff, rows |-> sched.rows, objects |-> sched.objects]
<1>7. manifest.cutoff = sched.cutoff /\ manifest # Nothing
  BY <1>3, <1>4, ManifestAssumption DEF BackupManifest
<1> HIDE DEF manifest
<1>8. CASE committed
  <2>1. \A r \in Runs : groups'[r] = IF r = sched.run THEN manifest ELSE groups[r]
    BY <1>1, <1>3, <1>4, <1>8 DEF manifest
  <2>2. Points' = Points \cup {sched.run}
    BY <1>3, <1>7, <2>1 DEF Points
  <2>3. \A r \in Points' : r \in Archived /\ archives[r].cutoff = groups'[r].cutoff
    BY <1>5, <1>7, <2>1, <2>2 DEF CatalogOK, Points
  <2>4. /\ \A r \in Points : groups'[r] = groups[r]
        /\ \A r \in plan : r \in Points' /\ groups'[r].cutoff < clock - Window
    BY <1>5, <2>1, <2>2 DEF CatalogOK, Points
  <2>5. fresh # Nothing \/ plan # {} => Cardinality(Points' \ plan) >= 2
    <3>1. Points' \ plan \in SUBSET Runs /\ Points \ plan \in SUBSET (Points' \ plan)
      BY <1>3, <2>2 DEF Points
    <3>2. /\ Cardinality(Points \ plan) \in Nat /\ Cardinality(Points' \ plan) \in Nat
          /\ Cardinality(Points \ plan) <= Cardinality(Points' \ plan)
      BY <3>1, FewerRuns
    <3> QED
      BY <3>2 DEF CatalogOK
  <2>6. CheckFreshness' => fresh.run \in Points' /\ groups'[fresh.run].cutoff = fresh.cutoff
    BY <1>2, <2>2, <2>4 DEF CatalogOK, CheckFreshness
  <2>7. Alive' => /\ sched'.stage = "business_catalog" /\ sched'.run \in Archived
                   /\ archives[sched'.run].cutoff = sched'.cutoff
    BY <1>1, <1>3, <1>5, PublishedIs
  <2> HIDE DEF Archived, Points, CheckFreshness, Alive
  <2> QED
    BY <1>2, <1>5, <2>3, <2>4, <2>5, <2>6, <2>7 DEF CatalogOK, Running
<1> QED
  BY <1>6, <1>8

LEMMA CatalogNames ==
  ASSUME BackupTypeOK, CatalogOK, Succeed
  PROVE  CatalogOK'
<1>1. UNCHANGED <<clock, archives, groups, plan>> /\ sched' = Nothing
  BY DEF Succeed, stores, Catalog
<1>2. fresh'.run = sched.run /\ fresh'.cutoff = groups[sched.run].cutoff
  BY DEF Succeed, Catalog
<1>3. Points \in SUBSET Runs /\ Cardinality(Points) >= 2
  BY DEF Succeed, Catalog, PointsHold, Points
<1>4. Points # {}
  <2>1. Cardinality({}) = 0
    BY FS_EmptySet
  <2> QED
    BY <1>3, <2>1
<1>5. sched.run \in Points
  <2>1. sched.run = Max(Points)
    BY DEF Succeed, Catalog, PointsHold
  <2> HIDE DEF Points
  <2> QED
    BY <1>3, <1>4, <2>1, NewestIs
<1>6. Cardinality(Points \ plan) >= 2
  <2>1. CASE plan = {}
    <3>1. Points \ plan = Points
      BY <2>1
    <3> QED
      BY <1>3, <3>1
  <2> QED
    BY <2>1 DEF CatalogOK
<1>7. Archived' = Archived /\ Points' = Points /\ ~ Alive'
  BY <1>1 DEF Archived, Points, Alive
<1> HIDE DEF Archived, Points, CheckFreshness, Alive
<1> QED
  BY <1>1, <1>2, <1>5, <1>6, <1>7 DEF CatalogOK, Running

(* Of two points or more, the newest two are not taken.                     *)
LEMMA TwoAreKept ==
  ASSUME NEW S \in SUBSET Runs, Cardinality(S) >= 2
  PROVE  \E m, n \in S : m # n /\ Cardinality({q \in S : q > m}) < 2 /\ Cardinality({q \in S : q > n}) < 2
<1>1. S \in SUBSET (0..MaxRuns) /\ MaxRuns \in Nat /\ IsFiniteSet(0..MaxRuns)
  BY PlaneNumbers, FS_Interval DEF Runs
<1>2. IsFiniteSet(S) /\ Cardinality(S) >= 2
  BY <1>1, FS_Subset
<1>3. S # {}
  BY <1>2, FS_EmptySet
<1>4. PICK m \in S : \A q \in S : q <= m
  BY <1>1, <1>3, Greatest
<1>5. S \ {m} # {}
  <2>1. Cardinality(S \ {m}) = Cardinality(S) - 1 /\ Cardinality(S) \in Nat
    BY <1>2, FS_RemoveElement, FS_CardinalityType
  <2>2. Cardinality(S \ {m}) # 0
    BY <1>2, <2>1
  <2> QED
    BY <2>2, FS_EmptySet
<1>6. PICK n \in S \ {m} : \A q \in S \ {m} : q <= n
  BY <1>1, <1>5, Greatest
<1>7. {q \in S : q > m} \in SUBSET {m} /\ {q \in S : q > n} \in SUBSET {m}
  <2>1. \A q \in S : q \in Int /\ m \in Int /\ n \in Int
    BY <1>1
  <2> QED
    BY <1>4, <1>6, <2>1
<1>8. \A T \in SUBSET {m} : Cardinality(T) < 2
  <2>1. IsFiniteSet({m}) /\ Cardinality({m}) = 1
    BY FS_Singleton
  <2>2. ASSUME NEW T \in SUBSET {m} PROVE Cardinality(T) < 2
    <3>1. IsFiniteSet(T) /\ Cardinality(T) <= 1
      BY <2>1, FS_Subset
    <3>2. Cardinality(T) \in Nat
      BY <3>1, FS_CardinalityType
    <3> QED
      BY <3>1, <3>2
  <2> QED
    BY <2>2
<1>9. Cardinality({q \in S : q > m}) < 2 /\ Cardinality({q \in S : q > n}) < 2
  BY <1>7, <1>8
<1> QED
  BY <1>6, <1>9

LEMMA PlanKeepsTwo ==
  ASSUME BackupTypeOK, CatalogOK, PlanPrune
  PROVE  CatalogOK'
<1>1. /\ UNCHANGED <<clock, archives, groups, sched, fresh>> /\ plan' = Prunable /\ Cardinality(Points) >= 2
  BY DEF PlanPrune, stores
<1>2. Points \in SUBSET Runs
  BY DEF Points
<1>3. PICK m, n \in Points : /\ m # n /\ Cardinality({q \in Points : q > m}) < 2
                               /\ Cardinality({q \in Points : q > n}) < 2
  <2> HIDE DEF Points
  <2> QED
    BY <1>1, <1>2, TwoAreKept
<1>4. {m, n} \in SUBSET (Points \ plan')
  BY <1>1, <1>3 DEF Prunable, NewestTwo
<1>5. Cardinality(Points \ plan') >= 2
  <2>1. Cardinality({m, n}) = 2
    <3>1. IsFiniteSet({m}) /\ Cardinality({m}) = 1
      BY FS_Singleton
    <3>2. n \notin {m} /\ {m, n} = {m} \cup {n}
      BY <1>3
    <3>3. Cardinality({m} \cup {n}) = Cardinality({m}) + 1
      BY <3>1, <3>2, FS_AddElement
    <3> QED
      BY <3>1, <3>2, <3>3
  <2>2. Points \ plan' \in SUBSET Runs
    BY <1>2
  <2>3. /\ Cardinality({m, n}) \in Nat /\ Cardinality(Points \ plan') \in Nat
        /\ Cardinality({m, n}) <= Cardinality(Points \ plan')
    BY <1>4, <2>2, FewerRuns
  <2> QED
    BY <2>1, <2>3
<1>6. \A r \in plan' : r \in Points /\ groups[r].cutoff < clock - Window
  BY <1>1 DEF Prunable
<1>7. Archived' = Archived /\ Points' = Points /\ Alive' = Alive /\ CheckFreshness' = CheckFreshness
  BY <1>1 DEF Archived, Points, Alive, CheckFreshness
<1> HIDE DEF Archived, Points, CheckFreshness, Alive
<1> QED
  BY <1>1, <1>5, <1>6, <1>7 DEF CatalogOK, Running

LEMMA PruneKeepsTwo ==
  ASSUME BackupTypeOK, CatalogOK, PruneStops \/ \E r \in Runs : DeleteGroup(r)
  PROVE  CatalogOK'
<1>1. UNCHANGED <<clock, archives, sched, fresh>> /\ Archived' = Archived /\ (CheckFreshness' <=> CheckFreshness)
  BY DEF PruneStops, DeleteGroup, stores, Archived, CheckFreshness
<1>2. Alive' = Alive
  BY <1>1 DEF Alive
<1>3. CASE PruneStops
  <2>1. groups' = groups /\ plan' = {} /\ plan # {} /\ Points' = Points
    BY <1>3 DEF PruneStops, stores, Points
  <2>2. Cardinality(Points \ {}) >= 2
    <3>1. Points \ {} \in SUBSET Runs /\ Points \ plan \in SUBSET (Points \ {})
      BY DEF Points
    <3>2. /\ Cardinality(Points \ plan) \in Nat /\ Cardinality(Points \ {}) \in Nat
          /\ Cardinality(Points \ plan) <= Cardinality(Points \ {})
      BY <3>1, FewerRuns
    <3> QED
      BY <2>1, <3>2 DEF CatalogOK
  <2> HIDE DEF Archived, Points, CheckFreshness, Alive
  <2> QED
    BY <1>1, <1>2, <2>1, <2>2 DEF CatalogOK, Running
<1>4. CASE \E r \in Runs : DeleteGroup(r)
  <2>1. PICK r \in Runs : r \in plan /\ plan' = plan \ {r} /\ groups' = [groups EXCEPT ![r] = Nothing]
    BY <1>4 DEF DeleteGroup
  <2>2. groups \in [Runs -> BackupManifest \cup {Nothing}]
    BY BackupTypes
  <2>3. Points' = Points \ {r} /\ \A q \in Points' : groups'[q] = groups[q]
    BY <2>1, <2>2 DEF Points
  <2>4. Points' \ plan' = Points \ plan /\ plan # {}
    BY <2>1, <2>3
  <2>5. \A q \in plan' : q \in Points' /\ groups'[q].cutoff < clock - Window
    BY <2>1, <2>3 DEF CatalogOK
  <2>6. CheckFreshness => fresh.run # r
    <3>1. CheckFreshness => ~ (fresh.cutoff < clock - Window)
      <4>1. fresh # Nothing => fresh.cutoff \in Int /\ clock \in Int /\ Window \in Int /\ PageAfter \in Int /\ PageAfter <= Window
        <5>1. fresh # Nothing => fresh \in FreshnessState
          BY BackupTypes
        <5> QED
          BY <5>1, PlaneNumbers, BackupRows, BackupAssumption DEF FreshnessState, Times
      <4> QED
        BY <4>1 DEF CheckFreshness
    <3> QED
      BY <2>1, <3>1 DEF CatalogOK
  <2>7. CheckFreshness => fresh.run \in Points' /\ groups'[fresh.run].cutoff = fresh.cutoff
    BY <2>3, <2>6 DEF CatalogOK
  <2>8. \A q \in Points' : q \in Archived /\ archives[q].cutoff = groups'[q].cutoff
    BY <2>3 DEF CatalogOK
  <2>9. Alive /\ sched.stage \in {"dump", "snapshot", "business_publish"} => sched.run \notin Points'
    BY <2>3 DEF CatalogOK
  <2> HIDE DEF Archived, Points, CheckFreshness, Alive
  <2> QED
    BY <1>1, <1>2, <2>4, <2>5, <2>7, <2>8, <2>9 DEF CatalogOK, Running
<1> QED
  BY <1>3, <1>4

LEMMA CatalogProduced ==
  ASSUME RecoveryInv, CatalogOK, Produce
  PROVE  CatalogOK'
<1>1. restore.step = "none" /\ BackupNext /\ BackupTypeOK
  BY PlaneTypes DEF Produce
<1>2. CASE Start \/ LedgerPublish \/ BusinessPublish \/ Succeed
  BY <1>1, <1>2, StartNumbers, LedgerNumbers, PointsPublished, CatalogNames
<1>3. CASE Dump
  <2>1. /\ UNCHANGED <<clock, archives, groups, fresh, plan>> /\ Alive /\ sched.stage = "dump"
        /\ sched' = [sched EXCEPT !.stage = "snapshot", !.rows = row]
    BY <1>3 DEF Dump, Running, stores
  <2>2. sched \in PendingRun
    BY <1>1, <2>1, BackupRows
  <2>3. sched'.run = sched.run /\ sched'.cutoff = sched.cutoff /\ sched'.stage = "snapshot"
    BY <2>1, <2>2 DEF PendingRun
  <2> QED
    BY <2>1, <2>3, CatalogAside
<1>4. CASE Snapshot
  <2>1. /\ UNCHANGED <<clock, archives, groups, fresh, plan>> /\ Alive /\ sched.stage = "snapshot"
        /\ sched' = [sched EXCEPT !.stage = "business_publish", !.objects = objects]
    BY <1>4 DEF Snapshot, Running, stores
  <2>2. sched \in PendingRun
    BY <1>1, <2>1, BackupRows
  <2>3. sched'.run = sched.run /\ sched'.cutoff = sched.cutoff /\ sched'.stage = "business_publish"
    BY <2>1, <2>2 DEF PendingRun
  <2> QED
    BY <2>1, <2>3, CatalogAside
<1>5. CASE StageFails \/ Reconcile
  <2>1. UNCHANGED <<clock, archives, groups, fresh, plan>> /\ ~ Alive'
    BY <1>5 DEF StageFails, Reconcile, Ended, stores, Alive
  <2> QED
    BY <2>1, CatalogAside
<1>6. CASE PlanPrune \/ PruneStops \/ \E r \in Runs : DeleteGroup(r)
  BY <1>1, <1>6, PlanKeepsTwo, PruneKeepsTwo
<1>7. CASE RotateKey \/ UNCHANGED <<clock, key, stores, sched, fresh, plan>>
  <2>1. UNCHANGED <<clock, archives, groups, sched, fresh, plan>>
    BY <1>7 DEF RotateKey, stores
  <2>2. Alive' = Alive
    BY <2>1 DEF Alive
  <2> QED
    BY <2>1, <2>2, CatalogAside
<1> QED
  BY <1>1, <1>2, <1>3, <1>4, <1>5, <1>6, <1>7 DEF BackupNext, Schedule

(* The recovery and its protocol do not touch the stores.                   *)
LEMMA StoresUntouched ==
  ASSUME Protocol \/ (\E c \in Applicants : Job(c)) \/ UNCHANGED RecoveryVars
  PROVE  UNCHANGED <<clock, archives, groups, sched, fresh, plan, restore>>
<1>1. CASE Protocol
  BY <1>1 DEF Protocol, Ask, Prepare, Attest, Accept, TrafficGate, Verdict, backupVars, stores
<1>2. CASE UNCHANGED RecoveryVars
  BY <1>2 DEF RecoveryVars, recoveryVars, planeVars, backupVars, stores
<1>3. ASSUME NEW c \in Applicants, NEW t \in Threads, NEW outcome, EndAttempt(c, t, outcome)
      PROVE  UNCHANGED <<clock, archives, groups, sched, fresh, plan, restore>>
  BY <1>3 DEF EndAttempt, planeVars, backupVars, stores
<1>4. ASSUME NEW c \in Applicants, LoseLease(c)
      PROVE  UNCHANGED <<clock, archives, groups, sched, fresh, plan, restore>>
  BY <1>4 DEF LoseLease, planeVars, backupVars, stores
<1>5. ASSUME NEW c \in Applicants, NEW t \in Threads, Claim(c, t) \/ Outage(c, t) \/ Die(c, t)
      PROVE  UNCHANGED <<clock, archives, groups, sched, fresh, plan, restore>>
  BY <1>3, <1>5 DEF Claim, Outage, Die, planeVars, backupVars, stores
<1>6. ASSUME NEW c \in Applicants, NEW t \in Threads, BeginDeletion(c, t) \/ RedactAgain(c, t) \/ Finish(c, t)
      PROVE  UNCHANGED <<clock, archives, groups, sched, fresh, plan, restore>>
  BY <1>3, <1>6 DEF BeginDeletion, RedactAgain, Finish, planeVars, backupVars, stores
<1>7. ASSUME NEW c \in Applicants, NEW t \in Threads,
             RemoveFile(c, t) \/ MarkDeleted(c, t) \/ Count(c, t) \/ Complete(c, t)
      PROVE  UNCHANGED <<clock, archives, groups, sched, fresh, plan, restore>>
  BY <1>7 DEF RemoveFile, MarkDeleted, Count, Complete, planeVars, backupVars, stores
<1> QED
  BY <1>1, <1>2, <1>4, <1>5, <1>6, <1>7 DEF Job, Handle

LEMMA StoresBegin ==
  ASSUME RecoveryInit
  PROVE  StoresInv
<1>1. /\ archives = [r \in Runs |-> Nothing] /\ groups = [r \in Runs |-> Nothing]
      /\ sched = Nothing /\ fresh = Nothing /\ plan = {} /\ restore.step = "none"
  BY DEF RecoveryInit, BackupInit
<1>2. Archived = {} /\ Points = {} /\ ~ Alive
  BY <1>1 DEF Archived, Points, Alive
<1>3. Archived = 1..0 /\ 0 \in 0..MaxRuns
  BY <1>2, PlaneNumbers
<1>4. CatalogOK
  BY <1>1, <1>2, <1>3 DEF CatalogOK, Running, CheckFreshness
<1> QED
  BY <1>1, <1>4, RestoreBegins DEF StoresInv

LEMMA StoresInductive ==
  ASSUME StoresInv, [RecoveryNext]_RecoveryVars
  PROVE  StoresInv'
<1>1. RecoveryInv /\ RecoveryInv'
  BY RestoreInductive DEF StoresInv
<1>2. CASE Produce
  <2>1. restore.step = "none" /\ restore' = restore /\ CatalogOK
    BY <1>2 DEF Produce, recoveryVars, planeVars, StoresInv
  <2> QED
    BY <1>1, <1>2, <2>1, CatalogProduced DEF StoresInv
<1>3. CASE \E r \in Runs : BeginRestore(r)
  <2>1. fresh' = Nothing /\ restore'.step = "ledger"
    BY <1>3 DEF BeginRestore
  <2> QED
    BY <1>1, <2>1 DEF StoresInv
<1>4. CASE RestoreLedger \/ RestoreDatabase \/ RestoreObjects
  <2>1. /\ restore.step # "none" /\ fresh' = fresh
        /\ \E next \in {"database", "objects", "done"} : restore' = [restore EXCEPT !.step = next]
    BY <1>4 DEF RestoreLedger, RestoreDatabase, RestoreObjects, Restoring
  <2>2. restore'.step # "none"
    BY <1>1, <2>1, RecoveryRows DEF RestoreEvidence
  <2> QED
    BY <1>1, <2>1, <2>2 DEF StoresInv
<1>5. CASE Protocol \/ (\E c \in Applicants : Job(c)) \/ UNCHANGED RecoveryVars
  <2>1. UNCHANGED <<clock, archives, groups, sched, fresh, plan, restore>>
    BY <1>5, StoresUntouched
  <2>2. Alive' = Alive
    BY <2>1 DEF Alive
  <2>3. CatalogOK => CatalogOK'
    BY <2>1, <2>2, CatalogAside
  <2> QED
    BY <1>1, <2>1, <2>3 DEF StoresInv
<1> QED
  BY <1>2, <1>3, <1>4, <1>5 DEF RecoveryNext

(* The freshness check passes only while the point it names can be restored *)
(* and there is a second one (backupctl.py): no run of the schedule, no     *)
(* prune and no failure between two stages changes that.                    *)
THEOREM FreshnessCorrect == RecoverySpec => []FreshIsRestorable
<1>1. RecoveryInit => StoresInv
  BY StoresBegin
<1>2. StoresInv /\ [RecoveryNext]_RecoveryVars => StoresInv'
  BY StoresInductive
<1>3. StoresInv => FreshIsRestorable
  <2> SUFFICES ASSUME StoresInv, CheckFreshness PROVE FreshIsRestorable
    BY DEF FreshIsRestorable
  <2>1. fresh # Nothing /\ CatalogOK
    BY DEF CheckFreshness, StoresInv
  <2>2. Points \in SUBSET Runs /\ Points \ plan \in SUBSET Points
    BY DEF Points
  <2>3. Cardinality(Points) >= 2
    <3>1. /\ Cardinality(Points \ plan) \in Nat /\ Cardinality(Points) \in Nat
          /\ Cardinality(Points \ plan) <= Cardinality(Points)
      BY <2>2, FewerRuns
    <3> QED
      BY <2>1, <3>1 DEF CatalogOK
  <2> HIDE DEF Points, Archived, CheckFreshness
  <2> QED
    BY <2>1, <2>3 DEF CatalogOK, FreshIsRestorable
<1> QED
  BY <1>1, <1>2, <1>3, PTL DEF RecoverySpec
-----------------------------------------------------------------------------
(* The order of a deletion, as Erasure has it.                              *)
Tombstones == {c \in Applicants : row[c].kind = "redacted"}
VersionOf  == [c \in Applicants |-> row[c].version]
ProofOf    == [c \in Applicants |-> IF ledger[c] = Nothing THEN Nothing ELSE ledger[c].approved]
InOrder    == OrderOK' /\ [Order!ErasureNext]_(Order!stores)

LEMMA MovesAre ==
  ASSUME NEW c \in Applicants,
         \/ c \notin Tombstones /\ VersionOf' = [VersionOf EXCEPT ![c] = @ + 1]
            /\ UNCHANGED <<objects, Tombstones, ProofOf>>
         \/ c \notin Tombstones /\ objects' = objects \cup {c} /\ UNCHANGED <<VersionOf, Tombstones, ProofOf>>
         \/ objects' = objects \ {c} /\ UNCHANGED <<VersionOf, Tombstones, ProofOf>>
         \/ /\ c \notin objects \cup Tombstones /\ Tombstones' = Tombstones \cup {c}
            /\ VersionOf' = [VersionOf EXCEPT ![c] = @ + 1] /\ UNCHANGED <<objects, ProofOf>>
         \/ /\ c \in Tombstones /\ ProofOf[c] = Nothing /\ ProofOf' = [ProofOf EXCEPT ![c] = VersionOf[c] - 1]
            /\ UNCHANGED <<objects, VersionOf, Tombstones>>
         \/ UNCHANGED <<objects, VersionOf, Tombstones, ProofOf>>
  PROVE  [Order!ErasureNext]_(Order!stores)
  BY DEF Order!ErasureNext, Order!Correct, Order!Keep, Order!Discard, Order!Erase, Order!Prove, Order!NewVersion,
         Order!stores, Tombstones, VersionOf, ProofOf

LEMMA NobodyMoves ==
  ASSUME OrderOK, UNCHANGED <<row, objects, ledger, restore>>
  PROVE  InOrder
<1>1. OrderOK'
  BY DEF OrderOK
<1>2. UNCHANGED <<objects, VersionOf, Tombstones, ProofOf>>
  BY DEF VersionOf, Tombstones, ProofOf
<1> QED
  BY <1>1, <1>2 DEF InOrder, Order!stores, Tombstones, VersionOf, ProofOf

(* While people work ...                                                    *)
LEMMA WorkInOrder ==
  ASSUME RecoveryInv, OrderOK, restore.step = "none", restore' = restore, NEW c \in Applicants, Work(c)
  PROVE  InOrder
<1>1. /\ row \in [Applicants -> PersonRow] /\ row[c] \in PersonRow /\ ledger \in [Applicants -> LedgerEntry \cup {Nothing}]
      /\ WorkOK /\ row[c].version \in Int
  BY PlaneTypes, BackupTypes, BackupRows DEF RecoveryInv
<1>2. CASE Enrol(c)
  <2>1. /\ row[c].kind = "none" /\ row' = [row EXCEPT ![c] = [row[c] EXCEPT !.kind = "live"]]
        /\ objects' = objects \cup {c} /\ ledger' = ledger
    BY <1>2 DEF Enrol
  <2>2. \A d \in Applicants : /\ row'[d].version = row[d].version
                              /\ row'[d] # row[d] => d = c /\ row'[d].kind = "live"
    BY <1>1, <2>1 DEF PersonRow
  <2>3. OrderOK' /\ c \notin Tombstones /\ UNCHANGED <<VersionOf, Tombstones, ProofOf>>
    BY <2>1, <2>2 DEF OrderOK, VersionOf, Tombstones, ProofOf
  <2> QED
    BY <2>1, <2>3, MovesAre DEF InOrder
<1>3. CASE Correct(c)
  <2>1. /\ row[c].kind = "live" /\ row[c].version = 1 /\ row' = [row EXCEPT ![c] = [row[c] EXCEPT !.version = 2]]
        /\ objects' = objects /\ ledger' = ledger
    BY <1>3 DEF Correct
  <2>2. /\ row'[c].version = row[c].version + 1 /\ row'[c].kind = "live"
        /\ \A d \in Applicants \ {c} : row'[d] = row[d]
    BY <1>1, <2>1 DEF PersonRow
  <2>3. VersionOf' = [VersionOf EXCEPT ![c] = @ + 1]
    BY <2>2 DEF VersionOf
  <2>4. OrderOK' /\ c \notin Tombstones /\ UNCHANGED <<Tombstones, ProofOf>>
    BY <2>1, <2>2 DEF OrderOK, Tombstones, ProofOf
  <2> QED
    BY <2>1, <2>3, <2>4, MovesAre DEF InOrder
<1>4. CASE EraseFile(c)
  <2> DEFINE m == [row[c] EXCEPT !.kind = "erasing"]
  <2>1. /\ row[c].kind = "live" /\ row' = [row EXCEPT ![c] = [m EXCEPT !.approved = row[c].version]]
        /\ objects' = objects \ {c} /\ ledger' = ledger
    BY <1>4 DEF EraseFile
  <2>2. \A d \in Applicants : /\ row'[d].version = row[d].version
                              /\ row'[d] # row[d] => d = c /\ row'[d].kind = "erasing"
    BY <1>1, <2>1 DEF PersonRow
  <2>3. OrderOK' /\ UNCHANGED <<VersionOf, Tombstones, ProofOf>>
    BY <2>1, <2>2 DEF OrderOK, VersionOf, Tombstones, ProofOf
  <2> QED
    BY <2>1, <2>3, MovesAre DEF InOrder
<1>5. CASE Redact(c)
  <2>1. /\ row[c].kind = "erasing" /\ row' = [row EXCEPT ![c] = Redacted(row[c], row[c].approved, clock)]
        /\ objects' = objects /\ ledger' = ledger
    BY <1>5 DEF Redact
  <2>2. row[c].approved = row[c].version /\ c \notin objects
    BY <1>1, <2>1 DEF WorkOK
  <2>3. /\ row'[c].kind = "redacted" /\ row'[c].version = row[c].version + 1 /\ row'[c].approved = row[c].version
        /\ \A d \in Applicants \ {c} : row'[d] = row[d]
    BY <1>1, <2>1, <2>2 DEF PersonRow, Redacted
  <2>4. VersionOf' = [VersionOf EXCEPT ![c] = @ + 1]
    BY <2>3 DEF VersionOf
  <2>5. /\ OrderOK' /\ c \notin objects \cup Tombstones /\ Tombstones' = Tombstones \cup {c} /\ ProofOf' = ProofOf
    BY <2>1, <2>2, <2>3 DEF OrderOK, Tombstones, ProofOf
  <2> QED
    BY <2>1, <2>4, <2>5, MovesAre DEF InOrder
<1>6. CASE Prove(c)
  <2> DEFINE entry == [approved |-> row[c].approved, at |-> row[c].at]
  <2>1. /\ row[c].kind = "redacted" /\ ledger[c] = Nothing /\ ledger' = [ledger EXCEPT ![c] = entry]
        /\ row' = row /\ objects' = objects
    BY <1>6 DEF Prove
  <2>2. row[c].version = row[c].approved + 1 /\ row[c].approved \in Int
    BY <1>1, <2>1 DEF OrderOK, WorkOK
  <2>3. ledger'[c] = entry /\ entry.approved = row[c].approved /\ \A d \in Applicants \ {c} : ledger'[d] = ledger[d]
    BY <1>1, <2>1
  <2> HIDE DEF entry
  <2>4. OrderOK' /\ c \in Tombstones /\ ProofOf[c] = Nothing /\ UNCHANGED <<VersionOf, Tombstones>>
    BY <2>1 DEF OrderOK, Tombstones, VersionOf, ProofOf
  <2>5. CASE entry = Nothing
    <3>1. ProofOf' = ProofOf
      BY <2>1, <2>3, <2>5 DEF ProofOf
    <3> QED
      BY <2>1, <2>4, <3>1, MovesAre DEF InOrder
  <2>6. CASE entry # Nothing
    <3>1. VersionOf[c] - 1 = row[c].approved
      BY <2>2 DEF VersionOf
    <3>2. ProofOf'[c] = row[c].approved /\ \A d \in Applicants \ {c} : ProofOf'[d] = ProofOf[d]
      BY <2>3, <2>6 DEF ProofOf
    <3>3. ProofOf' = [ProofOf EXCEPT ![c] = VersionOf[c] - 1]
      BY <3>1, <3>2 DEF ProofOf
    <3> QED
      BY <2>1, <2>4, <3>3, MovesAre DEF InOrder
  <2> QED
    BY <2>5, <2>6
<1> QED
  BY <1>2, <1>3, <1>4, <1>5, <1>6 DEF Work

(* ... and when candidates are deleted again.                               *)
LEMMA RemoveInOrder ==
  ASSUME RecoveryInv, OrderOK, NEW c \in Applicants, NEW t \in Threads, RemoveFile(c, t)
  PROVE  InOrder
<1>1. objects' \in {objects, objects \ {c}} /\ UNCHANGED <<row, ledger, restore>>
  BY DEF RemoveFile, planeVars
<1>2. OrderOK'
  BY <1>1 DEF OrderOK
<1>3. UNCHANGED <<VersionOf, Tombstones, ProofOf>>
  BY <1>1 DEF VersionOf, Tombstones, ProofOf
<1> QED
  BY <1>1, <1>2, <1>3, MovesAre DEF InOrder

LEMMA RedactInOrder ==
  ASSUME RecoveryInv, OrderOK, NEW c \in Applicants, NEW t \in Threads, RedactAgain(c, t), row' # row
  PROVE  InOrder
<1>1. /\ row' = [row EXCEPT ![c] = Redacted(row[c], ledger[c].approved, clock)]
      /\ UNCHANGED <<objects, ledger, restore>> /\ thread[c][t].pc = "redact" /\ thread[c][t] # Idle
  BY IdleIs DEF RedactAgain, EndAttempt, backupVars, data, planeVars
<1>2. run # Nothing /\ c \in Applicable
  BY <1>1, TakenUp
<1>3. /\ row \in [Applicants -> PersonRow] /\ row[c] \in PersonRow /\ row[c].version \in Int /\ c \notin objects
      /\ restore.step = "done"
  BY <1>1, <1>2, JobFacts, BackupRows, PlaneTypes DEF ThreadOK, RecoveryInv, RestoreOK
<1>4. row[c].kind # "redacted"
  BY <1>1, <1>3 DEF Redacted
<1>5. /\ row'[c].kind = "redacted" /\ row'[c].version = row[c].version + 1
      /\ \A d \in Applicants \ {c} : row'[d] = row[d]
  BY <1>1, <1>3, <1>4 DEF PersonRow, Redacted
<1>6. VersionOf' = [VersionOf EXCEPT ![c] = @ + 1]
  BY <1>5 DEF VersionOf
<1>7. /\ OrderOK' /\ c \notin objects \cup Tombstones /\ Tombstones' = Tombstones \cup {c} /\ ProofOf' = ProofOf
  BY <1>1, <1>3, <1>4, <1>5 DEF OrderOK, Tombstones, ProofOf
<1> QED
  BY <1>1, <1>6, <1>7, MovesAre DEF InOrder

LEMMA JobInOrder ==
  ASSUME RecoveryInv, OrderOK, NEW c \in Applicants, Job(c)
  PROVE  InOrder
<1>1. ASSUME NEW t \in Threads, RemoveFile(c, t) PROVE InOrder
  BY <1>1, RemoveInOrder
<1>2. ASSUME NEW t \in Threads, RedactAgain(c, t) PROVE InOrder
  <2>1. CASE row' = row
    <3>1. UNCHANGED <<row, objects, ledger, restore>>
      BY <1>2, <2>1 DEF RedactAgain, EndAttempt, backupVars, data, planeVars
    <3> QED
      BY <3>1, NobodyMoves
  <2> QED
    BY <1>2, <2>1, RedactInOrder
<1>3. ASSUME NEW t \in Threads,
             Claim(c, t) \/ BeginDeletion(c, t) \/ MarkDeleted(c, t) \/ Count(c, t) \/ Complete(c, t)
             \/ Finish(c, t) \/ Outage(c, t) \/ Die(c, t)
      PROVE  UNCHANGED <<backupVars, planeVars>>
  BY <1>3 DEF Claim, BeginDeletion, MarkDeleted, Count, Complete, Finish, Outage, Die, EndAttempt
<1>4. ASSUME UNCHANGED <<backupVars, planeVars>> PROVE InOrder
  BY <1>4, NobodyMoves DEF backupVars, data, planeVars
<1>5. CASE LoseLease(c)
  BY <1>4, <1>5 DEF LoseLease
<1> QED
  BY <1>1, <1>2, <1>3, <1>4, <1>5 DEF Job, Handle

LEMMA ProduceInOrder ==
  ASSUME RecoveryInv, OrderOK, Produce
  PROVE  InOrder
<1>1. restore.step = "none" /\ restore' = restore /\ BackupNext
  BY DEF Produce, recoveryVars, planeVars
<1>2. CASE \E c \in Applicants : Work(c)
  BY <1>1, <1>2, WorkInOrder
<1>3. CASE Schedule
  BY <1>1, <1>3, NobodyMoves DEF Schedule, Start, LedgerPublish, Dump, Snapshot, BusinessPublish, Succeed, StageFails,
     Reconcile, data
<1>4. CASE PlanPrune \/ PruneStops \/ RotateKey \/ \E r \in Runs : DeleteGroup(r)
  BY <1>1, <1>4, NobodyMoves DEF PlanPrune, PruneStops, RotateKey, DeleteGroup, data
<1> QED
  BY <1>1, <1>2, <1>3, <1>4 DEF BackupNext

(* A restore that begins again from the beginning finds nobody to set back. *)
LEMMA RestoreInOrder ==
  ASSUME RecoveryInv, OrderOK, (\E r \in Runs : BeginRestore(r)) \/ RestoreLedger \/ RestoreDatabase \/ RestoreObjects
  PROVE  OrderOK' /\ (restore'.step = restore.step => [Order!ErasureNext]_(Order!stores))
<1>1. CASE \E r \in Runs : BeginRestore(r)
  <2>1. /\ restore'.step = "ledger" /\ row' = [c \in Applicants |-> NewRow] /\ objects' = {}
        /\ ledger' = [c \in Applicants |-> Nothing]
    BY <1>1 DEF BeginRestore
  <2>2. OrderOK'
    BY <2>1 DEF OrderOK
  <2>3. ASSUME restore.step = "ledger" PROVE [Order!ErasureNext]_(Order!stores)
    <3>1. objects \in SUBSET Applicants
      BY PlaneTypes, BackupTypes
    <3>2. UNCHANGED <<objects, VersionOf, Tombstones, ProofOf>>
      BY <2>1, <2>3, <3>1 DEF OrderOK, VersionOf, Tombstones, ProofOf
    <3> QED
      BY <3>2 DEF Order!stores, Tombstones, VersionOf, ProofOf
  <2> QED
    BY <2>1, <2>2, <2>3
<1>2. ASSUME NEW step, NEW next, step # next, next \notin {"none", "ledger"}, Restoring(step, next)
      PROVE  OrderOK' /\ restore'.step # restore.step
  BY <1>2 DEF Restoring, OrderOK
<1> QED
  BY <1>1, <1>2 DEF RestoreLedger, RestoreDatabase, RestoreObjects

LEMMA OrderInductive ==
  ASSUME RecoveryInv, OrderOK, [RecoveryNext]_RecoveryVars
  PROVE  OrderOK' /\ (restore'.step = restore.step => [Order!ErasureNext]_(Order!stores))
<1>1. CASE Produce
  BY <1>1, ProduceInOrder DEF InOrder
<1>2. CASE (\E r \in Runs : BeginRestore(r)) \/ RestoreLedger \/ RestoreDatabase \/ RestoreObjects
  BY <1>2, RestoreInOrder
<1>3. CASE \E c \in Applicants : Job(c)
  BY <1>3, JobInOrder DEF InOrder
<1>4. CASE Protocol \/ UNCHANGED RecoveryVars
  <2>1. UNCHANGED <<backupVars, restore>>
    BY <1>4 DEF Protocol, Ask, Prepare, Attest, Accept, TrafficGate, Verdict, RecoveryVars, recoveryVars, planeVars
  <2> QED
    BY <2>1, NobodyMoves DEF InOrder, backupVars, data
<1> QED
  BY <1>1, <1>2, <1>3, <1>4 DEF RecoveryNext

LEMMA OrderBegins ==
  ASSUME RecoveryInit
  PROVE  OrderOK /\ Order!ErasureInit
<1>1. PICK there \in SUBSET Applicants :
        /\ row = [c \in Applicants |-> IF c \in there THEN [NewRow EXCEPT !.kind = "live"] ELSE NewRow]
        /\ objects = there
  BY DEF RecoveryInit, BackupInit
<1>2. ledger = [c \in Applicants |-> Nothing] /\ restore.step = "none"
  BY DEF RecoveryInit, BackupInit
<1>3. \A c \in Applicants : row[c].kind \in {"none", "live"} /\ row[c].version = 1
  BY <1>1 DEF NewRow
<1>4. OrderOK
  BY <1>2, <1>3 DEF OrderOK
<1>5. Order!ErasureInit
  BY <1>1, <1>2, <1>3 DEF Order!ErasureInit
<1> QED
  BY <1>4, <1>5

(* Beside the backups and after a restore, a candidate's file goes before   *)
(* the personal data, and what the ledger names is the version before the   *)
(* tombstone's: the order of Erasure, which the deletion in full keeps as   *)
(* well (recovery.py:440-466).                                              *)
THEOREM OrderKept == RecoverySpec => KeepsOrder
<1>1. RecoveryInit => OrderOK /\ Order!ErasureInit
  BY OrderBegins
<1>2. RecoveryInv /\ OrderOK /\ [RecoveryNext]_RecoveryVars => OrderOK'
  BY OrderInductive
<1>3. RecoveryInv /\ OrderOK /\ [RecoveryNext]_RecoveryVars
        => [restore'.step = restore.step => [Order!ErasureNext]_(Order!stores)]_RecoveryVars
  BY OrderInductive
<1> QED
  BY <1>1, <1>2, <1>3, RecoveryInvariant, PTL DEF RecoverySpec, KeepsOrder
=============================================================================
