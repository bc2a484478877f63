----------------------------- MODULE Retention -----------------------------
(***************************************************************************)
(* How long a candidate is kept: the retention policy, the due date on the *)
(* candidate, the talent pools that extend it, the applications that       *)
(* suspend it, and the daily sweep that opens a deletion request           *)
(* (server/app/governance, server/app/talent, server/app/recruiting).      *)
(*                                                                         *)
(* There is one candidate and one open job posting.  Whatever changes the  *)
(* candidate's facts holds the candidate's row lock and is one step; the   *)
(* sweep reads the policy, then takes the snapshot its claim is made of,   *)
(* then locks the candidate, and each may be long after the one before.    *)
(* Time is in days; dates beyond LastDay never come.                       *)
(***************************************************************************)
EXTENDS Integers, FiniteSets, FiniteSetsExt

CONSTANTS
  Applications,   \* applications the candidate may make for the job posting, by number
  Pools,          \* ordinary talent pools; System is the one of deferred candidates
  System, None,
  Values,         \* what the policy may say: terminal and talent pool days
  LastFact,       \* bound: the last day on which people act
  LastDay,        \* bound: the last day there is
  MaxDays,        \* the most a policy may say
  MaxActs,        \* bound on what people do
  MaxAttempts     \* max_attempts of a sweep

ASSUME ConstantsAssumption ==
  /\ MaxDays \in Nat /\ Values \subseteq [terminal : 1..MaxDays, talent : 1..MaxDays] /\ Values # {}
  /\ IsFiniteSet(Applications) /\ Applications \subseteq Nat
  /\ System \notin Pools /\ None \notin Nat /\ None \notin Applications
  /\ LastFact \in Nat /\ LastDay \in Nat /\ LastFact <= LastDay
  /\ MaxActs \in Nat /\ MaxAttempts \in Nat \ {0}

VARIABLES
  day,
  policy,    \* retention_policies: days and version
  preview,   \* the last preview of a policy change: its impact token
  cand,      \* the latest dated fact, retention_due_at, deleted_at
  app,       \* stage of each application
  pool,      \* retention days of the pools that exist
  member,    \* talent_pool_memberships of the candidate, by pool
  begun,     \* a write whose handler has read the candidate, not locked it yet
  hold,      \* an unreleased legal hold
  request,   \* the deletion request: none, open or completed
  sweep,     \* the job of the next sweep, and its transaction
  acts       \* what people have done

facts == <<cand, app, member>>
governance == <<hold, request>>
vars == <<day, policy, preview, facts, pool, begun, governance, sweep, acts>>

Days == 0..LastDay
Horizon == LastDay + MaxDays
Dates == 0..Horizon
Over == {"none", "ended"}
PolicyRow == [days : Values, version : 1..MaxActs + 1]
Token == [days : Values, version : 1..MaxActs + 1, affected : BOOLEAN, day : Days]
CandidateRow == [fact : Days, due : Dates \cup {None}, deleted : BOOLEAN]
MembershipRow == [until : Dates, source : Applications \cup {None}, active : BOOLEAN]
SweepRow == [pc : {"none", "queued", "read", "scanned"}, date : 0..LastDay + 1, at : Days,
             terminal : Nat, hit : BOOLEAN, n : 0..MaxAttempts]

TypeOK ==
  /\ day \in Days /\ policy \in PolicyRow /\ preview \in Token \cup {None}
  /\ cand \in CandidateRow /\ acts \in 0..MaxActs
  /\ app \in [Applications -> {"none", "new", "review", "deferred", "ended"}]
  /\ DOMAIN pool \subseteq Pools \cup {System}
  /\ DOMAIN member \subseteq DOMAIN pool
  /\ \A p \in DOMAIN pool : pool[p] \in Nat
  /\ \A p \in DOMAIN member : member[p] \in MembershipRow
  /\ begun \in {"nothing", "apply", "join"}
  /\ hold \in BOOLEAN /\ request \in {"none", "open", "completed"}
  /\ sweep \in SweepRow

-----------------------------------------------------------------------------
(* Due dates.                                                               *)

Live(a) == {x \in Applications : a[x] \notin Over}

(* candidate_due_dates: nothing is due while an application is live;        *)
(* otherwise the latest fact and the active memberships decide.             *)
DueDate(terminal, fact, a, m) ==
  IF Live(a) # {} THEN None
  ELSE Max({fact + terminal} \cup {m[p].until : p \in {q \in DOMAIN m : m[q].active}})

Due(terminal) == DueDate(terminal, cand.fact, app, member)

(* recalculate_candidate_retention after a change of the facts.             *)
Recalculated(fact, a, m) ==
  [cand EXCEPT !.fact = fact, !.due = DueDate(policy.days.terminal, fact, a, m)]

(* A candidate just entered by hand, or by a screening run with an          *)
(* application.                                                             *)
Init ==
  /\ day = 0 /\ preview = None
  /\ \E v \in Values : policy = [days |-> v, version |-> 1]
  /\ app \in [Applications -> {"none", "new"}] /\ \A a \in Live(app), b \in Applications : b >= a
  /\ pool = [p \in Pools |-> 1] /\ member = [p \in {} |-> None]
  /\ cand = [fact |-> 0, due |-> DueDate(policy.days.terminal, 0, app, member), deleted |-> FALSE]
  /\ acts = 0 /\ begun = "nothing" /\ hold = FALSE /\ request = "none"
  /\ sweep = [pc |-> "none", date |-> 0, at |-> 0, terminal |-> 0, hit |-> FALSE, n |-> 0]

Tomorrow(d) == Min({d + 1, LastDay})

Tick ==
  /\ day < LastDay
  /\ day' = day + 1
  /\ UNCHANGED <<acts, policy, preview, facts, pool, begun, governance, sweep>>

-----------------------------------------------------------------------------
(* Applications.                                                            *)

Acts == day <= LastFact /\ acts < MaxActs /\ acts' = acts + 1
Locked == ~cand.deleted   \* lock_active_candidate, when the lock is the first read

(* A step that sets the stage of x, and recalculates.                       *)
SetStage(x, s) ==
  /\ app' = [app EXCEPT ![x] = s]
  /\ cand' = Recalculated(day, app', member)

(* x is the next application, and no other for the posting is live.          *)
Created(x) ==
  /\ Live(app) = {}
  /\ app[x] = "none" /\ \A y \in Applications : y < x => app[y] # "none"

Unchanged == UNCHANGED <<day, policy, preview, begun, governance, sweep>>

(* create_application and create_talent_pool_membership read the candidate  *)
(* before they lock it, and the lock does not refresh what was read.        *)
Begin(w) ==
  /\ day <= LastFact /\ acts < MaxActs
  /\ Locked /\ begun = "nothing"
  /\ begun' = w
  /\ UNCHANGED <<acts, day, policy, preview, facts, pool, governance, sweep>>

Apply(x) ==
  /\ Acts /\ begun = "apply"
  /\ Created(x)
  /\ SetStage(x, "new")
  /\ begun' = "nothing"
  /\ UNCHANGED <<day, policy, preview, member, pool, governance, sweep>>

(* A step of the application: its interviews, notes, corrections, ...       *)
Progress ==
  /\ Acts /\ Locked
  /\ cand' = Recalculated(day, app, member)
  /\ Unchanged /\ UNCHANGED <<app, member, pool>>

(* Mutant: an application ends and the due date is left as it was.          *)
EndSilently(x) ==
  /\ Acts /\ Locked /\ app[x] \notin Over
  /\ app' = [app EXCEPT ![x] = "ended"] /\ cand' = [cand EXCEPT !.fact = day]
  /\ Unchanged /\ UNCHANGED <<member, pool>>

(* Any way an application ends.                                             *)
End(x) ==
  /\ Acts /\ Locked /\ app[x] \notin Over
  /\ SetStage(x, "ended")
  /\ Unchanged /\ UNCHANGED <<member, pool>>

Review(x) ==
  /\ Acts /\ Locked /\ app[x] = "new"
  /\ SetStage(x, "review")
  /\ Unchanged /\ UNCHANGED <<member, pool>>

UndoAdvance(x) ==
  /\ Acts /\ Locked /\ app[x] = "review"
  /\ SetStage(x, "new")
  /\ Unchanged /\ UNCHANGED <<member, pool>>

(* The handover of a member's work stamps applications and candidates       *)
(* without a recalculation.                                                 *)
Handover ==
  /\ Acts /\ ~cand.deleted
  /\ cand' = [cand EXCEPT !.fact = day]
  /\ Unchanged /\ UNCHANGED <<app, member, pool>>

-----------------------------------------------------------------------------
(* Talent pools.                                                            *)

Put(m, p, row) == [q \in DOMAIN m \cup {p} |-> IF q = p THEN row ELSE m[q]]
Drop(m, p) == [q \in DOMAIN m \ {p} |-> m[q]]
Belong(m) ==
  /\ member' = m
  /\ cand' = Recalculated(cand.fact, app, m)

CreatePool(p) ==
  /\ Acts /\ p \in Pools \ DOMAIN pool
  /\ pool' = Put(pool, p, 1)
  /\ Unchanged /\ UNCHANGED facts

DeletePool(p) ==
  /\ Acts /\ p \in DOMAIN pool \ {System} /\ p \notin DOMAIN member
  /\ pool' = Drop(pool, p)
  /\ Unchanged /\ UNCHANGED facts

Join(p, until, source) ==
  /\ Acts /\ begun = "join"
  /\ p \in DOMAIN pool /\ p \notin DOMAIN member
  /\ Belong(Put(member, p, [until |-> until, source |-> source, active |-> TRUE]))
  /\ begun' = "nothing"
  /\ UNCHANGED <<day, policy, preview, app, pool, governance, sweep>>

(* A change of a membership's date or status, or its removal.               *)
Amend(p, until, active) ==
  /\ Acts /\ Locked /\ p \in DOMAIN member
  /\ Belong([member EXCEPT ![p].until = until, ![p].active = active])
  /\ Unchanged /\ UNCHANGED <<app, pool>>

Move(p, q) ==
  /\ Acts /\ Locked /\ p \in DOMAIN member
  /\ System \notin {p, q} /\ q \in DOMAIN pool \ DOMAIN member
  /\ Belong(Put(Drop(member, p), q, member[p]))
  /\ Unchanged /\ UNCHANGED <<app, pool>>

Leave(p) ==
  /\ Acts /\ Locked /\ p \in DOMAIN member
  /\ Belong(Drop(member, p))
  /\ Unchanged /\ UNCHANGED <<app, pool>>

(* ensure_deferred_membership: a later deferral moves the source, and the   *)
(* date only forward.                                                       *)
Deferral(x) ==
  LET until == day + policy.days.talent
      old == IF System \in DOMAIN member THEN {member[System].until} ELSE {}
  IN [until |-> Max({until} \cup old), source |-> x,
      active |-> System \in DOMAIN member => member[System].active]

(* _ensure_system_pool: found or made, with the policy's days.               *)
WithSystemPool == Put(pool, System, policy.days.talent)

Defer(x) ==
  /\ Acts /\ Locked /\ app[x] = "new"
  /\ pool' = WithSystemPool
  /\ member' = Put(member, System, Deferral(x))
  /\ app' = [app EXCEPT ![x] = "deferred"]
  /\ cand' = Recalculated(day, app', member')
  /\ Unchanged

(* refer_deferred_membership_to_review                                      *)
Refer(p) ==
  /\ Acts /\ Locked /\ p \in DOMAIN member
  /\ member[p].active /\ member[p].source # None
  /\ app[member[p].source] = "deferred"
  /\ SetStage(member[p].source, "review")
  /\ Unchanged /\ UNCHANGED <<member, pool>>

Reactivate(p, x) ==
  /\ Acts /\ Locked /\ p \in DOMAIN member
  /\ member[p].active /\ member[p].source # None
  /\ app[member[p].source] = "ended"
  /\ Created(x)
  /\ SetStage(x, "new")
  /\ Unchanged /\ UNCHANGED <<member, pool>>

-----------------------------------------------------------------------------
(* The policy.                                                              *)

Shortens(v) == v.terminal < policy.days.terminal \/ v.talent < policy.days.talent
Affected(v) == Due(v.terminal) # cand.due

Preview(v) ==
  /\ Acts
  /\ preview' = [days |-> v, version |-> policy.version, affected |-> Affected(v), day |-> day]
  /\ UNCHANGED <<day, policy, facts, pool, begun, governance, sweep>>

(* Mutant: a preview is accepted whatever it showed.                        *)
VerifiedByVersion(v) ==
  /\ preview # None
  /\ preview.days = v /\ preview.day = day
  /\ preview.version = policy.version

(* _verify_preview: a token of ten minutes is one of the same day.          *)
Verified(v) ==
  /\ preview # None
  /\ preview.days = v /\ preview.day = day
  /\ preview.version = policy.version /\ preview.affected = Affected(v)

UpdatePolicy(v) ==
  /\ Acts
  /\ Shortens(v) => Verified(v)
  /\ policy' = [days |-> v, version |-> policy.version + 1]
  /\ cand' = [cand EXCEPT !.due = Due(v.terminal)]
  /\ UNCHANGED <<day, preview, app, member, pool, begun, governance, sweep>>

-----------------------------------------------------------------------------
(* Legal holds and deletion requests, as far as retention sees them.        *)

PlaceHold ==
  /\ Acts /\ Locked /\ ~hold
  /\ hold' = TRUE
  /\ UNCHANGED <<day, policy, preview, facts, pool, begun, request, sweep>>

ReleaseHold ==
  /\ Acts /\ hold
  /\ hold' = FALSE
  /\ UNCHANGED <<day, policy, preview, facts, pool, begun, request, sweep>>

AskDeletion ==
  /\ Acts /\ Locked /\ request # "open"
  /\ request' = "open"
  /\ UNCHANGED <<day, policy, preview, facts, pool, begun, hold, sweep>>

(* The approved request is executed: CandidateDeletion has the whole of it. *)
Erase ==
  /\ Acts /\ Locked /\ request = "open" /\ ~hold
  /\ request' = "completed"
  /\ app' = [a \in Applications |-> IF app[a] = "none" THEN "none" ELSE "ended"]
  /\ member' = [p \in {} |-> None]
  /\ cand' = [cand EXCEPT !.deleted = TRUE, !.due = None, !.fact = day]
  /\ UNCHANGED <<day, policy, preview, pool, begun, hold, sweep>>

-----------------------------------------------------------------------------
(* The sweep.                                                               *)

StartSweep ==
  /\ sweep.pc = "queued" /\ sweep.date <= day
  /\ sweep' = [sweep EXCEPT !.pc = "read", !.at = day, !.terminal = policy.days.terminal, !.n = @ + 1]
  /\ UNCHANGED <<acts, day, policy, preview, facts, pool, begun, governance>>

(* What the row of the candidate says to the claim.                         *)
Claimable(at) == ~cand.deleted /\ cand.due # None /\ cand.due <= at
Exempt == Live(app) # {} \/ hold \/ request = "open"

(* The claim's snapshot.                                                    *)
Scan ==
  /\ sweep.pc = "read"
  /\ sweep' = [sweep EXCEPT !.pc = "scanned", !.hit = Claimable(sweep.at) /\ ~Exempt]
  /\ UNCHANGED <<acts, day, policy, preview, facts, pool, begun, governance>>

NextSweep == [sweep EXCEPT !.pc = "queued", !.date = Tomorrow(@), !.at = 0, !.terminal = 0, !.hit = FALSE, !.n = 0]

(* Mutant: a sweep that has used its attempts queues nothing.               *)
DeadSweepEnds == [NextSweep EXCEPT !.pc = "none"]

(* The terminal callback of a sweep that has used its attempts queues the   *)
(* next day's.                                                              *)
DeadSweep == NextSweep
FailedSweep ==
  IF sweep.n = MaxAttempts THEN DeadSweep
  ELSE [sweep EXCEPT !.pc = "queued", !.at = 0, !.terminal = 0, !.hit = FALSE]

(* Mutant: the due date on the row is taken at its word.                    *)
FoundAsStored == cand.due

(* The candidate's row is locked and read again; what the claim asked of    *)
(* other tables is not.                                                     *)
Claims == sweep.hit /\ Claimable(sweep.at)
Found == Due(sweep.terminal)

Redate ==
  /\ sweep.pc = "scanned" /\ Claims
  /\ (Found = None \/ Found > sweep.at \/ Found # cand.due)
  /\ cand' = [cand EXCEPT !.due = Found]
  /\ sweep' = NextSweep
  /\ UNCHANGED <<acts, day, policy, preview, app, member, pool, begun, governance>>

Request ==
  /\ sweep.pc = "scanned" /\ Claims
  /\ Found # None /\ Found <= sweep.at /\ Found = cand.due /\ request # "open"
  /\ request' = "open"
  /\ sweep' = NextSweep
  /\ UNCHANGED <<acts, day, policy, preview, facts, pool, begun, hold>>

(* The claim is empty, or the row is locked by another transaction.         *)
Pass ==
  /\ sweep.pc = "scanned"
  /\ sweep' = NextSweep
  /\ UNCHANGED <<acts, day, policy, preview, facts, pool, begun, governance>>

(* A crash, a lost lease, or a second request refused by the unique index:  *)
(* the transaction leaves nothing.                                          *)
FailSweep ==
  /\ sweep.pc = "scanned"
  /\ sweep' = FailedSweep
  /\ UNCHANGED <<acts, day, policy, preview, facts, pool, begun, governance>>

(* seed_retention_sweeps, run by an operator after the deployment.          *)
Seed ==
  /\ sweep.pc = "none"
  /\ sweep' = [NextSweep EXCEPT !.date = day]
  /\ UNCHANGED <<acts, day, policy, preview, facts, pool, begun, governance>>

Candidates ==
  \/ \E w \in {"apply", "join"} : Begin(w)
  \/ \E x \in Applications : Apply(x) \/ End(x) \/ Review(x) \/ UndoAdvance(x) \/ Defer(x)
  \/ Progress \/ Handover

Talent ==
  \/ \E p \in Pools : CreatePool(p) \/ DeletePool(p)
  \/ \E p \in Pools \cup {System}, x \in {None} \cup {a \in Applications : app[a] # "none"} :
       Join(p, LastDay, x)
  \/ \E p \in Pools \cup {System} :
       \/ \E b \in BOOLEAN : Amend(p, day, b)
       \/ \E q \in Pools : Move(p, q)
       \/ Leave(p) \/ Refer(p)
       \/ \E x \in Applications : Reactivate(p, x)

Governance ==
  \/ \E v \in Values : Preview(v) \/ UpdatePolicy(v)
  \/ PlaceHold \/ ReleaseHold \/ AskDeletion \/ Erase

Sweeps == StartSweep \/ Scan \/ Redate \/ Request \/ Pass \/ FailSweep \/ Seed

Next == Tick \/ Candidates \/ Talent \/ Governance \/ Sweeps

(* Time passes, a worker runs what is queued, and the lock is not held by   *)
(* someone else at every single sweep.                                      *)
Fairness ==
  /\ WF_vars(Tick) /\ WF_vars(StartSweep) /\ WF_vars(Scan) /\ WF_vars(Pass)
  /\ SF_vars(Redate) /\ SF_vars(Request)

Spec == Init /\ [][Next]_vars /\ Fairness

-----------------------------------------------------------------------------
(* A candidate has no due date exactly while an application is live: a      *)
(* path that ends an application without recalculating would hide the       *)
(* candidate from every later sweep.                                        *)
DueIffOver == ~cand.deleted => (cand.due = None <=> Live(app) # {})

(* A sweep opens a request only for a candidate whose retention is over by  *)
(* the policy and the facts of that moment: no live application, the latest *)
(* fact and every active membership run out, and none is open already; what *)
(* changed since the due date was written, the policy was read or the claim *)
(* was made does not matter.                                                *)
OverNow ==
  /\ ~cand.deleted /\ Live(app) = {}
  /\ cand.fact + policy.days.terminal <= day
  /\ \A p \in DOMAIN member : member[p].active => member[p].until <= day
SweptIsOver == [][Request => OverNow]_vars

(* When the policy is shortened, a candidate that was not in the preview    *)
(* the administrator confirmed keeps the date it had.                       *)
ShorteningWasSeen ==
  [][(\E v \in Values : Shortens(v) /\ policy' = [days |-> v, version |-> policy.version + 1])
       => (cand'.due # cand.due => preview.affected)]_vars

(* A candidate whose retention is over, and whom nothing exempts, does not  *)
(* stay so once the sweeps are seeded: each queues the next one, when it    *)
(* succeeds and when it has failed for the last time; stale due dates are   *)
(* found and corrected, and the request is opened.                          *)
Overdue == ~cand.deleted /\ ~hold /\ request = "none" /\ Live(app) = {} /\ Due(policy.days.terminal) <= day
Seeded == sweep.pc # "none"
SweepsReach == <>Seeded => []<>~Overdue

-----------------------------------------------------------------------------
(* The inductive invariant.                                                 *)

(* While a sweep is under way: it has read a policy that was, and if that   *)
(* is no longer the policy, the due date was written anew since or the      *)
(* candidate has a fact of the day the sweep goes by, or a later one.       *)
UnderWay == sweep.pc \in {"read", "scanned"}
Judged ==
  \/ cand.deleted
  \/ sweep.terminal = policy.days.terminal
  \/ cand.due = Due(policy.days.terminal)
  \/ cand.fact >= sweep.at
SweepOK ==
  /\ sweep.pc = "queued" => sweep.n < MaxAttempts
  /\ UnderWay => sweep.at <= day /\ sweep.terminal \in 1..MaxDays /\ Judged

VersionsCount == policy.version <= acts + 1

IInv == TypeOK /\ VersionsCount /\ SweepOK /\ DueIffOver
=============================================================================
