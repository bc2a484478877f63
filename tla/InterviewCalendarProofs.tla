---------------------- MODULE InterviewCalendarProofs ----------------------
(***************************************************************************)
(* Proofs about InterviewCalendar, for any workers and any number of       *)
(* changes and attempts, and about InterviewNotices, for any number of     *)
(* mails, changes and attempts.                                            *)
(***************************************************************************)
EXTENDS InterviewCalendar, InterviewNotices, TLAPS

(* The types, table by table.                                               *)
InterviewRow == [status : Statuses, plan : Plans, video : BOOLEAN, url : Urls]
SyncRow == [action : {"create", "update", "cancel"}, gen : {0} \cup Gens, ext : {0} \cup Gens,
            tried : BOOLEAN, status : {"disabled", "pending", "synced", "failed", "cancelled"}]
MessageRow == [st : {"none", "queued", "running", "published", "failed"}, tries : 0..OutboxTries]
HandlerRow == [pc : {"idle", "claimed", "called", "done"}, gen : {0} \cup Gens, res : {"none", "ok", "error"}]
EventRow == [st : {"none", "live", "deleted"}, shows : Plans]
LedgerRow == [items : SUBSET Items, attested : BOOLEAN]

LEMMA Types ==
  TypeOK <=> /\ app \in {"open", "withdrawn", "terminated"} /\ enabled \in BOOLEAN
             /\ iv \in InterviewRow /\ sync \in SyncRow
             /\ box \in [Gens -> MessageRow] /\ proc \in [Procs -> HandlerRow]
             /\ remote \in [Gens -> EventRow] /\ lost \subseteq Gens /\ ledger \in LedgerRow
  BY DEF TypeOK, InterviewRow, SyncRow, MessageRow, HandlerRow, EventRow, LedgerRow

LEMMA TypesNext ==
  TypeOK' <=> /\ app' \in {"open", "withdrawn", "terminated"} /\ enabled' \in BOOLEAN
              /\ iv' \in InterviewRow /\ sync' \in SyncRow
              /\ box' \in [Gens -> MessageRow] /\ proc' \in [Procs -> HandlerRow]
              /\ remote' \in [Gens -> EventRow] /\ lost' \subseteq Gens /\ ledger' \in LedgerRow
  BY DEF TypeOK, InterviewRow, SyncRow, MessageRow, HandlerRow, EventRow, LedgerRow

LEMMA Numbers ==
  /\ Plans \subseteq Nat /\ Gens \subseteq Nat /\ 0 \notin Gens /\ OwnLink \notin {0} \cup Gens
  /\ \A g \in Nat : g \in Gens <=> 1 <= g /\ g <= MaxPlan + 2
  /\ \A n \in Nat : n \in Plans <=> n <= MaxPlan
  BY ConstantsAssumption DEF Plans, Gens, OwnLink

LEMMA Rows ==
  ASSUME TypeOK
  PROVE  /\ sync.gen \in {0} \cup Gens /\ sync.ext \in {0} \cup Gens /\ sync.gen \in Nat /\ sync.ext \in Nat
         /\ iv.plan \in Plans /\ iv.plan \in Nat /\ iv.url \in Urls /\ iv.status \in Statuses /\ iv.video \in BOOLEAN
         /\ \A p \in Procs : proc[p] \in HandlerRow /\ proc[p].gen \in {0} \cup Gens /\ proc[p].gen \in Nat
         /\ \A g \in Gens : box[g] \in MessageRow /\ remote[g] \in EventRow
<1>1. sync \in SyncRow /\ iv \in InterviewRow
  BY Types
<1>2. proc \in [Procs -> HandlerRow] /\ box \in [Gens -> MessageRow] /\ remote \in [Gens -> EventRow]
  BY Types
<1>3. sync.gen \in {0} \cup Gens /\ sync.ext \in {0} \cup Gens
  BY <1>1 DEF SyncRow
<1>4. iv.plan \in Plans /\ iv.url \in Urls /\ iv.status \in Statuses /\ iv.video \in BOOLEAN
  BY <1>1 DEF InterviewRow
<1>5. \A p \in Procs : proc[p] \in HandlerRow /\ proc[p].gen \in {0} \cup Gens
  BY <1>2 DEF HandlerRow
<1>6. {0} \cup Gens \subseteq Nat /\ Plans \subseteq Nat
  BY Numbers
<1>7. sync.gen \in Nat /\ sync.ext \in Nat /\ iv.plan \in Nat /\ \A p \in Procs : proc[p].gen \in Nat
  BY <1>3, <1>4, <1>5, <1>6
<1> QED
  BY <1>2, <1>3, <1>4, <1>5, <1>7

-----------------------------------------------------------------------------
(* Workers.                                                                 *)

(* A step of p leaves the others where they are.                            *)
Others(p) == \A q \in Procs : q # p => proc'[q] = proc[q]

LEMMA GotoIs ==
  ASSUME TypeOK, NEW p \in Procs, NEW pc \in {"claimed", "called", "done"}, NEW res \in {"ok", "error"}, Goto(p, pc, res)
  PROVE  /\ proc' \in [Procs -> HandlerRow] /\ Others(p)
         /\ proc'[p].pc = pc /\ proc'[p].gen = proc[p].gen /\ proc'[p].res = res
  BY Types DEF Goto, Others, HandlerRow

LEMMA IdleKept ==
  ASSUME TypeOK, NEW p \in Procs, proc' = [proc EXCEPT ![p] = Idle]
  PROVE  proc' \in [Procs -> HandlerRow] /\ Others(p) /\ WorkerOK(p)' /\ ~AtStep(p, "called")'
  BY Types DEF Others, HandlerRow, Idle, WorkerOK, AtStep

(* A handler that is not in a call stays in order whatever the row becomes, *)
(* unless the row begins to wait for what the handler has done.             *)
LEMMA OutsideKept ==
  ASSUME IInv, NEW q \in Procs, proc'[q] = proc[q], ~AtStep(q, "called"), Ended => Ended',
         \/ sync'.gen = sync.gen /\ (sync'.status = "pending" => sync.status = "pending")
         \/ sync'.gen = sync.gen + 1
  PROVE  WorkerOK(q)' /\ ~AtStep(q, "called")'
<1>1. WorkerOK(q) /\ sync.gen \in Nat
  BY Rows DEF IInv
<1>2. proc[q].gen \in 1..sync.gen => proc[q].gen \in 1..sync'.gen /\ proc[q].gen # sync.gen + 1
  BY <1>1
<1> QED
  BY <1>1, <1>2 DEF WorkerOK, AtStep

(* Nothing a handler relies on has changed.                                 *)
LEMMA WorkerKept ==
  ASSUME IInv, NEW q \in Procs, proc'[q] = proc[q], UNCHANGED <<app, iv, sync, remote, lost>>
  PROVE  WorkerOK(q)' /\ (AtStep(q, "called")' <=> AtStep(q, "called"))
<1>1. WorkerOK(q)
  BY DEF IInv
<1> QED
  BY <1>1 DEF WorkerOK, AtStep, Answered, Stopped, Ended, Live

(* Nobody new is in a call.                                                 *)
LEMMA OneCallKept ==
  ASSUME OneCall, \A q \in Procs : AtStep(q, "called")' => AtStep(q, "called")
  PROVE  OneCall'
  BY DEF OneCall

-----------------------------------------------------------------------------
(* The outbox: claims, reaping and settlement touch the messages only.      *)

(* While the interview, its row and its events stay as they are, only the   *)
(* workers and the messages have to be looked at.                           *)
LEMMA OutboxStep ==
  ASSUME IInv, UNCHANGED <<app, iv, enabled, sync, remote, lost, ledger>>,
         proc' \in [Procs -> HandlerRow], box' \in [Gens -> MessageRow],
         \A g \in Gens : box[g].st = "none" => box'[g].st = "none",
         \A q \in Procs : WorkerOK(q)' /\ (AtStep(q, "called")' <=> AtStep(q, "called")),
         \A q \in Procs : AtStep(q, "called") => proc'[q] = proc[q],
         \A g \in Gens : g = sync.gen /\ sync.status = "pending" /\ ~Ended =>
           (box[g].st \in {"queued", "running", "failed"} => box'[g].st \in {"queued", "running", "failed"})
  PROVE  IInv'
<1>1. TypeOK'
  BY Types, TypesNext DEF IInv
<1>2. GenerationsCount' /\ RowOK' /\ SyncedShowsCurrent' /\ UrlIsOfEvent' /\ LedgerHonest'
  BY DEF IInv, GenerationsCount, RowOK, SyncedShowsCurrent, UrlIsOfEvent, LedgerHonest, Live
<1>3. EventsOK'
  BY DEF IInv, EventsOK
<1>4. OneCall'
  BY OneCallKept DEF IInv
<1>5. RemoteIsKnown'
  BY DEF IInv, RemoteIsKnown, Live
<1>6. PendingHasMessage'
  <2>1. sync.status = "pending" /\ ~Ended => sync.gen \in Gens
    BY Rows DEF IInv, RowOK
  <2> QED
    BY <2>1 DEF IInv, PendingHasMessage, Ended
<1> QED
  BY <1>1, <1>2, <1>3, <1>4, <1>5, <1>6 DEF IInv

LEMMA ConfigureStep == ASSUME IInv, Configure PROVE IInv'
<1>1. TypeOK'
  BY Types, TypesNext DEF IInv, Configure
<1>2. \A p \in Procs : WorkerOK(p)'
  BY WorkerKept DEF Configure
<1> QED
  BY <1>1, <1>2 DEF IInv, Configure, GenerationsCount, RowOK, EventsOK, OneCall, AtStep, RemoteIsKnown, SyncedShowsCurrent,
     UrlIsOfEvent, PendingHasMessage, LedgerHonest, Live, Ended

LEMMA ClaimMessageStep == ASSUME IInv, NEW p \in Procs, NEW g \in Gens, ClaimMessage(p, g) PROVE IInv'
<1> USE DEF ClaimMessage
<1>1. box' \in [Gens -> MessageRow] /\ \A h \in Gens : box'[h] = IF h = g THEN [st |-> "running", tries |-> box[h].tries + 1] ELSE box[h]
  <2>1. box \in [Gens -> MessageRow] /\ box[g] \in MessageRow /\ OutboxTries \in Nat
    BY Types, ConstantsAssumption DEF IInv
  <2>2. [st |-> "running", tries |-> box[g].tries + 1] \in MessageRow
    BY <2>1 DEF MessageRow
  <2> QED
    BY <2>1, <2>2
<1>2. proc' \in [Procs -> HandlerRow] /\ Others(p) /\ proc'[p] = [pc |-> "claimed", gen |-> g, res |-> "none"]
  BY Types DEF IInv, HandlerRow, Others
<1>3. g \in 1..sync.gen
  <2>1. ~(g > sync.gen) /\ g \in Nat /\ sync.gen \in Nat /\ g # 0
    BY Rows, Numbers DEF IInv, EventsOK
  <2> QED
    BY <2>1
<1>4. WorkerOK(p)' /\ ~AtStep(p, "called")' /\ ~AtStep(p, "called")
  BY <1>2, <1>3 DEF WorkerOK, AtStep
<1>5. \A q \in Procs : q # p => WorkerOK(q)' /\ (AtStep(q, "called")' <=> AtStep(q, "called"))
  BY <1>2, WorkerKept DEF Others
<1>6. \A q \in Procs : AtStep(q, "called") => proc'[q] = proc[q]
  BY <1>2, <1>4 DEF Others
<1> QED
  BY <1>1, <1>2, <1>4, <1>5, <1>6, OutboxStep

LEMMA ReapMessageStep == ASSUME IInv, NEW g \in Gens, ReapMessage(g) PROVE IInv'
<1> USE DEF ReapMessage
<1>1. box' \in [Gens -> MessageRow] /\ \A h \in Gens : box'[h] = IF h = g THEN [st |-> "failed", tries |-> 0] ELSE box[h]
  BY Types, ConstantsAssumption DEF IInv, MessageRow, NoMessage
<1>2. proc' \in [Procs -> HandlerRow] /\ \A q \in Procs : WorkerOK(q)' /\ (AtStep(q, "called")' <=> AtStep(q, "called"))
  BY Types, WorkerKept DEF IInv
<1> QED
  BY <1>1, <1>2, OutboxStep

(* A result of the present generation leaves no row waiting.                *)
LEMMA SettleStep == ASSUME IInv, NEW p \in Procs, Settle(p) PROVE IInv'
<1> USE DEF Settle
<1> DEFINE g == proc[p].gen
<1>1. g \in Gens /\ WorkerOK(p) /\ AtStep(p, "done") /\ ~AtStep(p, "called")
  <2>1. WorkerOK(p) /\ AtStep(p, "done") /\ proc[p].gen \in {0} \cup Gens /\ sync.gen \in Nat
    BY Rows DEF IInv
  <2> QED
    BY <2>1 DEF WorkerOK, AtStep
<1>2. /\ box' \in [Gens -> MessageRow] /\ \A h \in Gens : h # g => box'[h] = box[h]
      /\ box'[g].st \in {"published", "failed", "queued"} /\ (box'[g].st = "published" => proc[p].res = "ok")
  <2>1. box \in [Gens -> MessageRow] /\ box[g] \in MessageRow
    BY <1>1, Types DEF IInv
  <2>0. \A st \in {"published", "failed"} :
          [NoMessage EXCEPT !.st = st] \in MessageRow /\ [NoMessage EXCEPT !.st = st].st = st
    BY ConstantsAssumption DEF MessageRow, NoMessage
  <2>2. PICK row : /\ box' = [box EXCEPT ![g] = row] /\ row.st \in {"published", "failed", "queued"}
                   /\ (row.st = "published" => proc[p].res = "ok") /\ row \in MessageRow
    <3>1. CASE proc[p].res = "ok" /\ box' = [box EXCEPT ![g] = [NoMessage EXCEPT !.st = "published"]]
      BY <3>1, <2>0
    <3>2. CASE proc[p].res = "error" /\ box' = [box EXCEPT ![g] = [NoMessage EXCEPT !.st = "failed"]]
      BY <3>2, <2>0
    <3>3. CASE proc[p].res = "error" /\ box' = [box EXCEPT ![g].st = "queued"]
      <4> DEFINE row == [box[g] EXCEPT !.st = "queued"]
      <4>1. row \in MessageRow /\ row.st = "queued"
        BY <2>1 DEF MessageRow
      <4>2. box' = [box EXCEPT ![g] = row]
        BY <3>3
      <4> QED
        BY <4>1, <4>2
    <3> QED
      BY <3>1, <3>2, <3>3
  <2> QED
    BY <1>1, <2>1, <2>2
<1>3. proc' \in [Procs -> HandlerRow] /\ Others(p) /\ WorkerOK(p)' /\ ~AtStep(p, "called")'
  BY IdleKept DEF IInv
<1>4. \A q \in Procs : q # p => WorkerOK(q)' /\ (AtStep(q, "called")' <=> AtStep(q, "called"))
  BY <1>3, WorkerKept DEF Others
<1>5. \A q \in Procs : AtStep(q, "called") => proc'[q] = proc[q]
  BY <1>1, <1>3 DEF Others
<1>6. \A h \in Gens : h = sync.gen /\ sync.status = "pending" /\ ~Ended =>
        (box[h].st \in {"queued", "running", "failed"} => box'[h].st \in {"queued", "running", "failed"})
  BY <1>1, <1>2 DEF WorkerOK
<1>7. \A h \in Gens : box[h].st = "none" => box'[h].st = "none"
  BY <1>2
<1> QED
  BY <1>1, <1>2, <1>3, <1>4, <1>5, <1>6, <1>7, OutboxStep

(* What a broken-off call has made is among the lost events.                *)
LEMMA CrashStep == ASSUME IInv, NEW p \in Procs, Crash(p) PROVE IInv'
<1> USE DEF Crash
<1>1. lost \subseteq lost' /\ lost' \subseteq Gens
  <2>1. lost \subseteq Gens /\ sync.gen \in Nat /\ proc[p].gen \in {0} \cup Gens /\ WorkerOK(p)
    BY Types, Rows DEF IInv
  <2>2. proc[p].gen \in Gens
    BY <2>1 DEF WorkerOK
  <2> QED
    BY <2>1, <2>2
<1>2. proc' \in [Procs -> HandlerRow] /\ Others(p) /\ WorkerOK(p)' /\ ~AtStep(p, "called")'
  BY IdleKept DEF IInv
<1>3. TypeOK'
  BY <1>1, <1>2, Types, TypesNext DEF IInv
<1>4. \A q \in Procs : q # p => WorkerOK(q)' /\ (AtStep(q, "called")' <=> AtStep(q, "called"))
  <2> SUFFICES ASSUME NEW q \in Procs, q # p
               PROVE  WorkerOK(q)' /\ (AtStep(q, "called")' <=> AtStep(q, "called"))
    OBVIOUS
  <2>1. WorkerOK(q) /\ proc'[q] = proc[q]
    BY <1>2 DEF IInv, Others
  <2>2. Answered(q) => Answered(q)'
    BY <1>1, <2>1 DEF Answered, Live
  <2> QED
    BY <2>1, <2>2 DEF WorkerOK, AtStep, Stopped, Ended
<1>5. OneCall'
  BY <1>2, <1>4, OneCallKept DEF IInv
<1>6. RemoteIsKnown'
  <2> SUFFICES ASSUME NEW g \in Live
               PROVE  g \in {sync.ext} \cup lost' \/ \E q \in Procs : AtStep(q, "called")' /\ proc'[q].gen = g
    BY DEF RemoteIsKnown, Live
  <2>1. g \in {sync.ext} \cup lost \/ \E q \in Procs : AtStep(q, "called") /\ proc[q].gen = g
    BY DEF IInv, RemoteIsKnown
  <2>2. ASSUME NEW q \in Procs, AtStep(q, "called"), proc[q].gen = g, q # p
        PROVE  AtStep(q, "called")' /\ proc'[q].gen = g
    BY <2>2, <1>2 DEF Others, AtStep
  <2>3. CASE AtStep(p, "called") /\ proc[p].gen = g
    BY <2>3 DEF Live
  <2> QED
    BY <1>1, <2>1, <2>2, <2>3
<1>7. GenerationsCount' /\ RowOK' /\ EventsOK' /\ SyncedShowsCurrent' /\ UrlIsOfEvent' /\ PendingHasMessage'
  BY DEF IInv, GenerationsCount, RowOK, EventsOK, SyncedShowsCurrent, UrlIsOfEvent, PendingHasMessage, Live, Ended
<1>8. LedgerHonest'
  BY <1>1 DEF IInv, LedgerHonest, Live
<1> QED
  BY <1>2, <1>3, <1>4, <1>5, <1>6, <1>7, <1>8 DEF IInv

-----------------------------------------------------------------------------
(* The handler.                                                             *)

(* No other call is under way when a handler returns early or calls.        *)
LEMMA ReturnEarlyStep == ASSUME IInv, NEW p \in Procs, ReturnEarly(p) PROVE IInv'
<1> USE DEF ReturnEarly
<1>1. /\ proc' \in [Procs -> HandlerRow] /\ Others(p)
      /\ proc'[p].pc = "done" /\ proc'[p].gen = proc[p].gen /\ proc'[p].res = "ok"
  BY GotoIs DEF IInv
<1>2. /\ sync' \in SyncRow /\ sync'.gen = sync.gen /\ sync'.ext = sync.ext /\ sync'.action = sync.action
      /\ sync'.status \in {sync.status, "disabled"}
  BY Types DEF IInv, SyncRow
<1>3. TypeOK'
  BY <1>1, <1>2, Types, TypesNext DEF IInv
<1>4. \A q \in Procs : q # p => WorkerOK(q)' /\ ~AtStep(q, "called")'
  <2> SUFFICES ASSUME NEW q \in Procs, q # p
               PROVE  WorkerOK(q)' /\ ~AtStep(q, "called")'
    OBVIOUS
  <2>1. proc'[q] = proc[q] /\ ~AtStep(q, "called") /\ (Ended => Ended')
    BY <1>1 DEF Others, Unlocked, AtStep, Ended
  <2> QED
    BY <1>2, <2>1, OutsideKept
<1>5. WorkerOK(p)' /\ ~AtStep(p, "called")'
  <2>1. WorkerOK(p) /\ AtStep(p, "claimed")
    BY DEF IInv
  <2>2. proc[p].gen = sync.gen => sync'.status # "pending" \/ Ended
    BY Types DEF IInv, SyncRow, Outdated, Stopped
  <2> QED
    BY <1>1, <1>2, <2>1, <2>2 DEF WorkerOK, AtStep, Ended
<1>6. OneCall' /\ RemoteIsKnown'
  <2>1. \A q \in Procs : ~AtStep(q, "called") /\ ~AtStep(q, "called")'
    BY <1>4, <1>5 DEF Unlocked, AtStep
  <2> QED
    BY <1>2, <2>1 DEF IInv, OneCall, RemoteIsKnown, Live
<1>7. GenerationsCount' /\ RowOK' /\ EventsOK' /\ SyncedShowsCurrent' /\ UrlIsOfEvent' /\ PendingHasMessage' /\ LedgerHonest'
  BY <1>2 DEF IInv, GenerationsCount, RowOK, EventsOK, SyncedShowsCurrent, UrlIsOfEvent, PendingHasMessage, LedgerHonest, Live, Ended
<1> QED
  BY <1>3, <1>4, <1>5, <1>6, <1>7 DEF IInv

(* A call: it makes the event of its generation, changes the one the row    *)
(* names, or does nothing; what it answers is true (Answered).              *)
LEMMA CallStep ==
  ASSUME IInv, NEW p \in Procs, MayCall(p), NEW res \in {"ok", "error"}, Goto(p, "called", res), Answered(p)',
         UNCHANGED <<app, iv, enabled, sync, box, ledger>>,
         remote' \in [Gens -> EventRow], lost \subseteq lost', lost' \subseteq Gens,
         RowOK', EventsOK', SyncedShowsCurrent',
         Live' \subseteq Live \cup {proc[p].gen}, sync.action = "cancel" => Live' \subseteq Live
  PROVE  IInv'
<1>1. /\ proc' \in [Procs -> HandlerRow] /\ Others(p)
      /\ proc'[p].pc = "called" /\ proc'[p].gen = proc[p].gen /\ proc'[p].res = res
  BY GotoIs DEF IInv
<1>2. \A q \in Procs : ~AtStep(q, "called")
  BY DEF MayCall, Unlocked, AtStep
<1>3. \A q \in Procs : q # p => WorkerOK(q)' /\ ~AtStep(q, "called")'
  <2> SUFFICES ASSUME NEW q \in Procs, q # p
               PROVE  WorkerOK(q)' /\ ~AtStep(q, "called")'
    OBVIOUS
  <2>1. proc'[q] = proc[q] /\ (Ended => Ended')
    BY <1>1 DEF Others, Ended
  <2> QED
    BY <1>2, <2>1, OutsideKept
<1>4. WorkerOK(p)'
  <2>1. WorkerOK(p) /\ AtStep(p, "claimed") /\ proc[p].gen = sync.gen /\ ~Stopped
    BY DEF IInv, MayCall, Outdated
  <2> QED
    BY <1>1, <2>1 DEF WorkerOK, AtStep, Stopped, Ended
<1>5. TypeOK'
  BY <1>1, Types, TypesNext DEF IInv
<1>6. OneCall'
  BY <1>3 DEF OneCall
<1>7. RemoteIsKnown'
  <2> SUFFICES ASSUME NEW g \in Live'
               PROVE  g \in {sync.ext} \cup lost' \/ \E q \in Procs : AtStep(q, "called")' /\ proc'[q].gen = g
    BY DEF RemoteIsKnown
  <2>1. CASE g \in Live
    BY <1>2, <2>1 DEF IInv, RemoteIsKnown
  <2>2. CASE g = proc[p].gen
    BY <1>1, <2>2 DEF AtStep
  <2> QED
    BY <2>1, <2>2
<1>8. GenerationsCount' /\ UrlIsOfEvent' /\ PendingHasMessage'
  BY DEF IInv, GenerationsCount, UrlIsOfEvent, PendingHasMessage, Ended
<1>9. LedgerHonest'
  <2>1. app = "terminated" => Live' \subseteq Live
    BY DEF MayCall, Stopped, Ended
  <2> QED
    BY <2>1 DEF IInv, LedgerHonest
<1> QED
  BY <1>3, <1>4, <1>5, <1>6, <1>7, <1>8, <1>9 DEF IInv

(* The handler that may call is of the generation in force.                 *)
LEMMA CallerIs ==
  ASSUME IInv, NEW p \in Procs, MayCall(p)
  PROVE  /\ proc[p].gen = sync.gen /\ sync.gen \in Gens
         /\ sync.gen \notin Live \/ (sync.action = "create" /\ remote[sync.gen] = [st |-> "live", shows |-> iv.plan])
         /\ sync.gen \in Live => sync.gen \in lost \cup {sync.ext}
<1>1. WorkerOK(p) /\ proc[p].pc = "claimed" /\ proc[p].gen = sync.gen /\ sync.gen \in {0} \cup Gens
  BY Rows DEF IInv, MayCall, Outdated, AtStep
<1>2. sync.gen \in Gens
  BY <1>1, Rows DEF IInv, WorkerOK
<1>3. \A q \in Procs : ~AtStep(q, "called")
  BY DEF MayCall, Unlocked, AtStep
<1> QED
  BY <1>1, <1>2, <1>3 DEF IInv, EventsOK, RemoteIsKnown, Live

LEMMA CallCreateStep == ASSUME IInv, NEW p \in Procs, CallCreate(p) PROVE IInv'
<1> DEFINE g == sync.gen
<1> DEFINE event == [st |-> "live", shows |-> iv.plan]
<1> DEFINE made == [remote EXCEPT ![g] = event]
<1> USE DEF CallCreate
<1>1. MayCall(p) /\ sync.action = "create"
  BY DEF IInv, RowOK
<1>2. proc[p].gen = g /\ g \in Gens /\ (g \in Live => g \in lost \cup {sync.ext})
  BY <1>1, CallerIs
<1>3. remote \in [Gens -> EventRow] /\ event \in EventRow /\ lost \subseteq Gens
  BY Types, Rows DEF IInv, EventRow
<1>4. remote[g].st = "none" \/ remote[g] = event
  BY <1>2 DEF IInv, EventsOK
<1>5. remote' = made \/ remote' = remote
  BY <1>2, <1>3, <1>4
<1>6. PICK res \in {"ok", "error"} :
        /\ Goto(p, "called", res)
        /\ res = "ok" => remote' = made /\ lost' = lost
        /\ res = "error" => (remote' = made /\ lost' = IF sync.ext = g THEN lost ELSE lost \cup {g}) \/ (remote' = remote /\ lost' = lost)
  <2>1. remote[g].st # "none" => remote = made
    BY <1>2, <1>3, <1>4
  <2> QED
    BY <1>2, <2>1
<1>7. proc'[p].gen = g /\ proc'[p].res = res
  BY <1>2, <1>6, GotoIs DEF IInv
<1>8. remote' \in [Gens -> EventRow] /\ lost \subseteq lost' /\ lost' \subseteq Gens
  BY <1>2, <1>3, <1>5, <1>6
<1>9. /\ \A h \in Gens : h # g => remote'[h] = remote[h]
      /\ remote'[g] = remote[g] \/ remote'[g] = event
      /\ Live \subseteq Live' /\ Live' \subseteq Live \cup {g}
  BY <1>2, <1>3, <1>4, <1>5 DEF Live
<1>10. Answered(p)'
  <2>1. CASE res = "ok"
    BY <1>1, <1>2, <1>3, <1>6, <1>7, <2>1 DEF Answered, Live
  <2>2. CASE res = "error"
    BY <1>1, <1>2, <1>3, <1>6, <1>7, <2>2 DEF Answered, Live
  <2> QED
    BY <2>1, <2>2
<1>11. RowOK'
  <2>1. RowOK /\ sync.ext \in {0} \cup Gens
    BY Rows DEF IInv
  <2>2. sync.ext # 0 => remote'[sync.ext].st # "none"
    BY <1>9, <2>1 DEF RowOK
  <2> QED
    BY <1>1, <1>9, <2>1, <2>2 DEF RowOK
<1>12. EventsOK'
  BY <1>1, <1>2, <1>9, Rows DEF IInv, EventsOK
<1>13. SyncedShowsCurrent'
  <2>1. SyncedShowsCurrent
    BY DEF IInv
  <2>2. sync.ext \in Live => sync.ext \in Gens
    BY DEF Live
  <2> QED
    BY <1>9, <2>1, <2>2 DEF SyncedShowsCurrent
<1> QED
  BY <1>1, <1>2, <1>6, <1>8, <1>9, <1>10, <1>11, <1>12, <1>13, CallStep

LEMMA CallUpdateStep == ASSUME IInv, NEW p \in Procs, CallUpdate(p) PROVE IInv'
<1> DEFINE e == sync.ext
<1> DEFINE moved == [remote EXCEPT ![e].shows = iv.plan]
<1> USE DEF CallUpdate
<1>1. /\ MayCall(p) /\ sync.action = "update" /\ e \in Live /\ e \in Gens /\ e # sync.gen
      /\ proc[p].gen = sync.gen /\ sync.gen \notin Live
  BY CallerIs DEF IInv, RowOK, Live
<1>2. remote \in [Gens -> EventRow] /\ iv.plan \in Plans /\ lost \subseteq Gens
  BY Types, Rows DEF IInv
<1>3. PICK res \in {"ok", "error"} : Goto(p, "called", res) /\ (res = "ok" => remote' = moved) /\ remote' \in {moved, remote}
  OBVIOUS
<1>4. /\ remote' \in [Gens -> EventRow]
      /\ \A h \in Gens : h # e => remote'[h] = remote[h]
      /\ remote'[e].st = "live" /\ remote'[e].shows \in {remote[e].shows, iv.plan}
      /\ res = "ok" => remote'[e].shows = iv.plan
  <2>1. CASE remote' = moved
    BY <1>1, <1>2, <2>1 DEF EventRow, Live
  <2>2. CASE remote' = remote
    BY <1>1, <1>2, <1>3, <2>2 DEF EventRow, Live
  <2> QED
    BY <1>3, <2>1, <2>2
<1>5. Live' = Live
  BY <1>1, <1>4 DEF Live
<1>6. proc'[p].gen = sync.gen /\ proc'[p].res = res
  BY <1>1, GotoIs, <1>3 DEF IInv
<1>7. Answered(p)'
  BY <1>1, <1>4, <1>5, <1>6 DEF Answered
<1>8. RowOK'
  BY <1>1, <1>4, <1>5 DEF IInv, RowOK
<1>9. EventsOK'
  BY <1>1, <1>4, Rows DEF IInv, EventsOK, Live
<1>10. SyncedShowsCurrent'
  BY <1>1, <1>4, <1>5 DEF IInv, SyncedShowsCurrent
<1> QED
  BY <1>1, <1>2, <1>3, <1>4, <1>5, <1>7, <1>8, <1>9, <1>10, CallStep

LEMMA CallCancelStep == ASSUME IInv, NEW p \in Procs, CallCancel(p) PROVE IInv'
<1> DEFINE e == sync.ext
<1> DEFINE gone == [remote EXCEPT ![e].st = "deleted"]
<1> USE DEF CallCancel
<1>1. /\ MayCall(p) /\ sync.action = "cancel" /\ e \in {0} \cup Gens
      /\ proc[p].gen = sync.gen /\ sync.gen \in Gens /\ remote[sync.gen].st = "none"
      /\ e # 0 => remote[e].st # "none"
  BY CallerIs, Rows DEF IInv, RowOK, EventsOK
<1>2. remote \in [Gens -> EventRow] /\ lost \subseteq Gens
  BY Types DEF IInv
<1>3. PICK res \in {"ok", "error"} :
        /\ Goto(p, "called", res)
        /\ res = "ok" => e = 0 \/ remote' = gone
        /\ remote' = remote \/ (e # 0 /\ remote' = gone)
  OBVIOUS
<1>4. /\ remote' \in [Gens -> EventRow]
      /\ \A h \in Gens : h # e => remote'[h] = remote[h]
      /\ e # 0 => remote'[e].st \in {remote[e].st, "deleted"}
      /\ res = "ok" /\ e # 0 => remote'[e].st = "deleted"
  <2>1. CASE e # 0 /\ remote' = gone
    <3>1. [remote[e] EXCEPT !.st = "deleted"] \in EventRow /\ e \in Gens
      BY <1>1, <1>2, <2>1 DEF EventRow
    <3> QED
      BY <1>1, <1>2, <2>1, <3>1 DEF EventRow
  <2>2. CASE remote' = remote
    BY <1>1, <1>2, <1>3, <2>2 DEF EventRow
  <2> QED
    BY <1>3, <2>1, <2>2
<1>5. Live' \subseteq Live /\ 0 \notin Live /\ (res = "ok" => e \notin Live') /\ (e \notin Live => e \notin Live')
  BY <1>1, <1>4, Numbers DEF Live
<1>6. proc'[p].gen = sync.gen /\ proc'[p].res = res
  BY <1>1, <1>3, GotoIs DEF IInv
<1>7. Answered(p)'
  BY <1>1, <1>4, <1>5, <1>6 DEF Answered, Live
<1>8. RowOK'
  <2>1. RowOK
    BY DEF IInv
  <2>2. e # 0 => remote'[e].st # "none"
    BY <1>1, <1>4
  <2> QED
    BY <1>1, <1>5, <2>1, <2>2 DEF RowOK
<1>9. EventsOK'
  <2>1. EventsOK /\ \A h \in Gens : remote[h].st = "none" => remote'[h].st = "none"
    BY <1>1, <1>4 DEF IInv
  <2> QED
    BY <1>1, <2>1 DEF EventsOK
<1>10. SyncedShowsCurrent'
  BY <1>1 DEF IInv, SyncedShowsCurrent, RowOK
<1> QED
  BY <1>1, <1>2, <1>3, <1>4, <1>5, <1>7, <1>8, <1>9, <1>10, CallStep

(* A commit ends the only call there is, and the row waits no longer.       *)
LEMMA CommitStep ==
  ASSUME IInv, NEW p \in Procs, AtStep(p, "called"), NEW res \in {"ok", "error"}, Goto(p, "done", res),
         UNCHANGED <<app, enabled, box, remote>>,
         sync' \in SyncRow, sync'.gen = sync.gen, sync'.action = sync.action, sync'.status # "pending",
         iv' \in InterviewRow, iv'.status = iv.status, iv'.plan = iv.plan, lost' \subseteq Gens, ledger' \in LedgerRow,
         RowOK', SyncedShowsCurrent', UrlIsOfEvent', LedgerHonest', Live \subseteq {sync'.ext} \cup lost'
  PROVE  IInv'
<1>1. /\ proc' \in [Procs -> HandlerRow] /\ Others(p)
      /\ proc'[p].pc = "done" /\ proc'[p].gen = proc[p].gen /\ proc'[p].res = res
  BY GotoIs DEF IInv
<1>2. \A q \in Procs : q # p => WorkerOK(q)' /\ ~AtStep(q, "called")'
  <2> SUFFICES ASSUME NEW q \in Procs, q # p
               PROVE  WorkerOK(q)' /\ ~AtStep(q, "called")'
    OBVIOUS
  <2>1. proc'[q] = proc[q] /\ ~AtStep(q, "called") /\ (Ended => Ended')
    BY <1>1 DEF IInv, OneCall, Others, Ended
  <2> QED
    BY <2>1, OutsideKept
<1>3. WorkerOK(p)' /\ ~AtStep(p, "called")'
  <2>1. WorkerOK(p) /\ proc[p].pc # "idle"
    BY DEF IInv, AtStep
  <2> QED
    BY <1>1, <2>1 DEF WorkerOK, AtStep
<1>4. TypeOK'
  BY <1>1, Types, TypesNext DEF IInv
<1>5. OneCall' /\ RemoteIsKnown'
  BY <1>2, <1>3 DEF OneCall, RemoteIsKnown, Live
<1>6. GenerationsCount' /\ EventsOK' /\ PendingHasMessage'
  BY DEF IInv, GenerationsCount, EventsOK, PendingHasMessage
<1> QED
  BY <1>2, <1>3, <1>4, <1>5, <1>6 DEF IInv

(* What is live while p calls, but for the event of its generation, was     *)
(* known before.                                                            *)
LEMMA KnownToCaller ==
  ASSUME IInv, NEW p \in Procs, AtStep(p, "called")
  PROVE  /\ proc[p].gen = sync.gen /\ sync.gen \in Gens /\ ~Stopped /\ Answered(p)
         /\ Live \subseteq {sync.ext, sync.gen} \cup lost
<1>1. WorkerOK(p) /\ proc[p].gen \in {0} \cup Gens /\ sync.gen \in Nat
  BY Rows DEF IInv
<1>2. proc[p].gen = sync.gen /\ sync.gen \in Gens /\ ~Stopped /\ Answered(p)
  BY <1>1 DEF WorkerOK, AtStep
<1>3. {proc[q].gen : q \in {r \in Procs : AtStep(r, "called")}} = {sync.gen}
  BY <1>2 DEF IInv, OneCall
<1> QED
  BY <1>2, <1>3 DEF IInv, RemoteIsKnown

LEMMA AttestedTyped ==
  ASSUME NEW g \in Gens, NEW ref \in Gens, ledger \in LedgerRow
  PROVE  Attested(g, ref) \in LedgerRow /\ Attested(g, ref).attested = ledger.attested
  BY DEF Attested, LedgerRow, Items

LEMMA CommitCancelStep == ASSUME IInv, NEW p \in Procs, CommitCancel(p) PROVE IInv'
<1> USE DEF CommitCancel
<1>1. /\ AtStep(p, "called") /\ sync.gen \in Gens /\ sync.ext \in {0} \cup Gens /\ sync.ext \notin Live
      /\ Live \subseteq lost
  <2>1. Answered(p) /\ proc[p].gen = sync.gen /\ sync.gen \in Gens /\ Live \subseteq {sync.ext, sync.gen} \cup lost
    BY KnownToCaller
  <2>2. sync.gen \notin Live
    BY <2>1 DEF IInv, EventsOK, Live
  <2> QED
    BY <2>1, <2>2, Rows DEF IInv, Answered
<1>2. /\ sync' \in SyncRow /\ sync'.gen = sync.gen /\ sync'.ext = sync.ext /\ sync'.action = sync.action
      /\ sync'.status = "cancelled"
  BY Types DEF IInv, SyncRow
<1>3. ledger' \in LedgerRow
  BY <1>1, AttestedTyped, Types DEF IInv
<1>4. RowOK' /\ SyncedShowsCurrent' /\ UrlIsOfEvent' /\ LedgerHonest'
  <2>1. Live' = Live
    BY DEF Live
  <2>2. sync.gen # 0
    BY <1>1, Numbers
  <2> QED
    BY <1>1, <1>2, <2>1, <2>2 DEF IInv, RowOK, SyncedShowsCurrent, UrlIsOfEvent, LedgerHonest
<1>5. iv \in InterviewRow /\ lost \subseteq Gens
  BY Types DEF IInv
<1> QED
  BY <1>1, <1>2, <1>3, <1>4, <1>5, CommitStep

LEMMA CommitErrorStep == ASSUME IInv, NEW p \in Procs, CommitError(p) PROVE IInv'
<1> USE DEF CommitError
<1>1. AtStep(p, "called") /\ Live \subseteq {sync.ext} \cup lost
  <2>1. /\ Answered(p) /\ proc[p].gen = sync.gen /\ Live \subseteq {sync.ext, sync.gen} \cup lost
        /\ WorkerOK(p) /\ proc[p] \in HandlerRow
    BY KnownToCaller, Rows DEF IInv
  <2>2. proc[p].res = "error"
    BY <2>1 DEF WorkerOK, HandlerRow
  <2> QED
    BY <2>1, <2>2 DEF Answered
<1>2. /\ sync' \in SyncRow /\ sync'.gen = sync.gen /\ sync'.ext = sync.ext /\ sync'.action = sync.action
      /\ sync'.status = "failed"
  BY Types DEF IInv, SyncRow
<1>3. iv \in InterviewRow /\ lost \subseteq Gens /\ ledger \in LedgerRow
  BY Types DEF IInv
<1>4. RowOK' /\ SyncedShowsCurrent' /\ UrlIsOfEvent' /\ LedgerHonest'
  <2>1. Live' = Live
    BY DEF Live
  <2>2. sync.gen # 0
    BY KnownToCaller, Numbers
  <2> QED
    BY <1>1, <1>2, <2>1, <2>2 DEF IInv, RowOK, SyncedShowsCurrent, UrlIsOfEvent, LedgerHonest
<1> QED
  BY <1>1, <1>2, <1>3, <1>4, CommitStep

(* A create or an update is not committed once the application has ended.   *)
LEMMA CommitEventStep == ASSUME IInv, NEW p \in Procs, CommitEvent(p) PROVE IInv'
<1> USE DEF CommitEvent
<1> DEFINE e == sync'.ext
<1>1. /\ AtStep(p, "called") /\ sync.gen \in Gens /\ ~Ended /\ proc[p].gen = sync.gen
      /\ Answered(p) /\ proc[p].res = "ok" /\ Live \subseteq {sync.ext, sync.gen} \cup lost
  BY KnownToCaller DEF Stopped
<1>2. /\ sync' \in SyncRow /\ sync'.gen = sync.gen /\ sync'.action = sync.action
      /\ sync'.status = "synced" /\ e = IF sync.action = "update" THEN sync.ext ELSE sync.gen
  <2>1. sync \in SyncRow /\ sync.gen \in Gens /\ sync.ext \in {0} \cup Gens /\ (sync.action = "update" => sync.ext # 0)
    BY <1>1, Types, Rows DEF IInv, RowOK
  <2> DEFINE x == IF sync.action = "update" THEN sync.ext ELSE sync.gen
  <2>2. sync' = [sync EXCEPT !.ext = x, !.status = "synced", !.tried = TRUE]
    BY <1>1, <2>1
  <2>3. x \in Gens
    BY <2>1
  <2> HIDE DEF x
  <2> QED
    BY <2>1, <2>2, <2>3 DEF SyncRow, x
<1>3. /\ e \in Live /\ remote[e].shows = iv.plan
      /\ sync.action = "create" => sync.ext \in {0, sync.gen}
      /\ sync.action = "update" => sync.gen \notin Live
      /\ sync.action \in {"create", "update"}
  <2>1. CASE sync.action = "create"
    BY <1>1, <1>2, <2>1 DEF IInv, Answered, Live, EventsOK, RowOK
  <2>2. CASE sync.action = "update"
    BY <1>1, <1>2, <2>2 DEF IInv, Answered, Live, EventsOK, RowOK
  <2> QED
    BY <2>1, <2>2, Types DEF IInv, SyncRow
<1>4. Live' = Live /\ 0 \notin Live /\ e \in Gens /\ lost' = lost \ {e}
  BY <1>1, <1>2, <1>3, Numbers DEF Live
<1>5. Live \subseteq {e} \cup lost'
  BY <1>1, <1>2, <1>3, <1>4
<1>6. PICK url : iv' = [iv EXCEPT !.url = url] /\ (url # 0 => iv.video /\ url \in {e, iv.url})
  BY <1>1, <1>2, <1>3
<1>7. /\ iv' \in InterviewRow /\ iv'.status = iv.status /\ iv'.plan = iv.plan /\ iv'.video = iv.video
      /\ iv'.url = url
  <2>1. iv \in InterviewRow /\ iv.url \in Urls /\ url \in Urls
    BY <1>4, <1>6, Types, Rows DEF IInv, Urls
  <2> QED
    BY <1>6, <2>1 DEF InterviewRow
<1>8. UrlIsOfEvent'
  BY <1>2, <1>3, <1>6, <1>7 DEF IInv, UrlIsOfEvent, OwnLink
<1>9. RowOK' /\ SyncedShowsCurrent' /\ LedgerHonest'
  <2>1. sync.gen # 0
    BY <1>1, Numbers
  <2> QED
    BY <1>1, <1>2, <1>3, <1>4, <1>7, <2>1 DEF RowOK, SyncedShowsCurrent, LedgerHonest, Ended, Live
<1>10. lost' \subseteq Gens /\ ledger' \in LedgerRow
  BY <1>4, Types DEF IInv
<1> QED
  BY <1>1, <1>2, <1>5, <1>7, <1>8, <1>9, <1>10, CommitStep

-----------------------------------------------------------------------------
(* Commands.                                                                *)

LEMMA ScheduledIs ==
  ASSUME IInv, NEW action \in {"create", "update", "cancel"}, ScheduleSync(action), sync.gen + 1 \in Gens
  PROVE  /\ sync' \in SyncRow /\ sync'.gen = sync.gen + 1 /\ sync'.ext = sync.ext
         /\ sync'.action = IF action = "update" /\ sync.ext = 0 THEN "create" ELSE action
         /\ sync'.status = IF enabled THEN "pending" ELSE "disabled"
         /\ box' \in [Gens -> MessageRow] /\ \A h \in Gens : h # sync.gen + 1 => box'[h] = box[h]
         /\ enabled => box'[sync.gen + 1].st = "queued"
<1> DEFINE row == [NoMessage EXCEPT !.st = "queued"]
<1>1. sync \in SyncRow /\ box \in [Gens -> MessageRow] /\ enabled \in BOOLEAN
  BY Types DEF IInv
<1>2. row \in MessageRow /\ row.st = "queued"
  BY ConstantsAssumption DEF NoMessage, MessageRow
<1> HIDE DEF row
<1>3. box' = IF enabled THEN [box EXCEPT ![sync.gen + 1] = row] ELSE box
  BY DEF ScheduleSync, row
<1>4. box' \in [Gens -> MessageRow] /\ (\A h \in Gens : h # sync.gen + 1 => box'[h] = box[h])
  BY <1>1, <1>2, <1>3
<1>5. enabled => box'[sync.gen + 1].st = "queued"
  BY <1>1, <1>2, <1>3
<1>6. /\ sync' \in SyncRow /\ sync'.gen = sync.gen + 1 /\ sync'.ext = sync.ext
      /\ sync'.action = IF action = "update" /\ sync.ext = 0 THEN "create" ELSE action
      /\ sync'.status = IF enabled THEN "pending" ELSE "disabled"
  BY <1>1 DEF ScheduleSync, SyncRow
<1> QED
  BY <1>4, <1>5, <1>6

(* A new generation: nothing of it is there yet, and no call is under way.  *)
LEMMA ScheduleStep ==
  ASSUME IInv, Unlocked, NEW action \in {"create", "update", "cancel"}, ScheduleSync(action), sync.gen + 1 \in Gens,
         iv.status # "cancelled", action = "create" => sync.ext = 0,
         UNCHANGED <<enabled, proc, remote, lost>>, app' \in {"open", "withdrawn", "terminated"}, Ended => Ended',
         iv' \in InterviewRow, ledger' \in LedgerRow, GenerationsCount', UrlIsOfEvent', LedgerHonest'
  PROVE  IInv'
<1>1. /\ sync' \in SyncRow /\ sync'.gen = sync.gen + 1 /\ sync'.ext = sync.ext
      /\ sync'.action = IF action = "update" /\ sync.ext = 0 THEN "create" ELSE action
      /\ sync'.status = IF enabled THEN "pending" ELSE "disabled"
      /\ box' \in [Gens -> MessageRow] /\ (\A h \in Gens : h # sync.gen + 1 => box'[h] = box[h])
      /\ enabled => box'[sync.gen + 1].st = "queued"
  BY ScheduledIs
<1>2. TypeOK'
  BY <1>1, Types, TypesNext DEF IInv
<1>3. \A q \in Procs : WorkerOK(q)' /\ ~AtStep(q, "called")' /\ ~AtStep(q, "called")
  BY <1>1, OutsideKept DEF Unlocked, AtStep
<1>4. OneCall' /\ RemoteIsKnown'
  BY <1>1, <1>3 DEF IInv, OneCall, RemoteIsKnown, Live
<1>5. RowOK'
  <2>1. sync.action # "cancel" /\ RowOK /\ sync.gen \in Nat
    BY Rows DEF IInv, GenerationsCount
  <2>2. Live' = Live
    BY DEF Live
  <2> QED
    BY <1>1, <2>1, <2>2 DEF RowOK
<1>6. EventsOK'
  <2> SUFFICES ASSUME NEW g \in Gens
               PROVE  /\ g > sync'.gen => remote[g].st = "none" /\ box'[g].st = "none"
                      /\ g = sync'.gen => remote[g].st = "none"
    BY DEF EventsOK
  <2>1. g > sync.gen => remote[g].st = "none" /\ box[g].st = "none"
    BY DEF IInv, EventsOK
  <2>2. g \in Nat /\ sync.gen \in Nat
    BY Rows, Numbers DEF IInv
  <2> QED
    BY <1>1, <2>1, <2>2
<1>7. SyncedShowsCurrent' /\ PendingHasMessage'
  BY <1>1 DEF SyncedShowsCurrent, PendingHasMessage
<1> QED
  BY <1>2, <1>3, <1>4, <1>5, <1>6, <1>7 DEF IInv

(* The generation after the present one is among those there are.           *)
LEMMA NextGeneration ==
  ASSUME IInv, iv.status # "cancelled"
  PROVE  /\ sync.gen + 1 \in Gens
         /\ iv.status = "none" => sync.gen = 0 /\ sync.ext = 0 /\ iv.plan = 0
         /\ iv.status \in {"planned", "held", "over"} => sync.gen = iv.plan + 1
         /\ sync.gen \in Nat /\ iv.plan \in Nat /\ iv.plan <= MaxPlan
<1>1. /\ sync.gen \in Nat /\ sync.ext \in Nat /\ sync.ext \in {0} \cup Gens /\ iv.plan \in Nat /\ iv.plan <= MaxPlan /\ iv.status \in Statuses
      /\ MaxPlan \in Nat
  BY Rows, Numbers, ConstantsAssumption DEF IInv
<1>2. GenerationsCount
  BY DEF IInv
<1>3. sync.gen <= MaxPlan + 1
  BY <1>1, <1>2 DEF GenerationsCount, Statuses
<1>4. sync.gen + 1 \in Gens
  BY <1>1, <1>3, Numbers
<1>5. sync.gen = 0 => sync.ext = 0
  BY <1>1, <1>2, Numbers DEF IInv, EventsOK, RowOK
<1> QED
  BY <1>1, <1>2, <1>4, <1>5 DEF GenerationsCount

LEMMA CreateInterviewStep == ASSUME IInv, CreateInterview PROVE IInv'
<1> USE DEF CreateInterview
<1>1. sync.gen + 1 \in Gens /\ sync.gen = 0 /\ sync.ext = 0 /\ iv.plan = 0
  BY NextGeneration
<1>2. PICK video \in BOOLEAN, url \in {0, OwnLink} :
        iv' = [iv EXCEPT !.status = "planned", !.video = video, !.url = url] /\ (url # 0 => video)
  OBVIOUS
<1>3. /\ iv' \in InterviewRow /\ iv'.status = "planned" /\ iv'.plan = 0
      /\ iv'.url # 0 => iv'.video /\ iv'.url = OwnLink
  <2>1. iv \in InterviewRow
    BY Types DEF IInv
  <2> QED
    BY <1>1, <1>2, <2>1 DEF InterviewRow, Statuses, Urls
<1>4. sync'.gen = 1 /\ sync'.action = "create"
  BY <1>1, ScheduledIs
<1>5. GenerationsCount' /\ UrlIsOfEvent' /\ LedgerHonest'
  BY <1>3, <1>4 DEF GenerationsCount, UrlIsOfEvent, LedgerHonest, Ended
<1>6. ledger \in LedgerRow /\ app \in {"open", "withdrawn", "terminated"}
  BY Types DEF IInv
<1> QED
  BY <1>1, <1>3, <1>5, <1>6, ScheduleStep DEF Ended

LEMMA RescheduleStep == ASSUME IInv, Reschedule PROVE IInv'
<1> USE DEF Reschedule
<1>1. sync.gen + 1 \in Gens /\ sync.gen = iv.plan + 1 /\ iv.plan \in Nat /\ iv.plan + 1 \in Plans
  BY NextGeneration, Numbers, ConstantsAssumption
<1>2. PICK video \in BOOLEAN, url \in {0, OwnLink, iv.url} :
        iv' = [iv EXCEPT !.plan = iv.plan + 1, !.video = video, !.url = url] /\ (url # 0 => video)
  OBVIOUS
<1>3. /\ iv' \in InterviewRow /\ iv'.status = "planned" /\ iv'.plan = iv.plan + 1
      /\ iv'.url # 0 => iv'.video /\ iv'.url \in {OwnLink, iv.url}
  <2>1. iv \in InterviewRow /\ url \in Urls
    BY <1>2, Types, Rows DEF IInv, Urls
  <2> QED
    BY <1>1, <1>2, <2>1 DEF InterviewRow
<1>4. sync'.gen = sync.gen + 1 /\ sync'.action # "cancel" /\ sync'.ext = sync.ext
  BY <1>1, ScheduledIs
<1>5. GenerationsCount' /\ UrlIsOfEvent' /\ LedgerHonest'
  BY <1>1, <1>3, <1>4 DEF IInv, GenerationsCount, UrlIsOfEvent, LedgerHonest, Ended
<1>6. ledger \in LedgerRow /\ app \in {"open", "withdrawn", "terminated"}
  BY Types DEF IInv
<1> QED
  BY <1>1, <1>3, <1>5, <1>6, ScheduleStep DEF Ended

(* A cancellation keeps the schedule it cancels, and the link.              *)
LEMMA CancelledRecord ==
  ASSUME IInv, CancelRecord
  PROVE  /\ sync.gen + 1 \in Gens /\ iv.status # "cancelled" /\ iv' \in InterviewRow
         /\ sync'.ext = sync.ext /\ sync'.gen = sync.gen + 1 /\ sync'.status # "cancelled"
         /\ GenerationsCount' /\ UrlIsOfEvent'
<1> USE DEF CancelRecord
<1>1. iv.status \in Cancellable /\ iv.status # "cancelled"
  BY DEF Cancellable
<1>2. sync.gen + 1 \in Gens /\ sync.gen = iv.plan + 1 /\ iv.plan \in Nat
  BY <1>1, NextGeneration DEF Cancellable
<1>3. iv' \in InterviewRow /\ iv'.status = "cancelled" /\ iv'.plan = iv.plan /\ iv'.url = iv.url /\ iv'.video = iv.video
  BY Types DEF IInv, InterviewRow, Statuses
<1>4. sync'.gen = sync.gen + 1 /\ sync'.action = "cancel" /\ sync'.ext = sync.ext /\ sync'.status # "cancelled"
  BY <1>2, ScheduledIs
<1>5. GenerationsCount' /\ UrlIsOfEvent'
  BY <1>2, <1>3, <1>4 DEF IInv, GenerationsCount, UrlIsOfEvent
<1> QED
  BY <1>1, <1>2, <1>3, <1>4, <1>5

LEMMA CancelInterviewStep == ASSUME IInv, CancelInterview PROVE IInv'
<1> USE DEF CancelInterview
<1>1. /\ CancelRecord /\ sync.gen + 1 \in Gens /\ iv.status # "cancelled" /\ iv' \in InterviewRow
      /\ GenerationsCount' /\ UrlIsOfEvent'
  BY CancelledRecord
<1>2. LedgerHonest' /\ ledger \in LedgerRow /\ app \in {"open", "withdrawn", "terminated"}
  BY Types DEF IInv, LedgerHonest, Live
<1> QED
  BY <1>1, <1>2, ScheduleStep DEF CancelRecord, Ended

(* Steps of the application or the interview that Feishu is not told of.    *)
LEMMA UntoldStep ==
  ASSUME IInv, Progress \/ Withdraw
  PROVE  IInv'
<1> USE DEF Progress, Withdraw
<1>1. /\ app' \in {app, "withdrawn"} /\ (Ended => Ended') /\ ~Ended /\ app \in {"open", "withdrawn", "terminated"}
      /\ iv' \in InterviewRow /\ iv'.plan = iv.plan /\ iv'.url = iv.url /\ iv'.video = iv.video
      /\ iv'.status \in Statuses
      /\ iv' = iv \/ (iv.status \in Cancellable /\ iv'.status \in {"held", "over"})
  <2>1. iv \in InterviewRow
    BY Types DEF IInv
  <2>2. CASE Progress
    BY <2>1, <2>2, Types DEF IInv, InterviewRow, Statuses, Cancellable
  <2>3. CASE Withdraw
    BY <2>1, <2>3, Types DEF IInv, InterviewRow, Ended
  <2> QED
    BY <2>2, <2>3
<1>2. UNCHANGED <<enabled, sync, box, proc, remote, lost, ledger>>
  OBVIOUS
<1>3. TypeOK'
  BY <1>1, <1>2, Types, TypesNext DEF IInv
<1>4. \A q \in Procs : WorkerOK(q)' /\ ~AtStep(q, "called")' /\ ~AtStep(q, "called")
  BY <1>1, <1>2, OutsideKept DEF Unlocked, AtStep
<1>5. OneCall' /\ RemoteIsKnown'
  BY <1>2, <1>4 DEF IInv, OneCall, RemoteIsKnown, Live
<1>6. GenerationsCount'
  BY <1>1, <1>2 DEF IInv, GenerationsCount, Cancellable
<1>7. RowOK' /\ EventsOK' /\ SyncedShowsCurrent' /\ UrlIsOfEvent'
  BY <1>1, <1>2 DEF IInv, RowOK, EventsOK, SyncedShowsCurrent, UrlIsOfEvent, Live
<1>8. PendingHasMessage' /\ LedgerHonest'
  BY <1>1, <1>2 DEF IInv, PendingHasMessage, LedgerHonest, Ended
<1> QED
  BY <1>3, <1>4, <1>5, <1>6, <1>7, <1>8 DEF IInv

(* What may be left at the provider becomes an item; if there is none, no   *)
(* event is left but the lost ones.                                         *)
LEMMA TerminateStep == ASSUME IInv, Terminate PROVE IInv'
<1> USE DEF Terminate
<1> DEFINE items == ledger'.items
<1>1. \A q \in Procs : ~AtStep(q, "called")
  BY DEF Unlocked, AtStep
<1>2. /\ RowOK /\ sync.ext \in {0} \cup Gens /\ sync.gen \in Nat
      /\ ledger \in LedgerRow /\ Live \subseteq {sync.ext} \cup lost
  BY <1>1, Types, Rows DEF IInv, RemoteIsKnown
<1>3. sync'.ext = sync.ext /\ (sync'.status = "cancelled" => sync.ext \notin Live)
      /\ (sync'.gen = sync.gen \/ sync'.gen = sync.gen + 1) /\ (sync'.ext # 0 => sync'.gen \in Gens)
  <2>1. CASE CancelRecord
    BY <2>1, CancelledRecord
  <2>2. CASE UNCHANGED <<iv, sync, box>>
    <3>1. sync.ext # 0 => sync.gen # 0
      BY <1>2, Numbers DEF IInv, EventsOK, RowOK
    <3>2. sync.gen \in {0} \cup Gens
      BY Rows DEF IInv
    <3> QED
      BY <1>2, <2>2, <3>1, <3>2 DEF RowOK
  <2> QED
    BY <2>1, <2>2
<1>4. /\ UncertainCreate => sync.gen \in Gens
      /\ items = (IF UncertainCreate THEN {[gen |-> sync.gen, ref |-> 0, state |-> "unknown"]} ELSE {})
                 \cup (IF sync'.ext # 0 /\ sync'.status # "cancelled"
                         THEN {[gen |-> sync'.gen, ref |-> sync'.ext, state |-> "needs_action"]} ELSE {})
  BY <1>2, Rows DEF IInv, LedgerRow, UncertainCreate
<1>5. ledger' \in LedgerRow
  <2>1. items \subseteq Items
    BY <1>2, <1>3, <1>4 DEF Items
  <2>2. ledger' = [ledger EXCEPT !.items = items]
    BY <1>2 DEF LedgerRow
  <2> HIDE DEF items
  <2> QED
    BY <1>2, <2>1, <2>2 DEF LedgerRow
<1>6. LedgerHonest'
  <2> SUFFICES ASSUME \A i \in items : i.state = "resolved"
               PROVE  Live \subseteq lost
    BY DEF LedgerHonest, Live
  <2> DEFINE i == [gen |-> sync'.gen, ref |-> sync'.ext, state |-> "needs_action"]
  <2>0. (sync'.ext # 0 /\ sync'.status # "cancelled") => i \in items
    BY <1>4
  <2>1. sync'.ext = 0 \/ sync'.status = "cancelled"
    <3>1. i.state # "resolved"
      OBVIOUS
    <3> HIDE DEF i, items
    <3> QED
      BY <2>0, <3>1
  <2>2. 0 \notin Live
    BY Numbers DEF Live
  <2> QED
    BY <1>2, <1>3, <2>1, <2>2
<1>7. CASE CancelRecord
  <2>1. /\ sync.gen + 1 \in Gens /\ iv.status # "cancelled" /\ iv' \in InterviewRow
        /\ GenerationsCount' /\ UrlIsOfEvent'
    BY <1>7, CancelledRecord
  <2> QED
    BY <1>5, <1>6, <1>7, <2>1, ScheduleStep DEF CancelRecord, Ended
<1>8. CASE UNCHANGED <<iv, sync, box>>
  <2>1. TypeOK'
    BY <1>5, <1>8, Types, TypesNext DEF IInv
  <2>2. \A q \in Procs : WorkerOK(q)' /\ ~AtStep(q, "called")'
    BY <1>1, <1>8, OutsideKept DEF Ended
  <2>3. OneCall' /\ RemoteIsKnown'
    BY <1>1, <1>8, <2>2 DEF IInv, OneCall, RemoteIsKnown, Live
  <2>4. GenerationsCount' /\ RowOK' /\ EventsOK' /\ SyncedShowsCurrent' /\ UrlIsOfEvent' /\ PendingHasMessage'
    BY <1>8 DEF IInv, GenerationsCount, RowOK, EventsOK, SyncedShowsCurrent, UrlIsOfEvent, PendingHasMessage, Live, Ended
  <2> QED
    BY <1>6, <2>1, <2>2, <2>3, <2>4 DEF IInv
<1> QED
  BY <1>7, <1>8

LEMMA ConfirmExternalStep == ASSUME IInv, ConfirmExternal PROVE IInv'
<1> USE DEF ConfirmExternal
<1>1. ledger' \in LedgerRow /\ ledger'.attested
  <2>1. \A i \in Items : [i EXCEPT !.state = "resolved"] \in Items
    BY DEF Items
  <2> QED
    BY <2>1, Types DEF IInv, LedgerRow
<1>2. TypeOK'
  BY <1>1, Types, TypesNext DEF IInv
<1>3. \A q \in Procs : WorkerOK(q)'
  BY WorkerKept
<1> QED
  BY <1>1, <1>2, <1>3 DEF IInv, GenerationsCount, RowOK, EventsOK, OneCall, AtStep, RemoteIsKnown, SyncedShowsCurrent,
     UrlIsOfEvent, PendingHasMessage, LedgerHonest, Live, Ended

-----------------------------------------------------------------------------
(* The invariant, and what follows from it.                                 *)

LEMMA Initially == Init => IInv
<1> SUFFICES ASSUME Init PROVE IInv
  OBVIOUS
<1> USE DEF Init
<1>1. TypeOK
  <2>1. 0 \in Plans /\ 0 \in Urls /\ 0 \in 0..OutboxTries
    BY ConstantsAssumption, Numbers DEF Urls
  <2> QED
    BY <2>1, Types DEF InterviewRow, SyncRow, MessageRow, HandlerRow, EventRow, LedgerRow, Statuses, NoMessage, Idle
<1>2. Live = {} /\ \A p \in Procs : proc[p].pc = "idle"
  BY DEF Live, Idle
<1>3. EventsOK
  BY Numbers DEF EventsOK, NoMessage
<1>4. OneCall /\ RemoteIsKnown /\ \A p \in Procs : WorkerOK(p)
  BY <1>2 DEF OneCall, RemoteIsKnown, WorkerOK, AtStep
<1>5. GenerationsCount /\ RowOK /\ SyncedShowsCurrent /\ UrlIsOfEvent /\ PendingHasMessage /\ LedgerHonest
  BY <1>2 DEF GenerationsCount, RowOK, SyncedShowsCurrent, UrlIsOfEvent, PendingHasMessage, LedgerHonest
<1> QED
  BY <1>1, <1>3, <1>4, <1>5 DEF IInv

LEMMA Inductive == IInv /\ [Next]_vars => IInv'
<1> SUFFICES ASSUME IInv, [Next]_vars PROVE IInv'
  OBVIOUS
<1>1. CASE CreateInterview \/ Reschedule \/ CancelInterview
  BY <1>1, CreateInterviewStep, RescheduleStep, CancelInterviewStep
<1>2. CASE Progress \/ Withdraw
  BY <1>2, UntoldStep
<1>3. CASE Configure \/ Terminate \/ ConfirmExternal
  BY <1>3, ConfigureStep, TerminateStep, ConfirmExternalStep
<1>4. ASSUME NEW p \in Procs, Deliver(p) PROVE IInv'
  BY <1>4, ClaimMessageStep, ReturnEarlyStep, CallCreateStep, CallUpdateStep, CallCancelStep,
     CommitCancelStep, CommitEventStep, CommitErrorStep, SettleStep DEF Deliver
<1>5. ASSUME NEW p \in Procs, Crash(p) PROVE IInv'
  BY <1>5, CrashStep
<1>6. ASSUME NEW g \in Gens, ReapMessage(g) PROVE IInv'
  BY <1>6, ReapMessageStep
<1>7. CASE UNCHANGED vars
  <2>1. UNCHANGED <<app, iv, enabled, sync, box, proc, remote, lost, ledger>>
    BY <1>7 DEF vars
  <2>2. \A q \in Procs : WorkerOK(q)' /\ (AtStep(q, "called")' <=> AtStep(q, "called"))
    BY <2>1, WorkerKept
  <2> QED
    BY <2>1, <2>2, Types, OutboxStep DEF IInv
<1> QED
  BY <1>1, <1>2, <1>3, <1>4, <1>5, <1>6, <1>7 DEF Next

(* Types, generations, what the row names, what a call in progress knows.   *)
THEOREM CalendarInvariant == Spec => []IInv
  BY Initially, Inductive, PTL DEF Spec

(* Whatever the provider answers, and whoever outlives a lease: outside a   *)
(* call every event is the one the row names or one whose making the        *)
(* platform could not record, a row that says "synced" shows the schedule   *)
(* in force, a link is that of the event or the user's own, and a row that  *)
(* waits has a message (integrations/feishu/worker.py, sync.py).            *)
THEOREM CalendarCorrect == Spec => []CalendarSafety
<1>1. IInv => CalendarSafety
  BY DEF IInv, CalendarSafety
<1> QED
  BY <1>1, CalendarInvariant, PTL

(* A termination whose items are all resolved by answers of the provider    *)
(* leaves no event but those the platform never knew of                     *)
(* (recruiting/termination.py).                                             *)
THEOREM LedgerCorrect == Spec => []LedgerHonest
<1>1. IInv => LedgerHonest
  BY DEF IInv
<1> QED
  BY <1>1, CalendarInvariant, PTL
-----------------------------------------------------------------------------
(* The notices that tell the candidate of the interview, which follow the   *)
(* same calendar: a specification of its own, NoticesSpec of                *)
(* InterviewNotices.                                                        *)

LEMMA NoticeNumbers ==
  /\ MaxSeq \in Nat /\ MaxMails \in Nat /\ MailTries \in Nat /\ MailTries > 0
  /\ SendTries \in Nat /\ WaitTries \in Nat /\ Mails \subseteq Nat
  BY NoticesAssumption DEF Mails

Notice == [st : Final \cup {"none", "queued", "prepared", "smtp"}, kind : Kinds,
           seq : 0..MaxSeq, tries : 0..MailTries, sends : 0..MailTries,
           mark : BOOLEAN, note : {"none", "member", "nobody"}]
Meeting == [status : MeetingStatuses, seq : 0..MaxSeq, video : BOOLEAN, link : BOOLEAN]

LEMMA NoticeTypes ==
  /\ NoticesTypeOK <=> /\ application \in {"open", "hired", "rejected", "ended"} /\ interview \in Meeting
                 /\ answer \in {"off", "pending", "answered"} /\ mail \in [Mails -> Notice]
  /\ NoticesTypeOK' <=> /\ application' \in {"open", "hired", "rejected", "ended"} /\ interview' \in Meeting
                  /\ answer' \in {"off", "pending", "answered"} /\ mail' \in [Mails -> Notice]
  BY DEF NoticesTypeOK, Notice, Meeting

(* What a delivery may become in a step that leaves the interview alone.    *)
Silenced(d) == application = "open" /\ interview.status = "planned" /\ mail[d].kind = "invite"
      /\ mail[d].seq = interview.seq
Followed(d, m) ==
  /\ m \in Notice /\ m.sends <= m.tries /\ m.kind = mail[d].kind /\ m.seq = mail[d].seq
  /\ mail[d].st # "none" /\ m.st # "none"
  /\ m.st = "cancelled" => mail[d].st = "cancelled" \/ ~Silenced(d)
  /\ m.st = "failed" => m.note # "none"

LEMMA MailStep ==
  ASSUME NoticesInv, UNCHANGED <<application, interview, answer>>, NEW d \in Mails, NEW m, Followed(d, m),
         mail' = [mail EXCEPT ![d] = m]
  PROVE  NoticesInv'
<1>1. mail \in [Mails -> Notice]
  BY NoticeTypes DEF NoticesInv
<1>2. \A e \in Mails : mail'[e] = IF e = d THEN m ELSE mail[e]
  BY <1>1
<1>3. NoticesTypeOK'
  BY <1>1, NoticeTypes DEF NoticesInv, Followed
<1>4. ASSUME NEW e \in Mails PROVE NoticeOK(e)'
  <2>1. CASE e = d
    BY <2>1, <1>2 DEF NoticesInv, NoticeOK, Followed
  <2>2. CASE e # d
    BY <2>2, <1>2 DEF NoticesInv, NoticeOK
  <2> QED
    BY <2>1, <2>2
<1>5. CurrentInviteNotDropped'
  BY <1>2 DEF NoticesInv, CurrentInviteNotDropped, Followed, Silenced
<1>6. FailureIsReported'
  BY <1>2 DEF NoticesInv, FailureIsReported, Followed
<1> QED
  BY <1>3, <1>4, <1>5, <1>6 DEF NoticesInv

(* A delivery that is settled.                                              *)
LEMMA SettledIs ==
  ASSUME NoticesInv, NEW d \in Mails, mail[d].st # "none",
         NEW st \in Final
  PROVE  LET m == Settled(d, st)
         IN  /\ m \in Notice /\ m.sends <= m.tries /\ m.kind = mail[d].kind /\ m.seq = mail[d].seq /\ m.st = st
             /\ \A who \in Responsible :
                  /\ [m EXCEPT !.note = who] \in Notice
                        /\ [m EXCEPT !.note = who].sends <= [m EXCEPT !.note = who].tries
                  /\ [m EXCEPT !.note = who].kind = mail[d].kind /\ [m EXCEPT !.note = who].seq = mail[d].seq
                  /\ [m EXCEPT !.note = who].st = st /\ [m EXCEPT !.note = who].note # "none"
<1>1. mail[d] \in Notice /\ 0 \in 0..MailTries
  BY NoticeTypes, NoticeNumbers DEF NoticesInv
<1> DEFINE m == Settled(d, st)
<1>2. m = [mail[d] EXCEPT !.st = st, !.tries = 0, !.sends = 0, !.mark = FALSE]
  BY DEF Settled
<1> HIDE DEF m
<1> DEFINE a == [mail[d] EXCEPT !.st = st]
           b == [a EXCEPT !.tries = 0]
           c == [b EXCEPT !.sends = 0]
<1>5. a \in Notice /\ a.kind = mail[d].kind /\ a.seq = mail[d].seq /\ a.st = st
  BY <1>1 DEF Notice
<1> HIDE DEF a
<1>6. b \in Notice /\ b.kind = mail[d].kind /\ b.seq = mail[d].seq /\ b.st = st /\ b.tries = 0
  BY <1>1, <1>5 DEF Notice
<1> HIDE DEF b
<1>7. c \in Notice /\ c.kind = mail[d].kind /\ c.seq = mail[d].seq /\ c.st = st /\ c.tries = 0 /\ c.sends = 0
  BY <1>1, <1>6 DEF Notice
<1>8. m = [c EXCEPT !.mark = FALSE]
  BY <1>2 DEF a, b
<1> HIDE DEF c
<1>9. m \in Notice /\ m.sends = c.sends /\ m.tries = c.tries /\ m.kind = c.kind /\ m.seq = c.seq /\ m.st = c.st
  BY <1>7, <1>8 DEF Notice
<1>3. m \in Notice /\ m.sends <= m.tries /\ m.kind = mail[d].kind /\ m.seq = mail[d].seq /\ m.st = st
  BY <1>7, <1>9
<1>4. ASSUME NEW who \in Responsible
      PROVE  LET n == [m EXCEPT !.note = who]
             IN  n \in Notice /\ n.sends <= n.tries /\ n.kind = mail[d].kind /\ n.seq = mail[d].seq
                   /\ n.st = st /\ n.note # "none"
  BY <1>3 DEF Notice, Responsible
<1> QED
  BY <1>3, <1>4 DEF m

LEMMA SettleNotice ==
  ASSUME NoticesInv, UNCHANGED <<application, interview, answer>>,
         NEW d \in Mails, mail[d].st # "none",
         \/ SettleMail(d, "sent")
         \/ SettleMail(d, "cancelled") /\ ~Silenced(d)
         \/ Fail(d)
  PROVE  NoticesInv'
<1>1. CASE SettleMail(d, "sent")
  <2>1. Followed(d, Settled(d, "sent"))
    BY SettledIs DEF Followed, Final
  <2> QED
    BY <1>1, <2>1, MailStep DEF SettleMail
<1>2. CASE SettleMail(d, "cancelled") /\ ~Silenced(d)
  <2>1. Followed(d, Settled(d, "cancelled"))
    BY <1>2, SettledIs DEF Followed, Final
  <2> QED
    BY <1>2, <2>1, MailStep DEF SettleMail
<1>3. CASE Fail(d)
  <2>1. PICK who \in Responsible : mail' = [mail EXCEPT ![d] = [Settled(d, "failed") EXCEPT !.note = who]]
    BY <1>3 DEF Fail
  <2>2. Followed(d, [Settled(d, "failed") EXCEPT !.note = who])
    BY SettledIs DEF Followed, Final
  <2> QED
    BY <2>1, <2>2, MailStep
<1> QED
  BY <1>1, <1>2, <1>3

(* Who is obsolete or superseded is not the notice of the plan in force.    *)
LEMMA ObsoleteIs ==
  ASSUME NEW d, Obsolete(d) \/ Superseded(d)
  PROVE  ~Silenced(d)
  BY DEF Obsolete, Superseded, Silenced

LEMMA PrepareInd ==
  ASSUME NoticesInv, NEW d \in Mails, Prepare(d)
  PROVE  NoticesInv'
<1>1. mail[d] \in Notice /\ mail[d].tries + 1 \in 0..MailTries /\ mail[d].sends + 1 \in 0..MailTries
      /\ mail[d].sends <= mail[d].tries
  BY NoticeTypes, NoticeNumbers DEF NoticesInv, NoticeOK, Prepare, AttemptsLeft, Notice
<1>2. UNCHANGED <<application, interview, answer>> /\ mail[d].st = "queued" /\ mail \in [Mails -> Notice]
  BY NoticeTypes DEF Prepare, NoticesInv
<1>3. CASE (Obsolete(d) \/ Superseded(d)) /\ SettleMail(d, "cancelled")
  BY <1>2, <1>3, ObsoleteIs, SettleNotice
<1>4. CASE Fail(d)
  BY <1>2, <1>4, SettleNotice
<1>5. CASE mail' = [mail EXCEPT ![d].tries = @ + 1]
  <2> DEFINE m == [mail[d] EXCEPT !.tries = mail[d].tries + 1]
  <2>1. mail' = [mail EXCEPT ![d] = m]
    BY <1>5, <1>2
  <2>2. Followed(d, m)
    BY <1>1, <1>2 DEF Notice, Followed
  <2> HIDE DEF m
  <2> QED
    BY <1>2, <2>1, <2>2, MailStep
<1>6. CASE mail' = [mail EXCEPT ![d].st = "prepared", ![d].tries = @ + 1, ![d].sends = @ + 1]
  <2> DEFINE m == [mail[d] EXCEPT !.st = "prepared", !.tries = mail[d].tries + 1, !.sends = mail[d].sends + 1]
  <2>1. mail' = [mail EXCEPT ![d] = m]
    BY <1>6, <1>2
  <2> DEFINE a == [mail[d] EXCEPT !.st = "prepared"]
             b == [a EXCEPT !.tries = mail[d].tries + 1]
  <2>3. a \in Notice /\ a.kind = mail[d].kind /\ a.seq = mail[d].seq /\ a.st = "prepared"
    BY <1>1 DEF Notice
  <2>4. m = [b EXCEPT !.sends = mail[d].sends + 1]
    OBVIOUS
  <2> HIDE DEF a
  <2>5. b \in Notice /\ b.kind = mail[d].kind /\ b.seq = mail[d].seq /\ b.st = "prepared" /\ b.tries = mail[d].tries + 1
    BY <1>1, <2>3 DEF Notice
  <2> HIDE DEF b, m
  <2>6. m \in Notice /\ m.kind = mail[d].kind /\ m.seq = mail[d].seq /\ m.st = "prepared"
        /\ m.tries = mail[d].tries + 1 /\ m.sends = mail[d].sends + 1
    BY <1>1, <2>4, <2>5 DEF Notice
  <2>7. m.sends <= m.tries
    BY <1>1, <2>6 DEF Notice
  <2>2. Followed(d, m)
    BY <1>2, <2>6, <2>7 DEF Followed
  <2> HIDE DEF m
  <2> QED
    BY <1>2, <2>1, <2>2, MailStep
<1> QED
  BY <1>3, <1>4, <1>5, <1>6 DEF Prepare

LEMMA RecheckInd ==
  ASSUME NoticesInv, NEW d \in Mails, Recheck(d)
  PROVE  NoticesInv'
<1>1. mail[d] \in Notice /\ mail[d].sends <= mail[d].tries /\ mail \in [Mails -> Notice]
  BY NoticeTypes DEF NoticesInv, NoticeOK
<1>2. UNCHANGED <<application, interview, answer>> /\ mail[d].st = "prepared"
  BY DEF Recheck
<1>3. CASE Obsolete(d) /\ SettleMail(d, "cancelled")
  BY <1>2, <1>3, ObsoleteIs, SettleNotice
<1>4. CASE mail' = [mail EXCEPT ![d].st = "smtp", ![d].mark = TRUE]
  <2> DEFINE m == [mail[d] EXCEPT !.st = "smtp", !.mark = TRUE]
  <2>1. mail' = [mail EXCEPT ![d] = m]
    BY <1>4, <1>1
  <2>2. Followed(d, m)
    BY <1>1, <1>2 DEF Notice, Followed
  <2> HIDE DEF m
  <2> QED
    BY <1>2, <2>1, <2>2, MailStep
<1> QED
  BY <1>3, <1>4 DEF Recheck

LEMMA Requeue ==
  ASSUME NoticesInv, NEW d \in Mails, mail[d].st # "none", UNCHANGED <<application, interview, answer>>,
         \/ mail' = [mail EXCEPT ![d].st = "queued"]
         \/ mail' = [mail EXCEPT ![d].st = "queued", ![d].mark = FALSE]
  PROVE  NoticesInv'
<1>1. mail[d] \in Notice /\ mail[d].sends <= mail[d].tries /\ mail \in [Mails -> Notice]
  BY NoticeTypes DEF NoticesInv, NoticeOK
<1>2. CASE mail' = [mail EXCEPT ![d].st = "queued"]
  <2> DEFINE m == [mail[d] EXCEPT !.st = "queued"]
  <2>1. mail' = [mail EXCEPT ![d] = m]
    BY <1>2
  <2>2. Followed(d, m)
    BY <1>1 DEF Notice, Followed
  <2> HIDE DEF m
  <2> QED
    BY <2>1, <2>2, MailStep
<1>3. CASE mail' = [mail EXCEPT ![d].st = "queued", ![d].mark = FALSE]
  <2> DEFINE m == [mail[d] EXCEPT !.st = "queued", !.mark = FALSE]
  <2>1. mail' = [mail EXCEPT ![d] = m]
    BY <1>3, <1>1
  <2>2. Followed(d, m)
    BY <1>1 DEF Notice, Followed
  <2> HIDE DEF m
  <2> QED
    BY <2>1, <2>2, MailStep
<1> QED
  BY <1>2, <1>3

LEMMA RecordInd ==
  ASSUME NoticesInv, NEW d \in Mails, Record(d)
  PROVE  NoticesInv'
<1>1. UNCHANGED <<application, interview, answer>> /\ mail[d].st # "none"
  BY DEF Record
<1> QED
  BY <1>1, ObsoleteIs, SettleNotice, Requeue DEF Record

LEMMA LoseInd ==
  ASSUME NoticesInv, NEW d \in Mails, Lose(d)
  PROVE  NoticesInv'
<1>1. UNCHANGED <<application, interview, answer>> /\ mail[d].st # "none"
  BY DEF Lose
<1> QED
  BY <1>1, SettleNotice, Requeue DEF Lose

-----------------------------------------------------------------------------
(* Commands.                                                                *)

LEMMA QueuedIs ==
  ASSUME NEW kind, NEW seq
  PROVE  LET m == [NoMail EXCEPT !.st = "queued", !.kind = kind, !.seq = seq]
         IN  m.st = "queued" /\ m.kind = kind /\ m.seq = seq /\ m.sends <= m.tries /\ m.note = "none"
  BY DEF NoMail

(* A queued notice has the sequence of the interview as the step leaves it. *)
LEMMA NotifyIs ==
  ASSUME NoticesInv, NEW kind \in Kinds, NEW seq \in 0..MaxSeq,
         Notify(kind, seq)
  PROVE  /\ mail' \in [Mails -> Notice]
         /\ \A d \in Mails :
              \/ mail'[d] = mail[d]
              \/ /\ mail[d].st = "none" /\ mail'[d].st = "queued" /\ mail'[d].kind = kind
                 /\ mail'[d].seq = seq /\ mail'[d].sends <= mail'[d].tries
<1> DEFINE m == [NoMail EXCEPT !.st = "queued", !.kind = kind, !.seq = seq]
<1>1. mail \in [Mails -> Notice] /\ 0 \in 0..MailTries
  BY NoticeTypes, NoticeNumbers DEF NoticesInv
<1>2. m \in Notice
  BY <1>1 DEF NoMail, Notice, Final
<1>5. m.st = "queued" /\ m.kind = kind /\ m.seq = seq /\ m.sends <= m.tries
  BY QueuedIs
<1>3. CASE UNCHANGED mail
  BY <1>1, <1>3
<1>4. CASE \E d \in NewMail : Queued(d, kind, seq)
  <2>1. PICK d \in NewMail : mail' = [mail EXCEPT ![d] = m]
    BY <1>4 DEF Queued
  <2> HIDE DEF m
  <2>2. d \in Mails /\ mail[d].st = "none"
    BY DEF NewMail
  <2> QED
    BY <1>1, <1>2, <1>5, <2>1, <2>2
<1> QED
  BY <1>3, <1>4 DEF Notify

LEMMA NoticeRow ==
  ASSUME NoticesInv
  PROVE  /\ interview \in Meeting /\ interview.seq \in 0..MaxSeq /\ interview.seq \in Nat
         /\ \A d \in Mails : mail[d] \in Notice /\ mail[d].seq \in Nat /\ NoticeOK(d)
  BY NoticeTypes DEF NoticesInv, Meeting, Notice

(* A plan is made or changed.                                               *)
LEMMA PlanStep ==
  ASSUME NoticesInv, NEW seq \in 0..MaxSeq, Notify("invite", seq),
         AwaitSync, UNCHANGED application,
         interview' \in Meeting, interview'.status = "planned", interview'.seq = seq,
         interview.status \in {"none", "planned"}, interview.status = "planned" => interview.seq < seq
  PROVE  NoticesInv'
<1>1. mail' \in [Mails -> Notice]
  BY NotifyIs DEF Kinds
<1>2. \A d \in Mails :
        \/ mail'[d] = mail[d]
        \/ mail'[d].st = "queued" /\ mail'[d].kind = "invite" /\ mail'[d].seq = seq /\ mail'[d].sends <= mail'[d].tries
  BY NotifyIs DEF Kinds
<1>3. seq <= seq /\ seq \in Nat
  OBVIOUS
<1>4. NoticesTypeOK'
  BY <1>1, NoticeTypes DEF NoticesInv, AwaitSync
<1>5. ASSUME NEW d \in Mails PROVE NoticeOK(d)'
  <2>1. CASE mail'[d] = mail[d]
    BY <2>1, <1>3, NoticeRow DEF NoticeOK
  <2>2. CASE mail'[d].st = "queued" /\ mail'[d].kind = "invite" /\ mail'[d].seq = seq
        /\ mail'[d].sends <= mail'[d].tries
    BY <2>2, <1>3 DEF NoticeOK
  <2> QED
    BY <1>2, <2>1, <2>2
<1>6. CurrentInviteNotDropped'
  <2>1. ASSUME NEW d \in Mails, mail'[d].seq = seq, mail'[d].st = "cancelled" PROVE FALSE
    <3>1. mail[d].seq = seq /\ mail[d].st = "cancelled"
      BY <1>2, <2>1
    <3> QED
      BY <3>1, <1>3, NoticeRow DEF NoticeOK
  <2> QED
    BY <2>1 DEF CurrentInviteNotDropped
<1>7. FailureIsReported'
  BY <1>2 DEF NoticesInv, FailureIsReported
<1> QED
  BY <1>4, <1>5, <1>6, <1>7 DEF NoticesInv

LEMMA CreateInd == ASSUME NoticesInv, CreateAndInvite PROVE NoticesInv'
<1>1. PICK video \in BOOLEAN, link \in BOOLEAN :
        interview' = [status |-> "planned", seq |-> 0, video |-> video, link |-> link]
  BY DEF CreateAndInvite
<1>2. interview' \in Meeting /\ interview'.status = "planned" /\ interview'.seq = 0 /\ 0 \in 0..MaxSeq
  BY <1>1, NoticeNumbers DEF Meeting, MeetingStatuses, OpenStatuses
<1> QED
  BY <1>2, PlanStep DEF CreateAndInvite

LEMMA RescheduleInd == ASSUME NoticesInv, RescheduleAndInvite PROVE NoticesInv'
<1>1. PICK video \in BOOLEAN, link \in BOOLEAN :
        interview' = [status |-> "planned", seq |-> interview.seq + 1, video |-> video, link |-> link]
  BY DEF RescheduleAndInvite
<1>2. interview.seq + 1 \in 0..MaxSeq /\ interview.seq < interview.seq + 1
  BY NoticeRow, NoticeNumbers DEF RescheduleAndInvite
<1>3. interview' \in Meeting /\ interview'.status = "planned" /\ interview'.seq = interview.seq + 1
  BY <1>1, <1>2 DEF Meeting, MeetingStatuses, OpenStatuses
<1> QED
  BY <1>2, <1>3, PlanStep DEF RescheduleAndInvite

(* A cancellation ends an interview that stands.                            *)
LEMMA CancelledIs ==
  ASSUME NoticesInv, interview.status \in OpenStatuses,
         interview.seq < MaxSeq, interview' = Cancelled
  PROVE  /\ interview' \in Meeting /\ interview'.status = "cancelled" /\ interview'.seq = interview.seq + 1
         /\ interview.seq + 1 \in 0..MaxSeq
<1>1. interview \in Meeting /\ interview.seq + 1 \in 0..MaxSeq
  BY NoticeRow, NoticeNumbers
<1>2. interview' = [interview EXCEPT !.status = "cancelled", !.seq = interview.seq + 1]
  BY DEF Cancelled
<1> QED
  BY <1>1, <1>2 DEF Meeting, MeetingStatuses

LEMMA CancelInd == ASSUME NoticesInv, CancelAndNotify PROVE NoticesInv'
<1> DEFINE seq == interview.seq + 1
<1>1. /\ interview' \in Meeting /\ interview'.status = "cancelled" /\ interview'.seq = seq /\ seq \in 0..MaxSeq
      /\ interview.status \in OpenStatuses /\ Notify("cancel", seq) /\ AwaitSync
            /\ UNCHANGED application
  BY CancelledIs DEF CancelAndNotify
<1>2. interview.seq < seq /\ seq <= seq
  BY NoticeRow
<1> HIDE DEF seq
<1>3. mail' \in [Mails -> Notice]
  BY <1>1, NotifyIs DEF Kinds
<1>4. \A d \in Mails :
        \/ mail'[d] = mail[d]
        \/ mail'[d].st = "queued" /\ mail'[d].kind = "cancel" /\ mail'[d].seq = seq /\ mail'[d].sends <= mail'[d].tries
  BY <1>1, NotifyIs DEF Kinds
<1>5. NoticesTypeOK'
  BY <1>1, <1>3, NoticeTypes DEF NoticesInv, AwaitSync
<1>6. ASSUME NEW d \in Mails PROVE NoticeOK(d)'
  <2>1. CASE mail'[d] = mail[d]
    BY <2>1, <1>1, <1>2, NoticeRow DEF NoticeOK, OpenStatuses
  <2>2. CASE mail'[d].st = "queued" /\ mail'[d].kind = "cancel" /\ mail'[d].seq = seq
        /\ mail'[d].sends <= mail'[d].tries
    BY <2>2, <1>1, <1>2 DEF NoticeOK
  <2> QED
    BY <1>4, <2>1, <2>2
<1>7. CurrentInviteNotDropped'
  BY <1>1 DEF CurrentInviteNotDropped
<1>8. FailureIsReported'
  BY <1>4 DEF NoticesInv, FailureIsReported
<1> QED
  BY <1>5, <1>6, <1>7, <1>8 DEF NoticesInv

LEMMA TerminateNoticesInd == ASSUME NoticesInv, TerminateNotices PROVE NoticesInv'
<1>1. /\ application' = "ended" /\ mail \in [Mails -> Notice]
      /\ \A d \in Mails : mail[d].st # "none" => Settled(d, "cancelled") \in Notice
  BY NoticeTypes, SettledIs DEF NoticesInv, TerminateNotices, Final
<1>2. \A d \in Mails :
        \/ mail'[d] = mail[d]
        \/ mail[d].st # "none" /\ mail'[d] = Settled(d, "cancelled")
  BY DEF TerminateNotices
<1>3. mail' \in [Mails -> Notice]
  <2>1. mail' = [d \in Mails |-> mail'[d]]
    BY DEF TerminateNotices
  <2>2. \A d \in Mails : mail'[d] \in Notice
    BY <1>1, <1>2
  <2> QED
    BY <2>1, <2>2
<1>4. \A d \in Mails :
        \/ mail'[d] = mail[d]
        \/ /\ mail[d].st # "none" /\ mail'[d].st = "cancelled" /\ mail'[d].kind = mail[d].kind
           /\ mail'[d].seq = mail[d].seq /\ mail'[d].sends <= mail'[d].tries
  BY <1>2, SettledIs DEF Final
<1>5. CASE interview.status \in OpenStatuses /\ interview.seq < MaxSeq
      /\ interview' = Cancelled /\ AwaitSync
  <2>1. interview' \in Meeting /\ interview'.status = "cancelled" /\ interview'.seq = interview.seq + 1
    BY <1>5, CancelledIs
  <2>2. NoticesTypeOK'
    BY <1>1, <1>3, <1>5, <2>1, NoticeTypes DEF AwaitSync
  <2>3. ASSUME NEW d \in Mails PROVE NoticeOK(d)'
    BY <1>4, <1>5, <2>1, NoticeRow DEF NoticeOK, OpenStatuses
  <2>4. CurrentInviteNotDropped'
    BY <2>1 DEF CurrentInviteNotDropped
  <2>5. FailureIsReported'
    BY <1>4 DEF NoticesInv, FailureIsReported
  <2> QED
    BY <2>2, <2>3, <2>4, <2>5 DEF NoticesInv
<1>6. CASE UNCHANGED <<interview, answer>>
  <2>1. NoticesTypeOK'
    BY <1>1, <1>3, <1>6, NoticeTypes DEF NoticesInv
  <2>2. ASSUME NEW d \in Mails PROVE NoticeOK(d)'
    BY <1>4, <1>6, NoticeRow DEF NoticeOK
  <2>3. CurrentInviteNotDropped'
    BY <1>1 DEF CurrentInviteNotDropped
  <2>4. FailureIsReported'
    BY <1>4 DEF NoticesInv, FailureIsReported
  <2> QED
    BY <2>1, <2>2, <2>3, <2>4 DEF NoticesInv
<1> QED
  BY <1>5, <1>6 DEF TerminateNotices

(* The interview goes on, or the application ends, and no mail is touched.  *)
LEMMA MeetingStep ==
  ASSUME NoticesInv, UNCHANGED mail, application' \in {"open", "hired", "rejected", "ended"},
         application' = "open" => application = "open",
         answer' \in {"off", "pending", "answered"}, interview' \in Meeting,
         \/ interview'.status = interview.status /\ interview'.seq = interview.seq
         \/ interview'.status \notin {"none", "planned", "cancelled"} /\ interview'.seq >= interview.seq
               /\ interview.status # "cancelled"
  PROVE  NoticesInv'
<1>1. NoticesTypeOK'
  BY NoticeTypes DEF NoticesInv
<1>2. ASSUME NEW d \in Mails PROVE NoticeOK(d)'
  <2>1. interview'.seq \in Nat /\ interview.seq \in Nat /\ mail[d].seq \in Nat
    BY NoticeRow DEF Meeting
  <2> QED
    BY <2>1, NoticeRow DEF NoticeOK
<1>3. CurrentInviteNotDropped'
  BY DEF NoticesInv, CurrentInviteNotDropped
<1>4. FailureIsReported'
  BY DEF NoticesInv, FailureIsReported
<1> QED
  BY <1>1, <1>2, <1>3, <1>4 DEF NoticesInv

LEMMA ProgressInd == ASSUME NoticesInv, MeetingProgress PROVE NoticesInv'
<1>1. interview \in Meeting /\ interview.seq \in Nat /\ interview.seq + 1 > interview.seq
  BY NoticeRow
<1>2. UNCHANGED <<application, answer, mail>> /\ application \in {"open", "hired", "rejected", "ended"}
      /\ answer \in {"off", "pending", "answered"}
  BY NoticeTypes DEF MeetingProgress, NoticesInv
<1>3. /\ interview' \in Meeting /\ interview'.seq >= interview.seq /\ interview.status # "cancelled"
      /\ interview'.status \notin {"none", "planned", "cancelled"}
  <2>1. CASE interview' = [interview EXCEPT !.status = "pending_feedback"] /\ interview.status = "planned"
    BY <1>1, <2>1 DEF Meeting, MeetingStatuses, OpenStatuses
  <2>2. CASE interview' = [interview EXCEPT !.status = "feedback_completed"] /\ interview.status \in OpenStatuses
    BY <1>1, <2>2 DEF Meeting, MeetingStatuses, OpenStatuses
  <2>3. CASE interview.status = "planned" /\ interview.seq < MaxSeq
        /\ interview' = [interview EXCEPT !.status = "no_show", !.seq = @ + 1]
    <3>1. interview.seq + 1 \in 0..MaxSeq
      BY <1>1, <2>3, NoticeNumbers
    <3>2. interview' = [interview EXCEPT !.status = "no_show", !.seq = interview.seq + 1]
      BY <2>3
    <3> DEFINE j == [interview EXCEPT !.status = "no_show"]
    <3>3. j \in Meeting /\ j.status = "no_show"
      BY <1>1 DEF Meeting, MeetingStatuses
    <3>4. interview' = [j EXCEPT !.seq = interview.seq + 1]
      BY <3>2
    <3> HIDE DEF j
    <3>5. interview' \in Meeting /\ interview'.status = "no_show" /\ interview'.seq = interview.seq + 1
      BY <3>1, <3>3, <3>4 DEF Meeting
    <3> QED
      BY <1>1, <2>3, <3>5
  <2> QED
    BY <2>1, <2>2, <2>3 DEF MeetingProgress
<1> QED
  BY <1>2, <1>3, MeetingStep

LEMMA CloseInd == ASSUME NoticesInv, CloseApplication PROVE NoticesInv'
<1>1. answer \in {"off", "pending", "answered"} /\ interview \in Meeting
  BY NoticeTypes DEF NoticesInv
<1> QED
  BY <1>1, MeetingStep DEF CloseApplication

LEMMA AnswersInd == ASSUME NoticesInv, CalendarAnswers PROVE NoticesInv'
<1>1. interview \in Meeting /\ application \in {"open", "hired", "rejected", "ended"}
  BY NoticeTypes DEF NoticesInv
<1>2. PICK link \in IF interview.video THEN {TRUE, interview.link} ELSE {FALSE} : interview' = [interview EXCEPT !.link = link]
  BY DEF CalendarAnswers
<1>3. link \in BOOLEAN
  BY <1>1, <1>2 DEF Meeting
<1>4. interview' \in Meeting /\ interview'.status = interview.status /\ interview'.seq = interview.seq
  BY <1>1, <1>2, <1>3 DEF Meeting
<1> QED
  BY <1>1, <1>4, MeetingStep DEF CalendarAnswers

LEMMA ResendInd ==
  ASSUME NoticesInv, NEW d \in Mails, Resend(d)
  PROVE  NoticesInv'
<1>1. PICK e \in NewMail : Queued(e, mail[d].kind, mail[d].seq)
  BY DEF Resend
<1> DEFINE m == [NoMail EXCEPT !.st = "queued", !.kind = mail[d].kind, !.seq = mail[d].seq]
<1>2. mail \in [Mails -> Notice] /\ 0 \in 0..MailTries /\ e \in Mails /\ mail[d].st # "none"
  BY NoticeTypes, NoticeNumbers DEF NoticesInv, NewMail, Resend
<1>3. m \in Notice
  BY <1>2 DEF NoMail, Notice
<1>4. m.st = "queued" /\ m.kind = mail[d].kind /\ m.seq = mail[d].seq /\ m.sends <= m.tries
  BY QueuedIs
<1>5. mail' = [mail EXCEPT ![e] = m] /\ UNCHANGED <<application, interview, answer>>
  BY <1>1 DEF Queued, Resend
<1> HIDE DEF m
<1>6. \A f \in Mails : mail'[f] = IF f = e THEN m ELSE mail[f]
  BY <1>2, <1>5
<1>7. NoticesTypeOK'
  BY <1>2, <1>3, <1>5, NoticeTypes DEF NoticesInv
<1>8. ASSUME NEW f \in Mails PROVE NoticeOK(f)'
  BY <1>2, <1>4, <1>5, <1>6, NoticeRow DEF NoticeOK
<1>9. CurrentInviteNotDropped'
  BY <1>4, <1>5, <1>6 DEF NoticesInv, CurrentInviteNotDropped
<1>10. FailureIsReported'
  BY <1>4, <1>6 DEF NoticesInv, FailureIsReported
<1> QED
  BY <1>7, <1>8, <1>9, <1>10 DEF NoticesInv

LEMMA NoticesBegin ==
  ASSUME NoticesInit
  PROVE  NoticesInv
<1>1. 0 \in 0..MailTries /\ 0 \in 0..MaxSeq
  BY NoticeNumbers
<1>2. NoMail \in Notice /\ NoMail.st = "none" /\ NoMail.sends <= NoMail.tries
  BY <1>1 DEF NoMail, Notice, Kinds
<1>3. interview \in Meeting
  BY <1>1 DEF NoticesInit, Meeting, MeetingStatuses
<1>4. mail = [d \in Mails |-> NoMail]
  BY DEF NoticesInit
<1>5. \A d \in Mails : mail[d] = NoMail
  BY <1>4
<1>6. mail \in [Mails -> Notice]
  BY <1>2, <1>4
<1>7. NoticesTypeOK
  BY <1>3, <1>6, NoticeTypes DEF NoticesInit
<1> QED
  BY <1>2, <1>5, <1>7 DEF NoticesInv, NoticeOK, CurrentInviteNotDropped, FailureIsReported

LEMMA NoticesGoOn ==
  ASSUME NoticesInv, [NoticesNext]_NoticesVars
  PROVE  NoticesInv'
<1>1. CASE CreateAndInvite \/ RescheduleAndInvite \/ CancelAndNotify \/ MeetingProgress
  BY <1>1, CreateInd, RescheduleInd, CancelInd, ProgressInd
<1>2. CASE CloseApplication \/ TerminateNotices \/ CalendarAnswers
  BY <1>2, CloseInd, TerminateNoticesInd, AnswersInd
<1>3. CASE \E d \in Mails : Resend(d) \/ Attempt(d)
  BY <1>3, ResendInd, PrepareInd, RecheckInd, RecordInd, LoseInd DEF Attempt
<1>4. CASE UNCHANGED NoticesVars
  <2>1. interview \in Meeting /\ application \in {"open", "hired", "rejected", "ended"}
        /\ answer \in {"off", "pending", "answered"}
    BY NoticeTypes DEF NoticesInv
  <2> QED
    BY <1>4, <2>1, MeetingStep DEF NoticesVars
<1> QED
  BY <1>1, <1>2, <1>3, <1>4 DEF NoticesNext

(* Types, and which sequences the notices of an interview have.             *)
THEOREM NoticesInvariant == NoticesSpec => []NoticesInv
<1>1. NoticesInit => NoticesInv
  BY NoticesBegin
<1>2. NoticesInv /\ [NoticesNext]_NoticesVars => NoticesInv'
  BY NoticesGoOn
<1> QED
  BY <1>1, <1>2, PTL DEF NoticesSpec

(* A cancellation outranks every invitation, resent ones and those still    *)
(* under way too, the invitation to the plan in force is not dropped, and a *)
(* mail that failed, on whatever path, has been reported                    *)
(* (communications/worker.py, interview_messages.py, mark_delivery_failed). *)
THEOREM NoticesCorrect == NoticesSpec => []NoticeSafety
<1>1. NoticesInv => CancelOutranks
  BY NoticeRow DEF CancelOutranks, NoticeOK
<1>2. NoticesInv => NoticeSafety
  BY <1>1 DEF NoticeSafety, NoticesInv
<1>3. NoticesSpec => []NoticesInv
  BY NoticesInvariant
<1> QED
  BY <1>2, <1>3, PTL
=============================================================================
