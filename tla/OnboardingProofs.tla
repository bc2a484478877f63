-------------------------- MODULE OnboardingProofs --------------------------
(* Proofs about Onboarding, for every value of its constants.               *)
EXTENDS Onboarding, FiniteSetTheorems, TLAPS

(* The types of TypeOK and Counted, table by table.                         *)
Records == [st : {"none", "ready", "submitting", "submitted", "failed"},
            err : {"none", "other", "reconcile"}, code : BOOLEAN, form : 1..2]
EventRows == [topic : {"none", "create", "reconcile"}, n : 0..MaxAttempts,
              st : {"none", "queued", "running", "published", "failed", "abandoned"},
              owner : Workers \cup {"none"}, sub : {"none", "preflight", "prepared", "attempted", "unknown"},
              digest : Digests \cup {Nothing}, app : 0..MaxChanges + 1, code : BOOLEAN]
Ledgers == [stop : BOOLEAN, ref : {"none", "needs_action", "resolved"}, attested : SUBSET {"ref", "noref"},
            noref : {"none", "unknown", "in_flight", "resolved"}]
Handlers == [e : 0..MaxEvents, n : 0..MaxAttempts, pc : Places, read : Readings]
WorldOK ==
  /\ cfg \in [ver : 1..MaxChanges + 1, body : 1..MaxChanges + 1, fp : 0..MaxChanges + 1, on : BOOLEAN]
  /\ env \in [who : 0..MaxChanges + 1, app : 1..MaxChanges + 1, def : 1..MaxChanges + 1]
  /\ del \in BOOLEAN
  /\ count \in [lapse : 0..MaxLapses, crash : 0..MaxLapses, change : 0..MaxChanges]
  /\ cfg.ver <= count.change + 1 /\ cfg.body <= count.change + 1 /\ env.def <= count.change + 1
TablesOK ==
  /\ rec \in Records /\ ev \in [Events -> EventRows] /\ led \in Ledgers /\ wk \in [Workers -> Handlers]
  /\ remote \in Digests \cup {Nothing} /\ air \subseteq Digests /\ sent \subseteq Digests

LEMMA TypesAre ==
  /\ TypeOK /\ Counted <=> WorldOK /\ TablesOK
  /\ TypeOK' /\ Counted' <=> WorldOK' /\ TablesOK'
<1>1. TypeOK /\ Counted <=> WorldOK /\ TablesOK
  BY DEF TypeOK, Counted, WorldOK, TablesOK, Records, EventRows, Ledgers, Handlers
<1>2. TypeOK' /\ Counted' <=> WorldOK' /\ TablesOK'
  BY DEF TypeOK, Counted, WorldOK, TablesOK, Records, EventRows, Ledgers, Handlers
<1> QED
  BY <1>1, <1>2

LEMMA NothingIsNoDigest == Nothing \notin Digests
  BY DEF Nothing, Digests

Marked == {"attempted", "unknown"}

(* What a handler may carry that holds no request: the rest of the          *)
(* invariant asks nothing more of it.                                       *)
HandsFree(h) ==
  /\ h.pc \notin {"commit", "call"}
  /\ h.pc # "idle" => /\ h.e \in Events /\ ev[h.e].topic # "none"
                      /\ h.pc \notin {"route", "reconcile", "found"} => ev[h.e].topic = "create"
  /\ h.pc \in {"read", "prepare"} => h.read.digest # Nothing
  /\ h.pc = "store" => remote' # Nothing

(* A step that sends nothing and stores no request, as each table sees it.  *)
QuietTo(evs) ==
  /\ evs \in [Events -> EventRows]
  /\ \A e \in Events :
       /\ evs[e].topic = ev[e].topic /\ evs[e].digest = ev[e].digest
       /\ ev[e].sub \in Marked => evs[e].sub \in Marked
       /\ ev[e].topic = "none" => evs[e] = ev[e]
EventsQuiet == QuietTo(ev')
RecordQuiet ==
  /\ rec' \in Records
  /\ rec'.st = "submitted" => rec'.code /\ (rec.st = "submitted" \/ remote # Nothing)
HandlersQuiet ==
  /\ wk' \in [Workers -> Handlers]
  /\ \A w \in Workers : wk'[w] = wk[w] \/ HandsFree(wk'[w])
RemoteQuiet ==
  /\ remote' \in Digests \cup {Nothing} /\ remote # Nothing => remote' = remote
  /\ remote' # Nothing => remote' \in sent
LedgerQuiet ==
  /\ led' \in Ledgers /\ led'.stop = led.stop /\ led'.attested = led.attested
  /\ "ref" \in led.attested => led'.ref = led.ref
  /\ led.stop /\ sent # {} => led'.ref # "none" \/ led'.noref \in {"unknown", "in_flight"}

LEMMA QuietStep ==
  ASSUME IInv, EventsQuiet, RecordQuiet, HandlersQuiet, LedgerQuiet, RemoteQuiet, WorldOK',
         air' \subseteq sent, sent' = sent
  PROVE  IInv'
<1>1. TypeOK' /\ Counted'
  BY TypesAre DEF IInv, QuietTo, EventsQuiet, RecordQuiet, HandlersQuiet, LedgerQuiet, RemoteQuiet, TablesOK
<1>2. HandledIsAppended'
  <2>1. \A e \in Events : ev'[e].topic = "none" => ev'[e] = NoEvent
    BY DEF QuietTo, EventsQuiet, IInv, HandledIsAppended
  <2>2. \A w \in Workers : wk'[w].pc # "idle" =>
          /\ wk'[w].e \in Events /\ ev'[wk'[w].e].topic # "none"
          /\ wk'[w].pc \notin {"route", "reconcile", "found"} => ev'[wk'[w].e].topic = "create"
    BY DEF QuietTo, EventsQuiet, HandlersQuiet, HandsFree, IInv, HandledIsAppended
  <2> QED
    BY <2>1, <2>2 DEF HandledIsAppended, Events
<1>3. Creates' = Creates
  BY DEF Creates, Events, QuietTo, EventsQuiet
<1>4. OneDigest'
  BY <1>3 DEF OneDigest, QuietTo, EventsQuiet, IInv, Creates
<1>5. CarriedIsStored'
  BY DEF CarriedIsStored, QuietTo, EventsQuiet, HandlersQuiet, HandsFree, IInv, HandledIsAppended
<1>6. SentIsStored' /\ SentIsMarked'
  BY <1>3 DEF SentIsStored, SentIsMarked, QuietTo, EventsQuiet, IInv, Creates, Marked
<1>7. RemoteIsSent'
  BY DEF RemoteIsSent, At, HandlersQuiet, HandsFree, RemoteQuiet, IInv
<1>8. SubmittedIsReal'
  BY DEF SubmittedIsReal, RecordQuiet, RemoteQuiet, IInv, RemoteIsSent
<1>9. LedgerSeesSent' /\ AttestedIsResolved'
  BY DEF LedgerSeesSent, AttestedIsResolved, LedgerQuiet, IInv
<1> QED
  BY <1>1, <1>2, <1>4, <1>5, <1>6, <1>7, <1>8, <1>9 DEF IInv

LEMMA Unpacked ==
  ASSUME IInv
  PROVE  WorldOK /\ TablesOK /\ air \subseteq sent
  BY TypesAre DEF IInv, RemoteIsSent

(* Tables that a step leaves alone are quiet.                               *)
LEMMA QuietIfUnchanged ==
  ASSUME IInv
  PROVE  /\ ev' = ev => EventsQuiet
         /\ rec' = rec => RecordQuiet
         /\ wk' = wk => HandlersQuiet
         /\ led' = led => LedgerQuiet
         /\ remote' = remote => RemoteQuiet
         /\ UNCHANGED <<cfg, env, del, count>> => WorldOK'
<1>1. /\ ev' = ev => EventsQuiet
      /\ rec' = rec => RecordQuiet
      /\ wk' = wk => HandlersQuiet
      /\ led' = led => LedgerQuiet
      /\ remote' = remote => RemoteQuiet
  BY Unpacked DEF IInv, TablesOK, QuietTo, EventsQuiet, RecordQuiet, HandlersQuiet, LedgerQuiet, RemoteQuiet,
                  SubmittedIsReal, LedgerSeesSent, RemoteIsSent
<1>2. UNCHANGED <<cfg, env, del, count>> => WorldOK'
  BY Unpacked DEF WorldOK
<1> QED
  BY <1>1, <1>2

-----------------------------------------------------------------------------
(* The ledger.                                                              *)

LEMMA FactIsQuiet ==
  ASSUME IInv, NEW id \in {"ref", "noref"}, NEW state \in {"needs_action", "unknown"},
         id = "noref" => state = "unknown",
         led' = Fact(id, state)
  PROVE  LedgerQuiet
<1>1. led \in Ledgers
  BY Unpacked DEF TablesOK
<1>2. led.stop /\ sent # {} => led.ref # "none" \/ led.noref \in {"unknown", "in_flight"}
  BY DEF IInv, LedgerSeesSent
<1>3. CASE led' = led
  BY <1>3, QuietIfUnchanged
<1>4. CASE led' # led /\ id = "ref"
  <2>1. /\ led' = [led EXCEPT !.ref = state,
                     !.noref = IF led.ref = "none" /\ led.noref \in {"unknown", "in_flight"} THEN "none" ELSE led.noref]
        /\ state = "needs_action" /\ "ref" \notin led.attested
    BY <1>1, <1>4 DEF Fact, Ledgers
  <2> QED
    BY <1>1, <2>1 DEF LedgerQuiet, Ledgers
<1>5. CASE led' # led /\ id = "noref"
  <2>1. led' = [led EXCEPT !.noref = "unknown"]
    BY <1>5 DEF Fact
  <2> QED
    BY <1>1, <2>1 DEF LedgerQuiet, Ledgers
<1> QED
  BY <1>3, <1>4, <1>5

(* A generation that has sent a request counts as attempted, for whoever    *)
(* asks.                                                                    *)
LEMMA SentIsAttempted ==
  ASSUME IInv, sent # {}, NEW own
  PROVE  Attempted(own) /\ Creates # {}
  BY DEF IInv, SentIsMarked, Attempted

LEMMA FactNowIsQuiet ==
  ASSUME IInv, led' = FactNow
  PROVE  LedgerQuiet
<1>1. CASE Known
  BY <1>1, FactIsQuiet DEF FactNow
<1>2. CASE ~Known /\ (Creates = {} \/ Attempted(0))
  BY <1>2, FactIsQuiet DEF FactNow
<1>3. CASE ~Known /\ ~(Creates = {} \/ Attempted(0))
  <2>1. led' = Fact("noref", "resolved") /\ sent = {}
    BY <1>3, SentIsAttempted DEF FactNow
  <2>2. led' = led \/ led' = [led EXCEPT !.noref = "resolved"]
    BY <2>1 DEF Fact
  <2> QED
    BY <2>1, <2>2, Unpacked DEF TablesOK, LedgerQuiet, Ledgers
<1> QED
  BY <1>1, <1>2, <1>3

-----------------------------------------------------------------------------
(* The events and the handlers.                                             *)

LEMMA Handled ==
  ASSUME IInv, NEW w \in Workers, wk[w].pc # "idle"
  PROVE  /\ wk[w] \in Handlers /\ wk[w].e \in Events /\ ev[wk[w].e].topic # "none"
         /\ wk[w].pc \notin {"route", "reconcile", "found"} => ev[wk[w].e].topic = "create"
  BY Unpacked DEF IInv, HandledIsAppended, TablesOK

LEMMA SettledIsQuiet ==
  ASSUME IInv, NEW w \in Workers, wk[w].pc # "idle", NEW evs, QuietTo(evs),
         NEW out \in {"again", "published", "failed"}
  PROVE  QuietTo(Settled(evs, w, out))
<1> DEFINE e == wk[w].e
           end == IF out = "again" THEN IF evs[e].n < MaxAttempts THEN "queued" ELSE "failed" ELSE out
<1>1. CASE Settled(evs, w, out) = evs
  BY <1>1
<1>2. CASE Settled(evs, w, out) # evs
  <2>1. Settled(evs, w, out) = [evs EXCEPT ![e].st = end, ![e].owner = "none"] /\ evs[e].st = "running"
    BY <1>2 DEF Settled
  <2>2. evs \in [Events -> EventRows] /\ e \in Events /\ end \in {"queued", "published", "failed"}
    BY Handled DEF QuietTo
  <2> HIDE DEF end, e
  <2> DEFINE row == [evs[e] EXCEPT !.st = end, !.owner = "none"]
  <2>3. Settled(evs, w, out) = [evs EXCEPT ![e] = row]
    BY <2>1, <2>2
  <2>4. row \in EventRows /\ row.topic = evs[e].topic /\ row.digest = evs[e].digest /\ row.sub = evs[e].sub
    BY <2>2 DEF EventRows
  <2>5. ev[e].topic # "none"
    BY Handled DEF e
  <2> HIDE DEF row
  <2> QED
    BY <2>2, <2>3, <2>4, <2>5 DEF QuietTo
<1> QED
  BY <1>1, <1>2

LEMMA IdleIsHandsFree == Idle \in Handlers /\ HandsFree(Idle)
<1>1. 0 \in 0..MaxEvents /\ 0 \in 0..MaxAttempts /\ 0 \in 0..MaxChanges + 1
  BY ConstantsAssumption
<1>2. NoRead \in Readings
  BY <1>1 DEF NoRead, Readings
<1> QED
  BY <1>1, <1>2 DEF Idle, Handlers, HandsFree, Places

LEMMA OneHandler ==
  ASSUME IInv, NEW w \in Workers, NEW h \in Handlers, HandsFree(h), wk' = [wk EXCEPT ![w] = h]
  PROVE  HandlersQuiet
  BY Unpacked DEF TablesOK, HandlersQuiet

LEMMA EndsIsQuiet ==
  ASSUME IInv, NEW w \in Workers, wk[w].pc # "idle", NEW evs, QuietTo(evs),
         NEW out \in {"again", "published", "failed"}, Ends(evs, w, out)
  PROVE  EventsQuiet /\ HandlersQuiet
  BY SettledIsQuiet, IdleIsHandsFree, OneHandler DEF Ends, EventsQuiet

LEMMA GoIsQuiet ==
  ASSUME IInv, NEW w \in Workers, wk[w].pc # "idle", NEW pc \in Places \ {"commit", "call", "idle"},
         pc \notin {"route", "reconcile", "found"} => ev[wk[w].e].topic = "create",
         pc \in {"read", "prepare"} => wk[w].read.digest # Nothing,
         pc = "store" => remote' # Nothing, Go(w, pc)
  PROVE  HandlersQuiet
<1> DEFINE h == [wk[w] EXCEPT !.pc = pc]
<1>1. h \in Handlers /\ h.pc = pc /\ h.e = wk[w].e /\ h.read = wk[w].read
  BY Handled DEF Handlers
<1>2. HandsFree(h)
  BY <1>1, Handled DEF HandsFree
<1>3. wk' = [wk EXCEPT ![w] = h]
  BY DEF Go
<1> QED
  BY <1>1, <1>2, <1>3, OneHandler

LEMMA FailsIsQuiet ==
  ASSUME IInv, NEW w \in Workers, wk[w].pc # "idle", NEW transient \in BOOLEAN,
         NEW code \in {"other", "reconcile"}, Fails(w, transient, code)
  PROVE  EventsQuiet /\ RecordQuiet /\ HandlersQuiet /\ LedgerQuiet
<1>1. QuietTo(ev)
  BY Unpacked DEF TablesOK, QuietTo
<1>2. EventsQuiet /\ HandlersQuiet
  BY <1>1, EndsIsQuiet DEF Fails
<1>3. LedgerQuiet
  BY FactNowIsQuiet, QuietIfUnchanged DEF Fails
<1>4. RecordQuiet
  <2>1. CASE rec' = rec
    BY <2>1, QuietIfUnchanged
  <2>2. CASE rec' # rec
    <3>1. rec' = [rec EXCEPT !.st = "failed", !.err = IF transient THEN "reconcile" ELSE code] /\ rec \in Records
      BY <2>2, Unpacked DEF Fails, TablesOK
    <3> QED
      BY <3>1 DEF RecordQuiet, Records
  <2> QED
    BY <2>1, <2>2
<1> QED
  BY <1>2, <1>3, <1>4

-----------------------------------------------------------------------------
(* The handler's steps that send nothing.                                   *)

LEMMA RouteStep ==
  ASSUME IInv, NEW w \in Workers, Route(w)
  PROVE  IInv'
<1>1. wk[w].pc = "route" /\ UNCHANGED <<rec, cfg, env, ev, remote, air, sent, del, count>>
  BY DEF Route, At
<1>2. LedgerQuiet
  BY FactNowIsQuiet, QuietIfUnchanged DEF Route
<1>3. HandlersQuiet
  BY <1>1, GoIsQuiet DEF Route, Places
<1> QED
  BY <1>1, <1>2, <1>3, QuietStep, QuietIfUnchanged, Unpacked

LEMMA PreflightStep ==
  ASSUME IInv, NEW w \in Workers, Preflight(w)
  PROVE  IInv'
<1> DEFINE e == wk[w].e
           fresh == ev[e].n <= 1 /\ ev[e].digest = Nothing /\ ev[e].sub \notin {"attempted", "unknown"}
           marked == [ev EXCEPT ![e].sub = IF fresh THEN "preflight" ELSE @]
           reading == [ver |-> cfg.ver, fp |-> cfg.fp, app |-> env.app,
                       digest |-> [cfg |-> cfg.body, who |-> env.who, form |-> rec.form]]
           h == [wk[w] EXCEPT !.pc = "read", !.read = reading]
<1>1. wk[w].pc = "preflight" /\ UNCHANGED <<cfg, env, remote, air, sent, del, count>>
  BY DEF Preflight, At
<1>2. e \in Events /\ ev[e].topic = "create" /\ wk[w] \in Handlers
  BY <1>1, Handled
<1>3. QuietTo(ev)
  BY Unpacked DEF TablesOK, QuietTo
<1>4. QuietTo(marked)
  <2>1. /\ ev \in [Events -> EventRows] /\ ev[e] \in EventRows
        /\ marked = [ev EXCEPT ![e] = [ev[e] EXCEPT !.sub = IF fresh THEN "preflight" ELSE ev[e].sub]]
    BY <1>2, Unpacked DEF TablesOK
  <2> DEFINE row == [ev[e] EXCEPT !.sub = IF fresh THEN "preflight" ELSE ev[e].sub]
  <2>2. row \in EventRows /\ row.topic = ev[e].topic /\ row.digest = ev[e].digest
    BY <2>1 DEF EventRows
  <2>3. ev[e].sub \in Marked => row.sub \in Marked
    BY <2>1 DEF EventRows, Marked
  <2>4. marked = [ev EXCEPT ![e] = row]
    BY <2>1
  <2> HIDE DEF row, marked
  <2> QED
    BY <1>2, <2>1, <2>2, <2>3, <2>4 DEF QuietTo
<1>5. CASE \E evs \in {ev, marked}, out \in {"published", "failed"} : Ends(evs, w, out)
  <2>1. EventsQuiet /\ HandlersQuiet
    BY <1>1, <1>3, <1>4, <1>5, EndsIsQuiet
  <2>2. LedgerQuiet
    BY FactNowIsQuiet, QuietIfUnchanged DEF Preflight
  <2>3. RecordQuiet
    <3>1. rec' = rec \/ rec'.st \in {"failed", "submitting"}
      BY Unpacked DEF Preflight, TablesOK, Records
    <3>2. rec' \in Records
      BY Unpacked DEF Preflight, TablesOK, Records
    <3> QED
      BY <3>1, <3>2, QuietIfUnchanged DEF RecordQuiet
  <2> QED
    BY <1>1, <2>1, <2>2, <2>3, QuietStep, QuietIfUnchanged, Unpacked
<1>6. CASE /\ Usable /\ env.who # 0 /\ rec' = [rec EXCEPT !.st = "submitting", !.err = "none"]
           /\ ev' = marked /\ wk' = [wk EXCEPT ![w].pc = "read", ![w].read = reading] /\ led' = led
  <2>1. RecordQuiet
    BY <1>6, Unpacked DEF TablesOK, Records, RecordQuiet
  <2>2. h \in Handlers /\ HandsFree(h)
    <3>1. reading \in Readings /\ reading.digest # Nothing
      BY <1>6, Unpacked, NothingIsNoDigest DEF WorldOK, TablesOK, Records, Readings, Digests
    <3> HIDE DEF reading
    <3> QED
      BY <1>2, <3>1 DEF Handlers, HandsFree, Places
  <2>3. HandlersQuiet
    <3>1. wk' = [wk EXCEPT ![w] = h]
      BY <1>6
    <3> HIDE DEF h
    <3> QED
      BY <2>2, <3>1, OneHandler
  <2>4. EventsQuiet
    BY <1>4, <1>6 DEF EventsQuiet
  <2> QED
    BY <1>1, <1>6, <2>1, <2>3, <2>4, QuietStep, QuietIfUnchanged, Unpacked
<1> QED
  BY <1>5, <1>6 DEF Preflight

LEMMA ReadDefinitionStep ==
  ASSUME IInv, NEW w \in Workers, ReadDefinition(w)
  PROVE  IInv'
<1>1. wk[w].pc = "read" /\ UNCHANGED <<cfg, env, remote, air, sent, del, count>>
  BY DEF ReadDefinition, At
<1>2. CASE Fails(w, TRUE, "other") \/ Fails(w, FALSE, "other")
  BY <1>1, <1>2, FailsIsQuiet, QuietStep, QuietIfUnchanged, Unpacked
<1>3. CASE Go(w, "prepare") /\ UNCHANGED <<rec, led, ev>>
  <2>1. wk[w].read.digest # Nothing
    BY <1>1 DEF IInv, CarriedIsStored
  <2>2. HandlersQuiet
    BY <1>1, <1>3, <2>1, GoIsQuiet, Handled DEF Places
  <2> QED
    BY <1>1, <1>3, <2>2, QuietStep, QuietIfUnchanged, Unpacked
<1> QED
  BY <1>2, <1>3 DEF ReadDefinition

LEMMA AfterFailureStep ==
  ASSUME IInv, NEW w \in Workers, AfterFailure(w)
  PROVE  IInv'
  BY FailsIsQuiet, QuietStep, QuietIfUnchanged, Unpacked DEF AfterFailure, At

LEMMA LookupStep ==
  ASSUME IInv, NEW w \in Workers, Lookup(w)
  PROVE  IInv'
<1>1. wk[w].pc = "lookup" /\ UNCHANGED <<cfg, env, remote, air, sent, del, count>>
  BY DEF Lookup, At
<1>2. CASE Fails(w, TRUE, "other") \/ Fails(w, FALSE, "other")
  BY <1>1, <1>2, FailsIsQuiet, QuietStep, QuietIfUnchanged, Unpacked
<1>3. CASE Go(w, "store") /\ remote # Nothing /\ UNCHANGED <<rec, led, ev>>
  BY <1>1, <1>3, GoIsQuiet, Handled, QuietStep, QuietIfUnchanged, Unpacked DEF Places
<1> QED
  BY <1>2, <1>3 DEF Lookup

(* What is written over all the events of a generation after the call.      *)
LEMMA WritesAreQuiet ==
  ASSUME IInv
  PROVE  QuietTo(ev) /\ QuietTo(Unknown(ev)) /\ QuietTo(WithCode(ev))
<1>1. ev \in [Events -> EventRows]
  BY Unpacked DEF TablesOK
<1>2. ASSUME NEW e \in Events
      PROVE  /\ [ev[e] EXCEPT !.sub = "unknown"] \in EventRows /\ [ev[e] EXCEPT !.code = TRUE] \in EventRows
             /\ [ev[e] EXCEPT !.sub = "unknown"].topic = ev[e].topic /\ [ev[e] EXCEPT !.sub = "unknown"].digest = ev[e].digest
             /\ [ev[e] EXCEPT !.sub = "unknown"].sub = "unknown"
             /\ [ev[e] EXCEPT !.code = TRUE].topic = ev[e].topic /\ [ev[e] EXCEPT !.code = TRUE].digest = ev[e].digest
             /\ [ev[e] EXCEPT !.code = TRUE].sub = ev[e].sub
  BY <1>1 DEF EventRows
<1>3. \A e \in Events : ev[e].topic = "none" => ev[e].sub # "attempted"
  BY DEF IInv, HandledIsAppended, NoEvent
<1> QED
  BY <1>1, <1>2, <1>3 DEF QuietTo, Unknown, WithCode, Marked

LEMMA CallFailedStep ==
  ASSUME IInv, NEW w \in Workers, CallFailed(w)
  PROVE  IInv'
<1>1. /\ wk[w].pc \in {"duplicate", "lost", "refused"} /\ ev' = Unknown(ev)
      /\ led' = Fact(IF Known THEN "ref" ELSE "noref", "unknown")
      /\ UNCHANGED <<rec, cfg, env, remote, air, sent, del, count>>
  BY DEF CallFailed
<1>2. ev[wk[w].e].topic = "create"
  BY <1>1, Handled
<1>3. \E pc \in {"lookup", "retry", "refuse"} : Go(w, pc)
  BY <1>1 DEF CallFailed, At
<1>4. HandlersQuiet
  BY <1>1, <1>2, <1>3, GoIsQuiet DEF Places
<1>5. LedgerQuiet
  BY <1>1, FactIsQuiet, QuietIfUnchanged DEF Fact
<1>6. EventsQuiet
  BY <1>1, WritesAreQuiet DEF EventsQuiet
<1> QED
  BY <1>1, <1>4, <1>5, <1>6, QuietStep, QuietIfUnchanged, Unpacked

(* The answer is stored: there is an approval to submit.                    *)
LEMMA StoreStep ==
  ASSUME IInv, NEW w \in Workers, Store(w)
  PROVE  IInv'
<1>1. /\ wk[w].pc = "store" /\ Ends(WithCode(ev), w, "published")
      /\ UNCHANGED <<cfg, env, remote, air, sent, del, count>>
  BY DEF Store, At
<1>2. remote # Nothing
  BY <1>1 DEF IInv, RemoteIsSent, At
<1>3. EventsQuiet /\ HandlersQuiet
  BY <1>1, WritesAreQuiet, EndsIsQuiet
<1>4. LedgerQuiet
  BY FactIsQuiet, QuietIfUnchanged DEF Store
<1>5. RecordQuiet
  <2>1. rec \in Records
    BY Unpacked DEF TablesOK
  <2>2. \/ rec' = [rec EXCEPT !.code = TRUE] \/ rec' = rec
        \/ rec' = [rec EXCEPT !.st = "submitted", !.err = "none", !.code = TRUE]
    BY DEF Store
  <2> QED
    BY <1>2, <2>1, <2>2, QuietIfUnchanged DEF RecordQuiet, Records
<1> QED
  BY <1>1, <1>3, <1>4, <1>5, QuietStep, QuietIfUnchanged, Unpacked

LEMMA ReconcileStep ==
  ASSUME IInv, NEW w \in Workers, Reconcile(w)
  PROVE  IInv'
<1>1. wk[w].pc = "reconcile" /\ UNCHANGED <<rec, cfg, env, remote, air, sent, del, count>>
  BY DEF Reconcile, At
<1>2. LedgerQuiet
  BY FactIsQuiet, FactNowIsQuiet, QuietIfUnchanged DEF Reconcile
<1>3. CASE Ends(ev, w, "published") \/ Ends(ev, w, Outcome(w, "failed"))
  <2>1. Outcome(w, "failed") \in {"published", "failed"}
    BY DEF Outcome
  <2>2. EventsQuiet /\ HandlersQuiet
    BY <1>1, <1>3, <2>1, WritesAreQuiet, EndsIsQuiet
  <2> QED
    BY <1>1, <1>2, <2>2, QuietStep, QuietIfUnchanged, Unpacked
<1>4. CASE Go(w, "found") /\ UNCHANGED <<ev, led>>
  <2>1. HandlersQuiet
    BY <1>1, <1>4, GoIsQuiet DEF Places
  <2> QED
    BY <1>1, <1>2, <1>4, <2>1, QuietStep, QuietIfUnchanged, Unpacked
<1> QED
  BY <1>3, <1>4 DEF Reconcile

LEMMA FoundStep ==
  ASSUME IInv, NEW w \in Workers, Found(w)
  PROVE  IInv'
<1>1. /\ wk[w].pc = "found" /\ Ends(WithCode(ev), w, "published") /\ led' = Fact("ref", "needs_action")
      /\ rec' = [rec EXCEPT !.code = TRUE, !.err = "none"]
      /\ UNCHANGED <<cfg, env, remote, air, sent, del, count>>
  BY DEF Found, At
<1>2. EventsQuiet /\ HandlersQuiet
  BY <1>1, WritesAreQuiet, EndsIsQuiet
<1>3. RecordQuiet
  BY <1>1, Unpacked DEF TablesOK, RecordQuiet, Records
<1>4. LedgerQuiet
  BY <1>1, FactIsQuiet
<1> QED
  BY <1>1, <1>2, <1>3, <1>4, QuietStep, QuietIfUnchanged, Unpacked

-----------------------------------------------------------------------------
(* Leases, deaths, the settings and the world.                              *)

LEMMA LiveIsAppended ==
  ASSUME IInv, NEW e \in Events, ev[e].st # "none"
  PROVE  ev \in [Events -> EventRows] /\ ev[e] \in EventRows /\ ev[e].topic # "none"
<1>1. ev \in [Events -> EventRows]
  BY Unpacked DEF TablesOK
<1>2. ev[e].topic = "none" => ev[e] = NoEvent
  BY DEF IInv, HandledIsAppended
<1>3. NoEvent.st = "none"
  BY DEF NoEvent
<1> QED
  BY <1>1, <1>2, <1>3

(* What a lapsed lease or a death counts.                                   *)
LEMMA FaultCounted ==
  ASSUME IInv, UNCHANGED <<cfg, env, del>>,
         \/ count' = count
         \/ count.lapse < MaxLapses /\ count' = [count EXCEPT !.lapse = @ + 1]
         \/ count.crash < MaxLapses /\ count' = [count EXCEPT !.crash = @ + 1]
  PROVE  WorldOK'
<1>1. WorldOK
  BY Unpacked
<1>2. /\ count \in [lapse : 0..MaxLapses, crash : 0..MaxLapses, change : 0..MaxChanges]
      /\ count.lapse \in 0..MaxLapses /\ count.crash \in 0..MaxLapses
  BY <1>1 DEF WorldOK
<1>3. /\ count.lapse < MaxLapses => count.lapse + 1 \in 0..MaxLapses
      /\ count.crash < MaxLapses => count.crash + 1 \in 0..MaxLapses
  BY <1>2, ConstantsAssumption
<1>4. count' \in [lapse : 0..MaxLapses, crash : 0..MaxLapses, change : 0..MaxChanges] /\ count'.change = count.change
  BY <1>2, <1>3
<1> QED
  BY <1>1, <1>4 DEF WorldOK

LEMMA ClaimStep ==
  ASSUME IInv, NEW w \in Workers, NEW e \in Events, Claim(w, e)
  PROVE  IInv'
<1> DEFINE row == [ev[e] EXCEPT !.st = "running", !.owner = w, !.n = ev[e].n + 1]
           h == [Idle EXCEPT !.e = e, !.n = ev[e].n + 1, !.pc = "route"]
<1>1. /\ ev[e].n < MaxAttempts /\ ev[e].st \in {"queued", "running"}
      /\ ev' = [ev EXCEPT ![e].st = "running", ![e].owner = w, ![e].n = @ + 1]
      /\ wk' = [wk EXCEPT ![w] = h] /\ UNCHANGED <<rec, cfg, env, remote, air, sent, led, del>>
  BY DEF Claim
<1>2. ev \in [Events -> EventRows] /\ ev[e] \in EventRows /\ ev[e].topic # "none"
  BY <1>1, LiveIsAppended
<1>3. ev[e].n + 1 \in 0..MaxAttempts
  BY <1>1, <1>2, ConstantsAssumption DEF EventRows
<1>4. row \in EventRows /\ row.topic = ev[e].topic /\ row.digest = ev[e].digest /\ row.sub = ev[e].sub
  BY <1>2, <1>3 DEF EventRows
<1>5. ev' = [ev EXCEPT ![e] = row]
  BY <1>1, <1>2
<1>6. h \in Handlers /\ HandsFree(h)
  <2>1. Idle \in Handlers /\ e \in 0..MaxEvents /\ "route" \in Places
    BY IdleIsHandsFree, ConstantsAssumption DEF Events, Places
  <2>2. h \in Handlers /\ h.e = e /\ h.pc = "route"
    BY <1>3, <2>1 DEF Handlers
  <2> HIDE DEF h
  <2> QED
    BY <1>2, <2>2 DEF HandsFree
<1> HIDE DEF row, h
<1>7. EventsQuiet
  BY <1>2, <1>4, <1>5 DEF QuietTo, EventsQuiet
<1>8. HandlersQuiet
  BY <1>1, <1>6, OneHandler
<1>9. WorldOK'
  <2>1. count' = count \/ (count.lapse < MaxLapses /\ count' = [count EXCEPT !.lapse = @ + 1])
    BY DEF Claim
  <2> QED
    BY <1>1, <2>1, FaultCounted
<1> QED
  BY <1>1, <1>7, <1>8, <1>9, QuietStep, QuietIfUnchanged, Unpacked

LEMMA ReapStep ==
  ASSUME IInv, NEW e \in Events, Reap(e)
  PROVE  IInv'
<1> DEFINE row == [ev[e] EXCEPT !.st = "abandoned", !.owner = "none"]
<1>1. /\ ev[e].st = "running" /\ count.lapse < MaxLapses /\ count' = [count EXCEPT !.lapse = @ + 1]
      /\ ev' = [ev EXCEPT ![e].st = "abandoned", ![e].owner = "none"]
      /\ UNCHANGED <<rec, cfg, env, wk, remote, air, sent, led, del>>
  BY DEF Reap
<1>2. ev \in [Events -> EventRows] /\ ev[e] \in EventRows /\ ev[e].topic # "none"
  BY <1>1, LiveIsAppended
<1>3. row \in EventRows /\ row.topic = ev[e].topic /\ row.digest = ev[e].digest /\ row.sub = ev[e].sub
  BY <1>2 DEF EventRows
<1>4. ev' = [ev EXCEPT ![e] = row]
  BY <1>1, <1>2
<1> HIDE DEF row
<1>5. EventsQuiet
  BY <1>2, <1>3, <1>4 DEF QuietTo, EventsQuiet
<1>6. WorldOK'
  BY <1>1, FaultCounted
<1> QED
  BY <1>1, <1>5, <1>6, QuietStep, QuietIfUnchanged, Unpacked

(* A request that was with Feishu when its process died may still arrive.   *)
LEMMA CrashStep ==
  ASSUME IInv, NEW w \in Workers, Crash(w)
  PROVE  IInv'
<1>1. /\ count.crash < MaxLapses /\ count' = [count EXCEPT !.crash = @ + 1]
      /\ air' = IF wk[w].pc = "call" THEN air \cup {wk[w].read.digest} ELSE air
      /\ wk' = [wk EXCEPT ![w] = Idle] /\ UNCHANGED <<rec, cfg, env, ev, remote, sent, led, del>>
  BY DEF Crash, At
<1>2. air' \subseteq sent
  BY <1>1 DEF IInv, RemoteIsSent, At
<1>3. HandlersQuiet
  BY <1>1, IdleIsHandsFree, OneHandler
<1>4. WorldOK'
  BY <1>1, FaultCounted
<1> QED
  BY <1>1, <1>2, <1>3, <1>4, QuietStep, QuietIfUnchanged, Unpacked

LEMMA SettingsStep ==
  ASSUME IInv,
         \/ \E new \in BOOLEAN, on \in BOOLEAN : PutConfig(new, on)
         \/ \E def \in 0..MaxChanges + 1 : ValidateConfig(def)
         \/ ChangeWorld \/ RequestDeletion \/ RejectDeletion
  PROVE  IInv'
<1>1. UNCHANGED <<rec, ev, wk, remote, air, sent, led>>
  BY DEF PutConfig, ValidateConfig, ChangeWorld, RequestDeletion, RejectDeletion
<1>2. WorldOK'
  <2> DEFINE Configs == [ver : 1..MaxChanges + 1, body : 1..MaxChanges + 1, fp : 0..MaxChanges + 1, on : BOOLEAN]
             Worlds  == [who : 0..MaxChanges + 1, app : 1..MaxChanges + 1, def : 1..MaxChanges + 1]
             Counts  == [lapse : 0..MaxLapses, crash : 0..MaxLapses, change : 0..MaxChanges]
             n       == count.change
  <2>1. /\ cfg \in Configs /\ env \in Worlds /\ del \in BOOLEAN /\ count \in Counts
        /\ cfg.ver <= n + 1 /\ cfg.body <= n + 1 /\ env.def <= n + 1
        /\ cfg.ver \in 1..MaxChanges + 1 /\ cfg.body \in 1..MaxChanges + 1 /\ env.def \in 1..MaxChanges + 1
        /\ n \in 0..MaxChanges /\ MaxChanges \in Nat
    BY Unpacked, ConstantsAssumption DEF WorldOK
  <2>2. CASE n < MaxChanges /\ count' = [count EXCEPT !.change = @ + 1] /\ UNCHANGED del
    <3>1. /\ n + 1 \in 0..MaxChanges /\ n + 2 \in 1..MaxChanges + 1
          /\ cfg.ver + 1 \in 1..MaxChanges + 1 /\ cfg.ver + 1 <= n + 2
          /\ cfg.body + 1 \in 1..MaxChanges + 1 /\ cfg.body + 1 <= n + 2
          /\ env.def + 1 \in 1..MaxChanges + 1 /\ env.def + 1 <= n + 2
          /\ cfg.ver <= n + 2 /\ cfg.body <= n + 2 /\ env.def <= n + 2 /\ 0 \in 0..MaxChanges + 1
      BY <2>1, <2>2
    <3>2. count' \in Counts /\ count'.change = n + 1 /\ n + 1 + 1 = n + 2
      BY <2>1, <2>2, <3>1
    <3>3. ASSUME NEW new \in BOOLEAN, NEW on \in BOOLEAN, PutConfig(new, on) PROVE WorldOK'
      <4>1. /\ UNCHANGED env
            /\ cfg' = [cfg EXCEPT !.ver = cfg.ver + 1, !.on = on, !.body = IF new THEN cfg.body + 1 ELSE cfg.body,
                                  !.fp = IF new THEN 0 ELSE cfg.fp]
        BY <3>3 DEF PutConfig
      <4>2. cfg' \in Configs /\ cfg'.ver <= n + 2 /\ cfg'.body <= n + 2
        BY <2>1, <3>1, <4>1
      <4> QED
        BY <2>1, <2>2, <3>1, <3>2, <4>1, <4>2 DEF WorldOK
    <3>4. ASSUME NEW def \in 0..MaxChanges + 1, ValidateConfig(def) PROVE WorldOK'
      <4>1. UNCHANGED env /\ cfg' = [cfg EXCEPT !.ver = cfg.ver + 1, !.fp = def, !.on = cfg.on /\ def # 0]
        BY <3>4 DEF ValidateConfig
      <4>2. cfg' \in Configs /\ cfg'.ver <= n + 2 /\ cfg'.body <= n + 2
        <5>1. (cfg.on /\ def # 0) \in BOOLEAN
          OBVIOUS
        <5> QED
          BY <2>1, <3>1, <4>1, <5>1
      <4> QED
        BY <2>1, <2>2, <3>1, <3>2, <4>1, <4>2 DEF WorldOK
    <3>5. CASE ChangeWorld
      <4>1. /\ UNCHANGED cfg
            /\ \/ env' = [env EXCEPT !.who = 0] \/ env' = [env EXCEPT !.who = n + 2]
               \/ env' = [env EXCEPT !.app = n + 2] \/ env' = [env EXCEPT !.def = env.def + 1]
        BY <3>5 DEF ChangeWorld
      <4>2. n + 2 \in 0..MaxChanges + 1
        BY <3>1
      <4>3. env' \in Worlds /\ env'.def <= n + 2
        BY <2>1, <3>1, <4>1, <4>2
      <4> QED
        BY <2>1, <2>2, <3>1, <3>2, <4>1, <4>3 DEF WorldOK
    <3>6. CASE RequestDeletion \/ RejectDeletion
      BY <2>1, <2>2, <3>6 DEF RequestDeletion, RejectDeletion
    <3> QED
      BY <3>3, <3>4, <3>5, <3>6
  <2>3. CASE UNCHANGED <<cfg, env, count>> /\ del' \in BOOLEAN
    BY <2>3, Unpacked DEF WorldOK
  <2> QED
    BY <2>2, <2>3 DEF PutConfig, ValidateConfig, ChangeWorld, CanChange, Changed, RequestDeletion, RejectDeletion
<1> QED
  BY <1>1, <1>2, QuietStep, QuietIfUnchanged, Unpacked

LEMMA RecordStep ==
  ASSUME IInv, CreateRecord \/ UpdateRecord
  PROVE  IInv'
<1>1. /\ UNCHANGED <<cfg, env, ev, wk, remote, air, sent, led, del, count>>
      /\ rec' = [rec EXCEPT !.st = "ready"] \/ (rec.st = "ready" /\ rec' = [rec EXCEPT !.form = 3 - @])
  BY DEF CreateRecord, UpdateRecord
<1>2. RecordQuiet
  BY <1>1, Unpacked DEF TablesOK, Records, RecordQuiet
<1> QED
  BY <1>1, <1>2, QuietStep, QuietIfUnchanged, Unpacked

-----------------------------------------------------------------------------
(* A new event of the record, which asks for nothing yet.                   *)

LEMMA AppendIsQuietOrNew ==
  ASSUME IInv, NEW topic \in {"create", "reconcile"}, Append(topic), RecordQuiet,
         UNCHANGED <<cfg, env, wk, remote, air, sent, led, del, count>>
  PROVE  IInv'
<1> DEFINE row == [NoEvent EXCEPT !.topic = topic, !.st = "queued"]
<1>1. PICK e \in Events : ev[e].topic = "none" /\ ev' = [ev EXCEPT ![e] = row]
  BY DEF Append
<1>2. NoEvent \in EventRows
  <2>1. 0 \in 0..MaxAttempts /\ 0 \in 0..MaxChanges + 1
    BY ConstantsAssumption
  <2> QED
    BY <2>1 DEF NoEvent, EventRows
<1>3. row \in EventRows /\ row.topic = topic /\ row.digest = Nothing
  <2>1. NoEvent.digest = Nothing
    BY DEF NoEvent
  <2> QED
    BY <1>2, <2>1 DEF EventRows
<1>4. ev \in [Events -> EventRows]
  BY Unpacked DEF TablesOK
<1> HIDE DEF row
<1>5. ev'[e] = row /\ \A d \in Events \ {e} : ev'[d] = ev[d]
  BY <1>1, <1>4
<1>6. TypeOK' /\ Counted'
  BY <1>1, <1>3, <1>4, Unpacked, TypesAre DEF WorldOK, TablesOK, RecordQuiet
<1>7. HandledIsAppended'
  BY <1>1, <1>3, <1>5 DEF IInv, HandledIsAppended, Events
<1>8. /\ \A d \in Creates' : d = e \/ (d \in Creates /\ ev'[d] = ev[d])
      /\ \A d \in Creates : d \in Creates' /\ ev'[d] = ev[d]
  BY <1>1, <1>5 DEF Creates, Events
<1>9. OneDigest'
  BY <1>3, <1>5, <1>8 DEF IInv, OneDigest
<1>10. CarriedIsStored'
  BY <1>1, <1>5 DEF IInv, CarriedIsStored, HandledIsAppended
<1>11. SentIsStored' /\ SentIsMarked'
  BY <1>8 DEF IInv, SentIsStored, SentIsMarked
<1>12. RemoteIsSent' /\ SubmittedIsReal'
  BY DEF IInv, RemoteIsSent, At, SubmittedIsReal, RecordQuiet
<1>13. LedgerSeesSent' /\ AttestedIsResolved'
  BY DEF IInv, LedgerSeesSent, AttestedIsResolved
<1> QED
  BY <1>6, <1>7, <1>9, <1>10, <1>11, <1>12, <1>13 DEF IInv

LEMMA SubmitStep ==
  ASSUME IInv, Submit
  PROVE  IInv'
<1>1. RecordQuiet
  BY Unpacked DEF Submit, TablesOK, Records, RecordQuiet
<1> QED
  BY <1>1, AppendIsQuietOrNew DEF Submit

LEMMA QueueReconciliationStep ==
  ASSUME IInv, QueueReconciliation
  PROVE  IInv'
  BY AppendIsQuietOrNew, QuietIfUnchanged DEF QueueReconciliation

-----------------------------------------------------------------------------
(* The end of the application.                                              *)

(* A step that changes the ledger alone.                                    *)
LEMMA LedgerStep ==
  ASSUME IInv, UNCHANGED <<rec, cfg, env, ev, wk, remote, air, sent, del, count>>,
         led' \in Ledgers, LedgerSeesSent', AttestedIsResolved'
  PROVE  IInv'
<1>1. TypeOK' /\ Counted'
  BY Unpacked, TypesAre DEF WorldOK, TablesOK
<1>2. Creates' = Creates
  BY DEF Creates, Events
<1> QED
  BY <1>1, <1>2 DEF IInv, HandledIsAppended, Events, OneDigest, CarriedIsStored, SentIsStored, SentIsMarked,
                    RemoteIsSent, At, SubmittedIsReal

(* What has left is found by the termination: as known, or as unresolved.   *)
LEMMA TerminateStep ==
  ASSUME IInv, Terminate
  PROVE  IInv'
<1>1. /\ ~led.stop /\ UNCHANGED <<rec, cfg, env, ev, wk, remote, air, sent, del, count>>
      /\ led' = [led EXCEPT !.stop = TRUE,
                   !.ref = IF Known THEN "needs_action" ELSE "none",
                   !.noref = IF Unresolved = {} THEN "none"
                             ELSE IF \E e \in Unresolved : ev[e].sub # "attempted" THEN "unknown" ELSE "in_flight"]
  BY DEF Terminate
<1>2. led \in Ledgers /\ led.attested = {}
  BY <1>1, Unpacked DEF TablesOK, IInv, AttestedIsResolved
<1>3. sent # {} => Known \/ Unresolved # {}
  <2> SUFFICES ASSUME sent # {}, ~Known PROVE Unresolved # {}
    OBVIOUS
  <2>1. PICK e \in Creates : ev[e].sub \in {"attempted", "unknown"}
    BY DEF IInv, SentIsMarked
  <2>2. ~ev[e].code
    BY DEF Known
  <2> QED
    BY <2>1, <2>2 DEF Unresolved
<1>4. led' \in Ledgers /\ led'.attested = {} /\ LedgerSeesSent'
  BY <1>1, <1>2, <1>3 DEF Ledgers, LedgerSeesSent
<1> QED
  BY <1>1, <1>4, LedgerStep DEF AttestedIsResolved

LEMMA ConfirmExternalStep ==
  ASSUME IInv, ConfirmExternal
  PROVE  IInv'
<1>1. /\ led.stop /\ UNCHANGED <<rec, cfg, env, ev, wk, remote, air, sent, del, count>>
      /\ led' = [led EXCEPT !.ref = "resolved",
                   !.attested = @ \cup {"ref"} \cup IF led.noref = "none" THEN {} ELSE {"noref"}]
  BY DEF ConfirmExternal
<1>2. led \in Ledgers
  BY Unpacked DEF TablesOK
<1>3. led' \in Ledgers /\ led'.stop /\ led'.ref = "resolved"
  BY <1>1, <1>2 DEF Ledgers
<1> QED
  BY <1>1, <1>3, LedgerStep DEF AttestedIsResolved, LedgerSeesSent

-----------------------------------------------------------------------------
(* The request.                                                             *)

(* A handler stores the request it is about to make: the one that every     *)
(* submission of the generation has stored, if any has.                     *)
LEMMA PrepareStep ==
  ASSUME IInv, NEW w \in Workers, Prepare(w)
  PROVE  IInv'
<1> DEFINE e == wk[w].e
           d == [wk[w].read.digest EXCEPT !.who = env.who]
           mark == IF Attempted(e) THEN "attempted" ELSE "prepared"
           row == [ev[e] EXCEPT !.digest = d, !.app = env.app, !.sub = mark]
           h == [wk[w] EXCEPT !.pc = "commit", !.read = [wk[w].read EXCEPT !.digest = d]]
<1>1. wk[w].pc = "prepare" /\ UNCHANGED <<cfg, env, remote, air, sent, del, count>>
  BY DEF Prepare, At
<1>2. CASE Fails(w, FALSE, "other") \/ Fails(w, FALSE, "reconcile")
  BY <1>1, <1>2, FailsIsQuiet, QuietStep, QuietIfUnchanged, Unpacked
<1>3. CASE /\ env.who # 0 /\ SameAsBefore(w, d)
           /\ ev' = [ev EXCEPT ![e].digest = d, ![e].app = env.app,
                               ![e].sub = IF Attempted(e) THEN "attempted" ELSE "prepared"]
           /\ wk' = [wk EXCEPT ![w].pc = "commit", ![w].read.digest = d]
           /\ UNCHANGED <<rec, led>>
  <2>1. /\ e \in Events /\ ev[e].topic = "create" /\ wk[w] \in Handlers /\ ev \in [Events -> EventRows]
        /\ wk \in [Workers -> Handlers] /\ env.who \in 0..MaxChanges + 1 /\ env.app \in 0..MaxChanges + 1
    BY <1>1, Handled, Unpacked DEF TablesOK, WorldOK
  <2>2. wk[w].read \in Readings /\ wk[w].read.digest \in Digests
    BY <1>1, <2>1 DEF Handlers, Readings, IInv, CarriedIsStored
  <2>3. d \in Digests /\ d # Nothing
    BY <1>3, <2>1, <2>2, NothingIsNoDigest, ConstantsAssumption DEF Digests
  <2>5. ev' = [ev EXCEPT ![e] = row]
    BY <1>3, <2>1
  <2>17. mark \in {"attempted", "prepared"} /\ ev[e] \in EventRows
    BY <2>1
  <2> HIDE DEF d, mark
  <2>4. row \in EventRows /\ row.digest = d /\ row.topic = "create" /\ row.sub = mark
    BY <2>1, <2>3, <2>17 DEF EventRows
  <2>6. h \in Handlers /\ h.e = e /\ h.pc = "commit" /\ h.read.digest = d
    BY <2>1, <2>2, <2>3 DEF Handlers, Readings, Places
  <2>7. wk' = [wk EXCEPT ![w] = h]
    BY <1>3, <2>1
  <2> HIDE DEF row, h
  <2>8. /\ ev' \in [Events -> EventRows] /\ ev'[e] = row /\ \A f \in Events \ {e} : ev'[f] = ev[f]
        /\ wk' \in [Workers -> Handlers] /\ wk'[w] = h /\ \A v \in Workers \ {w} : wk'[v] = wk[v]
    BY <2>1, <2>4, <2>5, <2>6, <2>7
  <2>9. Creates' = Creates /\ e \in Creates
    BY <2>1, <2>4, <2>8 DEF Creates, Events
  <2>10. \A f \in Creates : ev[f].digest \in {Nothing, d} /\ ev'[f].digest \in {Nothing, d}
    BY <1>3, <2>4, <2>8 DEF SameAsBefore, Creates
  <2>11. TypeOK' /\ Counted'
    BY <1>1, <1>3, <2>8, Unpacked, TypesAre DEF WorldOK, TablesOK
  <2>12. HandledIsAppended'
    <3>1. \A f \in Events : ev'[f].topic = ev[f].topic /\ (ev[f].topic = "none" => ev'[f] = ev[f])
      BY <2>1, <2>4, <2>8
    <3>2. \A f \in Events : ev'[f].topic = "none" => ev'[f] = NoEvent
      BY <3>1 DEF IInv, HandledIsAppended
    <3>3. \A v \in Workers : wk'[v].pc # "idle" =>
            /\ wk'[v].e \in Events /\ ev'[wk'[v].e].topic # "none"
            /\ wk'[v].pc \notin {"route", "reconcile", "found"} => ev'[wk'[v].e].topic = "create"
      BY <2>1, <2>6, <2>8, <3>1 DEF IInv, HandledIsAppended
    <3> QED
      BY <3>2, <3>3 DEF HandledIsAppended, Events
  <2>13. OneDigest'
    BY <2>9, <2>10 DEF OneDigest
  <2>14. CarriedIsStored'
    <3>1. ASSUME NEW v \in Workers \ {w}, wk[v].pc \in {"commit", "call"}
          PROVE  ev'[wk[v].e].digest = ev[wk[v].e].digest
      <4>1. wk[v].e \in Creates /\ ev[wk[v].e].digest # Nothing
        BY <3>1, Handled DEF IInv, CarriedIsStored, Creates
      <4> QED
        BY <2>4, <2>8, <2>10, <4>1 DEF Creates
    <3> QED
      BY <2>3, <2>4, <2>6, <2>8, <3>1 DEF IInv, CarriedIsStored
  <2>15. SentIsStored' /\ SentIsMarked'
    <3>1. \A f \in Creates : ev[f].digest # Nothing => ev'[f].digest = ev[f].digest
      BY <2>4, <2>8, <2>10 DEF Creates
    <3>2. sent # {} => ev'[e].sub = "attempted"
      BY <2>4, <2>8, SentIsAttempted DEF mark
    <3> QED
      BY <1>1, <2>9, <3>1, <3>2 DEF IInv, SentIsStored, SentIsMarked
  <2>16. RemoteIsSent' /\ SubmittedIsReal' /\ LedgerSeesSent' /\ AttestedIsResolved'
    BY <1>1, <1>3, <2>6, <2>8 DEF IInv, RemoteIsSent, At, SubmittedIsReal, LedgerSeesSent, AttestedIsResolved
  <2> QED
    BY <2>11, <2>12, <2>13, <2>14, <2>15, <2>16 DEF IInv
<1> QED
  BY <1>2, <1>3 DEF Prepare

(* The attempt is committed on every prepared event before the request      *)
(* leaves.                                                                  *)
LEMMA CommitAttemptStep ==
  ASSUME IInv, NEW w \in Workers, CommitAttempt(w)
  PROVE  IInv'
<1> DEFINE e == wk[w].e
           d == wk[w].read.digest
           h == [wk[w] EXCEPT !.pc = "call"]
<1>1. wk[w].pc = "commit" /\ UNCHANGED <<cfg, env, remote, air, del, count>>
  BY DEF CommitAttempt, At
<1>2. CASE sent' = sent /\ (Fails(w, FALSE, "other") \/ Fails(w, FALSE, "reconcile"))
  BY <1>1, <1>2, FailsIsQuiet, QuietStep, QuietIfUnchanged, Unpacked
<1>3. CASE MayGo(w) /\ ev' = AllAttempted(ev) /\ Go(w, "call") /\ sent' = sent \cup {d} /\ UNCHANGED <<rec, led>>
  <2>1. /\ e \in Events /\ ev[e].topic = "create" /\ wk[w] \in Handlers /\ ev \in [Events -> EventRows]
        /\ wk \in [Workers -> Handlers]
    BY <1>1, Handled, Unpacked DEF TablesOK
  <2>2. d = ev[e].digest /\ d # Nothing /\ d \in Digests
    BY <1>1, <2>1 DEF IInv, CarriedIsStored, EventRows
  <2>3. h \in Handlers /\ h.pc = "call" /\ h.e = e /\ h.read.digest = d
    BY <2>1 DEF Handlers, Places
  <2>4. wk' = [wk EXCEPT ![w] = h]
    BY <1>3 DEF Go
  <2> HIDE DEF h, d
  <2>5. wk' \in [Workers -> Handlers] /\ wk'[w] = h /\ \A v \in Workers \ {w} : wk'[v] = wk[v]
    BY <2>1, <2>3, <2>4
  <2>6. ASSUME NEW f \in Events
        PROVE  /\ ev'[f] \in EventRows /\ ev'[f].topic = ev[f].topic /\ ev'[f].digest = ev[f].digest
               /\ ev'[f].sub \in {ev[f].sub, "attempted"}
               /\ ev[f].topic = "none" => ev'[f] = ev[f]
               /\ ev[f].topic = "create" /\ ev[f].digest # Nothing => ev'[f].sub = "attempted"
    <3>1. ev[f] \in EventRows
      BY <2>1
    <3>2. [ev[f] EXCEPT !.sub = "attempted"] \in EventRows
          /\ [ev[f] EXCEPT !.sub = "attempted"].topic = ev[f].topic
          /\ [ev[f] EXCEPT !.sub = "attempted"].digest = ev[f].digest
          /\ [ev[f] EXCEPT !.sub = "attempted"].sub = "attempted"
      BY <3>1 DEF EventRows
    <3>3. ev'[f] = IF ev[f].topic = "create" /\ ev[f].digest # Nothing THEN [ev[f] EXCEPT !.sub = "attempted"] ELSE ev[f]
      BY <1>3 DEF AllAttempted
    <3> QED
      BY <3>1, <3>2, <3>3
  <2>7. ev' \in [Events -> EventRows]
    BY <1>3, <2>6 DEF AllAttempted
  <2>8. Creates' = Creates /\ e \in Creates
    BY <2>1, <2>6 DEF Creates, Events
  <2>9. TypeOK' /\ Counted'
    BY <1>1, <1>3, <2>2, <2>5, <2>7, Unpacked, TypesAre DEF WorldOK, TablesOK
  <2>10. HandledIsAppended'
    <3>1. \A f \in Events : ev'[f].topic = "none" => ev'[f] = NoEvent
      BY <2>6 DEF IInv, HandledIsAppended
    <3>2. \A v \in Workers : wk'[v].pc # "idle" =>
            /\ wk'[v].e \in Events /\ ev'[wk'[v].e].topic # "none"
            /\ wk'[v].pc \notin {"route", "reconcile", "found"} => ev'[wk'[v].e].topic = "create"
      BY <2>1, <2>3, <2>5, <2>6 DEF IInv, HandledIsAppended
    <3> QED
      BY <3>1, <3>2 DEF HandledIsAppended, Events
  <2>11. OneDigest'
    BY <2>6, <2>8 DEF IInv, OneDigest, Creates
  <2>12. CarriedIsStored'
    BY <2>1, <2>2, <2>3, <2>5, <2>6, Handled DEF IInv, CarriedIsStored
  <2>13. SentIsStored'
    BY <1>3, <2>2, <2>6, <2>8 DEF IInv, SentIsStored, Creates
  <2>14. SentIsMarked'
    BY <2>1, <2>2, <2>6, <2>8 DEF SentIsMarked
  <2>15. RemoteIsSent' /\ SubmittedIsReal'
    BY <1>1, <1>3, <2>3, <2>5 DEF IInv, RemoteIsSent, At, SubmittedIsReal
  <2>16. LedgerSeesSent' /\ AttestedIsResolved'
    BY <1>3 DEF IInv, LedgerSeesSent, AttestedIsResolved, MayGo
  <2> QED
    BY <2>9, <2>10, <2>11, <2>12, <2>13, <2>14, <2>15, <2>16 DEF IInv
<1> QED
  BY <1>2, <1>3 DEF CommitAttempt

(* Feishu makes an instance, or answers that it has one, or nothing.        *)
LEMMA CallStep ==
  ASSUME IInv, NEW w \in Workers, Call(w)
  PROVE  IInv'
<1>1. wk[w].pc = "call" /\ UNCHANGED <<rec, cfg, env, ev, air, sent, led, del, count>>
  BY DEF Call, At
<1>2. wk[w].read.digest \in sent /\ wk[w].read.digest # Nothing /\ ev[wk[w].e].topic = "create"
  BY <1>1, Handled DEF IInv, RemoteIsSent, At, CarriedIsStored
<1>3. RemoteQuiet
  <2>1. remote' = remote \/ (remote = Nothing /\ remote' = wk[w].read.digest)
    BY DEF Call
  <2>2. wk[w].read.digest \in Digests
    BY <1>2, Unpacked DEF TablesOK
  <2> QED
    BY <1>2, <2>1, <2>2, QuietIfUnchanged DEF RemoteQuiet
<1>4. HandlersQuiet
  <2>1. \E pc \in {"store", "lost", "duplicate", "refused"} : Go(w, pc) /\ (pc = "store" => remote' # Nothing)
    BY <1>2 DEF Call
  <2> QED
    BY <1>1, <1>2, <2>1, GoIsQuiet DEF Places
<1> QED
  BY <1>1, <1>3, <1>4, QuietStep, QuietIfUnchanged, Unpacked

(* A request whose sender is gone arrives.                                  *)
LEMMA LandStep ==
  ASSUME IInv, NEW d \in air, Land(d)
  PROVE  IInv'
<1>1. /\ air' = air \ {d} /\ remote' = IF remote = Nothing THEN d ELSE remote
      /\ UNCHANGED <<rec, cfg, env, ev, wk, sent, led, del, count>>
  BY DEF Land
<1>2. RemoteQuiet
  BY <1>1, Unpacked DEF RemoteQuiet, IInv, RemoteIsSent, TablesOK
<1> QED
  BY <1>1, <1>2, QuietStep, QuietIfUnchanged, Unpacked

-----------------------------------------------------------------------------
(* The inductive invariant holds at first, and every step keeps it.         *)
LEMMA Initially == Init => IInv
<1> SUFFICES ASSUME Init PROVE IInv
  OBVIOUS
<1> USE ConstantsAssumption DEF Init
<1>1. /\ 0 \in 0..MaxEvents /\ 0 \in 0..MaxAttempts /\ 0 \in 0..MaxChanges + 1 /\ 1 \in 0..MaxChanges + 1
      /\ 1 \in 1..MaxChanges + 1 /\ 0 \in 0..MaxLapses /\ 0 \in 0..MaxChanges
  OBVIOUS
<1>2. NoEvent \in EventRows /\ Idle \in Handlers
  BY <1>1, IdleIsHandsFree DEF NoEvent, EventRows
<1>3. TypeOK /\ Counted
  <2>1. WorldOK
    <3>1. cfg \in [ver : 1..MaxChanges + 1, body : 1..MaxChanges + 1, fp : 0..MaxChanges + 1, on : BOOLEAN]
      BY <1>1
    <3>2. env \in [who : 0..MaxChanges + 1, app : 1..MaxChanges + 1, def : 1..MaxChanges + 1]
      BY <1>1
    <3>3. count \in [lapse : 0..MaxLapses, crash : 0..MaxLapses, change : 0..MaxChanges]
      BY <1>1
    <3>4. cfg.ver <= count.change + 1 /\ cfg.body <= count.change + 1 /\ env.def <= count.change + 1
      OBVIOUS
    <3> QED
      BY <3>1, <3>2, <3>3, <3>4 DEF WorldOK
  <2>2. rec \in Records /\ led \in Ledgers
    BY DEF Records, Ledgers
  <2>3. ev \in [Events -> EventRows] /\ wk \in [Workers -> Handlers]
    BY <1>2
  <2>4. remote \in Digests \cup {Nothing} /\ air \subseteq Digests /\ sent \subseteq Digests
    OBVIOUS
  <2> QED
    BY <2>1, <2>2, <2>3, <2>4, TypesAre DEF TablesOK
<1>4. Creates = {} /\ \A e \in Events : ev[e] = NoEvent
  BY DEF Creates, NoEvent
<1>5. \A w \in Workers : wk[w] = Idle /\ wk[w].pc = "idle"
  BY DEF Idle
<1>6. HandledIsAppended /\ OneDigest /\ CarriedIsStored /\ RemoteIsSent
  BY <1>4, <1>5 DEF HandledIsAppended, OneDigest, CarriedIsStored, RemoteIsSent, At
<1>7. SentIsStored /\ SentIsMarked /\ SubmittedIsReal /\ LedgerSeesSent /\ AttestedIsResolved
  BY DEF SentIsStored, SentIsMarked, SubmittedIsReal, LedgerSeesSent, AttestedIsResolved
<1> QED
  BY <1>3, <1>6, <1>7 DEF IInv

LEMMA Inductive ==
  ASSUME IInv, [Next]_vars
  PROVE  IInv'
<1>1. CASE UNCHANGED vars
  BY <1>1, QuietStep, QuietIfUnchanged, Unpacked DEF vars
<1>2. ASSUME NEW w \in Workers, NEW e \in Events, Claim(w, e) PROVE IInv'
  BY <1>2, ClaimStep
<1>3. ASSUME NEW w \in Workers,
             \/ Crash(w) \/ Route(w) \/ Preflight(w) \/ ReadDefinition(w) \/ Prepare(w) \/ CommitAttempt(w)
             \/ Call(w) \/ CallFailed(w) \/ AfterFailure(w) \/ Lookup(w) \/ Store(w) \/ Reconcile(w) \/ Found(w)
      PROVE  IInv'
  BY <1>3, CrashStep, RouteStep, PreflightStep, ReadDefinitionStep, PrepareStep, CommitAttemptStep, CallStep,
     CallFailedStep, AfterFailureStep, LookupStep, StoreStep, ReconcileStep, FoundStep
<1> QED
  BY <1>1, <1>2, <1>3, SettingsStep, RecordStep, SubmitStep, TerminateStep, QueueReconciliationStep,
     ConfirmExternalStep, ReapStep, LandStep DEF Next

(* The invariant behind the others: the submissions of a generation agree   *)
(* on one request, which is stored and marked before it leaves.             *)
THEOREM OnboardingInvariant == Spec => []IInv
<1>1. Init => IInv
  BY Initially
<1>2. IInv /\ [Next]_vars => IInv'
  BY Inductive
<1> QED
  BY <1>1, <1>2, PTL DEF Spec

(* However many workers, events, lapses and changes of the settings there   *)
(* are, one request leaves for a generation, and a submitted record has the *)
(* approval made from it (_prepare_request, _create_instance).              *)
THEOREM RequestCorrect == Spec => []OneRealRequest
<1>1. IInv => OneRealRequest
  <2> SUFFICES ASSUME IInv PROVE Cardinality(sent) <= 1
    BY DEF IInv, OneRealRequest, OneRequest
  <2>1. \A c, d \in sent : c = d
    BY DEF IInv, SentIsStored, OneDigest
  <2>2. CASE sent = {}
    <3>1. Cardinality(sent) = 0
      BY <2>2, FS_EmptySet
    <3> QED
      BY <3>1
  <2>3. ASSUME NEW d, sent = {d} PROVE Cardinality(sent) <= 1
    <3>1. Cardinality(sent) = 1
      BY <2>3, FS_Singleton
    <3> QED
      BY <3>1
  <2>4. sent = {} \/ \E d : sent = {d}
    <3>1. ASSUME NEW d \in sent PROVE sent = {d}
      BY <2>1
    <3> QED
      BY <3>1
  <2> QED
    BY <2>2, <2>3, <2>4
<1> QED
  BY <1>1, OnboardingInvariant, PTL

(* The ledger of a stopped application knows every approval that exists or  *)
(* may yet exist at Feishu (terminate_application, _apply_fact).            *)
THEOREM LedgerCorrect == Spec => []LedgerKnows
<1>1. IInv => LedgerKnows
  BY DEF IInv, LedgerKnows, LedgerSeesSent, RemoteIsSent, At
<1> QED
  BY <1>1, OnboardingInvariant, PTL

-----------------------------------------------------------------------------
(* What a stop leaves as it is.                                             *)
Frozen == /\ led'.stop /\ rec'.st = rec.st /\ sent' = sent
          /\ "ref" \in led.attested => led'.ref = "resolved"

LEMMA FrozenIfQuiet ==
  ASSUME IInv, led.stop, LedgerQuiet, rec'.st = rec.st, sent' = sent
  PROVE  Frozen
  BY DEF IInv, AttestedIsResolved, LedgerQuiet, Frozen

LEMMA FrozenIfUnchanged ==
  ASSUME IInv, led.stop, UNCHANGED <<rec, led, sent>>
  PROVE  Frozen
  BY DEF IInv, AttestedIsResolved, Frozen

(* An error of a handler is only reported on.                               *)
LEMMA FailsFrozen ==
  ASSUME IInv, led.stop, NEW w \in Workers, NEW transient, NEW code, Fails(w, transient, code), sent' = sent
  PROVE  Frozen
<1>1. led' = FactNow /\ rec' = rec
  BY DEF Fails
<1> QED
  BY <1>1, FactNowIsQuiet, FrozenIfQuiet

(* The steps of a handler, one by one.                                      *)
LEMMA HandlerFrozen ==
  ASSUME IInv, led.stop, NEW w \in Workers,
         \/ Crash(w) \/ Route(w) \/ Preflight(w) \/ ReadDefinition(w) \/ Prepare(w) \/ CommitAttempt(w)
         \/ Call(w) \/ CallFailed(w) \/ AfterFailure(w) \/ Lookup(w) \/ Store(w) \/ Reconcile(w) \/ Found(w)
  PROVE  Frozen
<1>1. CASE Crash(w) \/ Call(w)
  BY <1>1, FrozenIfUnchanged DEF Crash, Call
<1>2. CASE Route(w)
  BY <1>2, FactNowIsQuiet, FrozenIfQuiet, FrozenIfUnchanged DEF Route
<1>3. CASE Preflight(w)
  <2>1. led' = FactNow /\ UNCHANGED <<rec, sent>>
    BY <1>3 DEF Preflight
  <2> QED
    BY <2>1, FactNowIsQuiet, FrozenIfQuiet
<1>4. CASE ReadDefinition(w)
  BY <1>4, FailsFrozen, FrozenIfUnchanged DEF ReadDefinition
<1>5. CASE Prepare(w)
  BY <1>5, FailsFrozen DEF Prepare, MayGo
<1>6. CASE CommitAttempt(w)
  BY <1>6, FailsFrozen DEF CommitAttempt, MayGo
<1>7. CASE CallFailed(w)
  <2>1. led' = Fact(IF Known THEN "ref" ELSE "noref", "unknown") /\ UNCHANGED <<rec, sent>>
    BY <1>7 DEF CallFailed
  <2>2. LedgerQuiet
    BY <2>1, FactIsQuiet
  <2> QED
    BY <2>1, <2>2, FrozenIfQuiet
<1>8. CASE AfterFailure(w)
  BY <1>8, FailsFrozen DEF AfterFailure
<1>9. CASE Lookup(w)
  BY <1>9, FailsFrozen, FrozenIfUnchanged DEF Lookup
<1>10. CASE Store(w) \/ Found(w)
  <2>1. led' = Fact("ref", "needs_action") /\ sent' = sent
    BY <1>10 DEF Store, Found
  <2>2. rec' = [rec EXCEPT !.code = TRUE] \/ rec' = [rec EXCEPT !.code = TRUE, !.err = "none"]
    BY <1>10 DEF Store, Found
  <2>3. rec'.st = rec.st
    BY <2>2, Unpacked DEF TablesOK, Records
  <2> QED
    BY <2>1, <2>3, FactIsQuiet, FrozenIfQuiet
<1>11. CASE Reconcile(w)
  <2>1. led' \in {FactNow, Fact("ref", "needs_action"), led} /\ UNCHANGED <<rec, sent>>
    BY <1>11 DEF Reconcile
  <2>2. LedgerQuiet
    BY <2>1, FactNowIsQuiet, FactIsQuiet, QuietIfUnchanged
  <2> QED
    BY <2>1, <2>2, FrozenIfQuiet
<1> QED
  BY <1>1, <1>2, <1>3, <1>4, <1>5, <1>6, <1>7, <1>8, <1>9, <1>10, <1>11

LEMMA StepFrozen ==
  ASSUME IInv, led.stop, [Next]_vars
  PROVE  Frozen
<1>1. CASE UNCHANGED vars
  BY <1>1, FrozenIfUnchanged DEF vars
<1>2. ASSUME \/ \E new \in BOOLEAN, on \in BOOLEAN : PutConfig(new, on)
             \/ \E def \in 0..MaxChanges + 1 : ValidateConfig(def)
             \/ ChangeWorld \/ RequestDeletion \/ RejectDeletion \/ QueueReconciliation
             \/ \E e \in Events : Reap(e)
             \/ \E d \in air : Land(d)
             \/ \E w \in Workers, e \in Events : Claim(w, e)
      PROVE  Frozen
  BY <1>2, FrozenIfUnchanged DEF PutConfig, ValidateConfig, ChangeWorld, RequestDeletion, RejectDeletion,
     QueueReconciliation, Reap, Land, Claim
<1>3. ASSUME CreateRecord \/ UpdateRecord \/ Submit \/ Terminate PROVE FALSE
  BY <1>3 DEF CreateRecord, UpdateRecord, Submit, Terminate
<1>4. CASE ConfirmExternal
  <2>1. led' = [led EXCEPT !.ref = "resolved",
                  !.attested = @ \cup {"ref"} \cup IF led.noref = "none" THEN {} ELSE {"noref"}]
    BY <1>4 DEF ConfirmExternal
  <2>2. led'.stop /\ led'.ref = "resolved"
    BY <2>1, Unpacked DEF TablesOK, Ledgers
  <2> QED
    BY <1>4, <2>2 DEF ConfirmExternal, Frozen
<1> QED
  BY <1>1, <1>2, <1>3, <1>4, HandlerFrozen DEF Next

(* Once the application is stopped nothing restarts the onboarding, sends a *)
(* request for it or takes back what HR has attested, however late a        *)
(* handler comes back (_create_instance, _apply_fact).                    *)
THEOREM StopCorrect == Spec => StopIsFinal
<1>1. IInv /\ [Next]_vars =>
        [led.stop => /\ led'.stop /\ rec'.st = rec.st /\ sent' = sent
                     /\ ("ref" \in led.attested => led'.ref = "resolved")]_vars
  BY StepFrozen DEF Frozen
<1> QED
  BY <1>1, OnboardingInvariant, PTL DEF Spec, StopIsFinal
=============================================================================
