----------------------------- MODULE Onboarding -----------------------------
(***************************************************************************)
(* The onboarding record of one accepted offer and its Feishu approval     *)
(* (server/app/onboarding, integrations/feishu/worker.py, and the part of  *)
(* recruiting/termination.py that remembers what may exist at Feishu).     *)
(*                                                                         *)
(* A submission appends an outbox event; the delivery handler prepares the *)
(* request in several transactions, each under the candidate's row lock    *)
(* and so one step, commits the attempt, and only then calls Feishu.  A    *)
(* lease may lapse at any time: the event goes to another worker while the *)
(* old handler lives on.  A record has one generation all its life, and    *)
(* Feishu makes one instance per generation.                               *)
(***************************************************************************)
EXTENDS Integers, FiniteSets

CONSTANTS
  Workers,     \* worker processes
  MaxEvents,   \* bound on the outbox events of the record
  MaxAttempts, \* max_attempts of an event
  MaxLapses,   \* bound on the leases that lapse, and on the processes that die
  MaxChanges   \* bound on the changes of configuration, bindings and definition

ASSUME ConstantsAssumption ==
  /\ IsFiniteSet(Workers) /\ MaxEvents \in Nat \ {0} /\ MaxAttempts \in Nat \ {0}
  /\ MaxLapses \in Nat /\ MaxChanges \in Nat

VARIABLES
  rec,     \* onboarding_records: status, error code, instance code known, form
  cfg,     \* feishu_onboarding_configs: version, content, validated fingerprint, enabled
  env,     \* the initiator's binding, the Feishu app, the definition at Feishu
  ev,      \* outbox_events of the record
  wk,      \* the handler in each worker: its event, attempt, place and what it has read
  remote,  \* the approval instance at Feishu: the request it was made from
  air,     \* create requests of handlers that died waiting
  sent,    \* every create request that has left
  led,     \* application_terminations: stopped, the onboarding facts, what was attested
  del,     \* a deletion request of the candidate is pending
  count    \* bounds: lapses, crashes, changes

vars == <<rec, cfg, env, ev, wk, remote, air, sent, led, del, count>>

Events == 1..MaxEvents
Nothing == [cfg |-> 0, who |-> 0, form |-> 0]
Digests == [cfg : 1..MaxChanges + 1, who : 1..MaxChanges + 1, form : 1..2]
NoEvent == [topic |-> "none", st |-> "none", n |-> 0, owner |-> "none",
            sub |-> "none", digest |-> Nothing, app |-> 0, code |-> FALSE]
NoRead  == [ver |-> 0, digest |-> Nothing, fp |-> 0, app |-> 0]
Idle    == [e |-> 0, n |-> 0, pc |-> "idle", read |-> NoRead]

TypeOK ==
  /\ rec \in [st : {"none", "ready", "submitting", "submitted", "failed"},
              err : {"none", "other", "reconcile"}, code : BOOLEAN, form : 1..2]
  /\ cfg \in [ver : 1..MaxChanges + 1, body : 1..MaxChanges + 1, fp : 0..MaxChanges + 1, on : BOOLEAN]
  /\ env \in [who : 0..MaxChanges + 1, app : 1..MaxChanges + 1, def : 1..MaxChanges + 1]
  /\ ev \in [Events -> [topic : {"none", "create", "reconcile"}, n : 0..MaxAttempts,
        st : {"none", "queued", "running", "published", "failed", "abandoned"},
        owner : Workers \cup {"none"}, sub : {"none", "preflight", "prepared", "attempted", "unknown"},
        digest : Digests \cup {Nothing}, app : 0..MaxChanges + 1, code : BOOLEAN]]
  /\ \A w \in Workers : wk[w].e \in 0..MaxEvents /\ wk[w].n \in 0..MaxAttempts
  /\ remote \in Digests \cup {Nothing} /\ air \subseteq Digests /\ sent \subseteq Digests
  /\ led \in [stop : BOOLEAN, ref : {"none", "needs_action", "resolved"}, attested : SUBSET {"ref", "noref"},
              noref : {"none", "unknown", "in_flight", "resolved"}]
  /\ del \in BOOLEAN

Init ==
  /\ rec = [st |-> "none", err |-> "none", code |-> FALSE, form |-> 1]
  /\ cfg = [ver |-> 1, body |-> 1, fp |-> 1, on |-> TRUE]
  /\ env = [who |-> 1, app |-> 1, def |-> 1]
  /\ ev = [e \in Events |-> NoEvent]
  /\ wk = [w \in Workers |-> Idle]
  /\ remote = Nothing /\ air = {} /\ sent = {}
  /\ led = [stop |-> FALSE, ref |-> "none", noref |-> "none", attested |-> {}]
  /\ del = FALSE
  /\ count = [lapse |-> 0, crash |-> 0, change |-> 0]

-----------------------------------------------------------------------------
(* The settings and the world.                                              *)

Usable == cfg.fp # 0 /\ cfg.on
CanChange == count.change < MaxChanges
Changed == count' = [count EXCEPT !.change = @ + 1]

(* put_onboarding_config: new content has to be validated again; enabling   *)
(* needs unchanged, validated content.                                      *)
PutConfig(new, on) ==
  /\ CanChange /\ Changed
  /\ new => ~on
  /\ on => cfg.fp # 0
  /\ cfg' = [cfg EXCEPT !.ver = @ + 1, !.on = on, !.body = IF new THEN @ + 1 ELSE @, !.fp = IF new THEN 0 ELSE @]
  /\ UNCHANGED <<rec, env, ev, wk, remote, air, sent, led, del>>

(* validate_onboarding_config: the definition is read at Feishu between two *)
(* transactions, so what is stored may be any definition there has been.    *)
ValidateConfig(def) ==
  /\ CanChange /\ Changed
  /\ def \in 0..env.def
  /\ cfg' = [cfg EXCEPT !.ver = @ + 1, !.fp = def, !.on = @ /\ def # 0]
  /\ UNCHANGED <<rec, env, ev, wk, remote, air, sent, led, del>>

(* A member binds or unbinds Feishu, the app or the definition changes.     *)
ChangeWorld ==
  /\ CanChange /\ Changed
  /\ env' \in {[env EXCEPT !.who = 0], [env EXCEPT !.who = count.change + 2],
               [env EXCEPT !.app = count.change + 2], [env EXCEPT !.def = @ + 1]}
  /\ UNCHANGED <<rec, cfg, ev, wk, remote, air, sent, led, del>>

RequestDeletion == del' = TRUE /\ ~del /\ UNCHANGED <<rec, cfg, env, ev, wk, remote, air, sent, led, count>>
RejectDeletion  == del' = FALSE /\ del /\ UNCHANGED <<rec, cfg, env, ev, wk, remote, air, sent, led, count>>

-----------------------------------------------------------------------------
(* HR: create, update, submit, terminate, reconcile, attest.                *)

CreateRecord ==
  /\ rec.st = "none" /\ ~led.stop /\ ~del
  /\ rec' = [rec EXCEPT !.st = "ready"]
  /\ UNCHANGED <<cfg, env, ev, wk, remote, air, sent, led, del, count>>

UpdateRecord ==
  /\ rec.st = "ready" /\ ~led.stop /\ ~del
  /\ rec' = [rec EXCEPT !.form = 3 - @]
  /\ UNCHANGED <<cfg, env, ev, wk, remote, air, sent, led, del, count>>

Append(topic) ==
  \E e \in Events : /\ ev[e].topic = "none" /\ \A d \in 1..e - 1 : ev[d].topic # "none"
                    /\ ev' = [ev EXCEPT ![e] = [NoEvent EXCEPT !.topic = topic, !.st = "queued"]]

(* start_onboarding_submission: a failed record keeps its generation.       *)
Submit ==
  /\ rec.st \in {"ready", "failed"} /\ ~led.stop /\ ~del /\ Usable
  /\ rec' = [rec EXCEPT !.st = "submitting", !.err = "none"]
  /\ Append("create")
  /\ UNCHANGED <<cfg, env, wk, remote, air, sent, led, del, count>>

Creates == {e \in Events : ev[e].topic = "create"}
Known   == rec.code \/ \E e \in Creates : ev[e].code

(* _attempted, as handler of event own sees it (0: as somebody else does).  *)
Attempted(own) ==
  \E e \in Creates :
    \/ ev[e].sub \in {"attempted", "unknown"}
    \/ ev[e].digest # Nothing /\ ev[e].sub # "prepared"
    \/ ev[e].sub = "none" /\ ev[e].n > IF e = own THEN 1 ELSE 0

(* _onboarding_external_facts, when the application is stopped.             *)
Unresolved == {e \in Creates : /\ ~ev[e].code /\ ev[e].sub \notin {"preflight", "prepared"}
                               /\ ev[e].sub # "none" \/ ev[e].digest # Nothing \/ ev[e].n > 0}
Terminate ==
  /\ ~led.stop
  /\ led' = [led EXCEPT !.stop = TRUE,
                        !.ref = IF Known THEN "needs_action" ELSE "none",
                        !.noref = IF Unresolved = {} THEN "none"
                                  ELSE IF \E e \in Unresolved : ev[e].sub # "attempted" THEN "unknown"
                                  ELSE "in_flight"]
  /\ UNCHANGED <<rec, cfg, env, ev, wk, remote, air, sent, del, count>>

(* _apply_fact on the ledger of a stopped application: an item that names   *)
(* the instance replaces the one that could not, a known item is not made   *)
(* uncertain again, an attested one is not reopened.                        *)
Fact(id, state) ==
  IF ~led.stop \/ (state # "resolved" /\ id \in led.attested) THEN led
  ELSE IF id = "ref"
       THEN IF state \in {"unknown", "in_flight"} THEN led
            ELSE [led EXCEPT !.ref = state,
                             !.noref = IF led.ref = "none" /\ @ \in {"unknown", "in_flight"} THEN "none" ELSE @]
  ELSE IF led.noref = "resolved" /\ state \in {"unknown", "in_flight"} THEN led
  ELSE [led EXCEPT !.noref = state]

(* _termination_fact without a state: what the rows say now.                *)
FactNow == IF Known THEN Fact("ref", "needs_action")
           ELSE IF Creates = {} \/ Attempted(0) THEN Fact("noref", "unknown") ELSE Fact("noref", "resolved")

QueueReconciliation ==
  /\ led.stop /\ led.noref \in {"unknown", "in_flight"} /\ Creates # {}
  /\ Append("reconcile")
  /\ UNCHANGED <<rec, cfg, env, wk, remote, air, sent, led, del, count>>

ConfirmExternal ==
  /\ led.stop /\ led.noref \notin {"unknown", "in_flight"} /\ led.ref = "needs_action"
  /\ led' = [led EXCEPT !.ref = "resolved",
                        !.attested = @ \cup {"ref"} \cup IF led.noref = "none" THEN {} ELSE {"noref"}]
  /\ UNCHANGED <<rec, cfg, env, ev, wk, remote, air, sent, del, count>>

-----------------------------------------------------------------------------
(* The outbox.                                                              *)

At(w, pc) == wk[w].pc = pc
Go(w, pc) == wk' = [wk EXCEPT ![w].pc = pc]

(* claim_outbox: queued, or running under a lease that has lapsed.          *)
Claim(w, e) ==
  /\ At(w, "idle") /\ ev[e].n < MaxAttempts
  /\ \/ ev[e].st = "queued" /\ UNCHANGED count
     \/ /\ ev[e].st = "running" /\ count.lapse < MaxLapses
        /\ count' = [count EXCEPT !.lapse = @ + 1]
  /\ ev' = [ev EXCEPT ![e].st = "running", ![e].owner = w, ![e].n = @ + 1]
  /\ wk' = [wk EXCEPT ![w] = [Idle EXCEPT !.e = e, !.n = ev[e].n + 1, !.pc = "route"]]
  /\ UNCHANGED <<rec, cfg, env, remote, air, sent, led, del>>

Reap(e) ==
  /\ ev[e].st = "running" /\ ev[e].n = MaxAttempts /\ count.lapse < MaxLapses
  /\ ev' = [ev EXCEPT ![e].st = "abandoned", ![e].owner = "none"]
  /\ count' = [count EXCEPT !.lapse = @ + 1]
  /\ UNCHANGED <<rec, cfg, env, wk, remote, air, sent, led, del>>

(* The process dies; a request that has left may still arrive.              *)
Crash(w) ==
  /\ ~At(w, "idle") /\ count.crash < MaxLapses
  /\ count' = [count EXCEPT !.crash = @ + 1]
  /\ air' = IF At(w, "call") THEN air \cup {wk[w].read.digest} ELSE air
  /\ wk' = [wk EXCEPT ![w] = Idle]
  /\ UNCHANGED <<rec, cfg, env, ev, remote, sent, led, del>>

Land(d) ==
  /\ d \in air /\ air' = air \ {d}
  /\ remote' = IF remote = Nothing THEN d ELSE remote
  /\ UNCHANGED <<rec, cfg, env, ev, wk, sent, led, del, count>>

(* The handler ends; publish_outbox and fail_outbox refuse a lost lease.    *)
Settled(evs, w, out) ==
  LET e == wk[w].e
      end == IF out = "again" THEN IF evs[e].n < MaxAttempts THEN "queued" ELSE "failed" ELSE out
  IN IF evs[e].st = "running" /\ evs[e].owner = w
     THEN [evs EXCEPT ![e].st = end, ![e].owner = "none"] ELSE evs
Ends(evs, w, out) == ev' = Settled(evs, w, out) /\ wk' = [wk EXCEPT ![w] = Idle]

-----------------------------------------------------------------------------
(* FeishuOnboardingOutboxHandler.                                           *)

Route(w) ==
  /\ At(w, "route")
  /\ \/ ev[wk[w].e].topic = "reconcile" /\ Go(w, "reconcile") /\ UNCHANGED led
     \/ ev[wk[w].e].topic = "create" /\ led.stop /\ led' = FactNow /\ Go(w, "reconcile")
     \/ ev[wk[w].e].topic = "create" /\ ~led.stop /\ Go(w, "preflight") /\ UNCHANGED led
  /\ UNCHANGED <<rec, cfg, env, ev, remote, air, sent, del, count>>

(* The first transaction: a first attempt that has got here is marked.      *)
Preflight(w) ==
  LET e == wk[w].e
      fresh == ev[e].n <= 1 /\ ev[e].digest = Nothing /\ ev[e].sub \notin {"attempted", "unknown"}
      marked == [ev EXCEPT ![e].sub = IF fresh THEN "preflight" ELSE @]
      unbound == Usable /\ env.who = 0
  IN /\ At(w, "preflight")
     /\ \/ led.stop /\ led' = FactNow /\ Ends(marked, w, "published") /\ UNCHANGED rec
        \/ ~led.stop /\ rec.st = "submitted" /\ Ends(marked, w, "published") /\ UNCHANGED <<led, rec>>
        \/ ~led.stop /\ rec.st # "submitted" /\ del /\ Ends(ev, w, "failed") /\ UNCHANGED <<led, rec>>
        \/ /\ ~led.stop /\ rec.st # "submitted" /\ ~del /\ ~(Usable /\ env.who # 0)
           /\ rec' = [rec EXCEPT !.st = "failed", !.err = IF unbound /\ Attempted(e) THEN "reconcile" ELSE "other"]
           /\ Ends(marked, w, "failed") /\ UNCHANGED led
        \/ /\ ~led.stop /\ rec.st # "submitted" /\ ~del /\ Usable /\ env.who # 0
           /\ rec' = [rec EXCEPT !.st = "submitting", !.err = "none"] /\ ev' = marked
           /\ wk' = [wk EXCEPT ![w].pc = "read",
                ![w].read = [ver |-> cfg.ver, fp |-> cfg.fp, app |-> env.app,
                             digest |-> [cfg |-> cfg.body, who |-> env.who, form |-> rec.form]]]
           /\ UNCHANGED led
     /\ UNCHANGED <<cfg, env, remote, air, sent, del, count>>

(* An error after preflight: a stopped application is only reported on, a   *)
(* transient error is tried again while attempts are left, else _fail.      *)
Fails(w, transient, code) ==
  LET last == ~transient \/ wk[w].n >= MaxAttempts
  IN \/ led.stop /\ led' = FactNow /\ Ends(ev, w, "published") /\ UNCHANGED rec
     \/ ~led.stop /\ ~last /\ Ends(ev, w, "again") /\ UNCHANGED <<led, rec>>
     \/ /\ ~led.stop /\ last
        /\ rec' = IF rec.st = "submitted" \/ del THEN rec
                  ELSE [rec EXCEPT !.st = "failed", !.err = IF transient THEN "reconcile" ELSE code]
        /\ Ends(ev, w, "failed") /\ UNCHANGED led

ReadDefinition(w) ==
  /\ At(w, "read")
  /\ \/ env.def = wk[w].read.fp /\ Go(w, "prepare") /\ UNCHANGED <<rec, led, ev>>
     \/ env.def # wk[w].read.fp /\ Fails(w, FALSE, "other")
     \/ Fails(w, TRUE, "other")
  /\ UNCHANGED <<cfg, env, remote, air, sent, del, count>>

(* Nothing has changed since this handler's preflight that would forbid the *)
(* request.                                                                 *)
MayGo(w) == rec.st # "submitted" /\ ~led.stop /\ ~del /\ Usable /\ cfg.ver = wk[w].read.ver
(* Mutant: only the event's own earlier request is compared.                *)
SameAsOwn(w, d) == ev[wk[w].e].digest \in {Nothing, d}

(* No earlier request of the generation was a different one.                *)
SameAsBefore(w, d) ==
  \A e \in Creates :
    /\ ev[e].digest \in {Nothing, d}
    /\ ev[e].digest = Nothing /\ ev[e].sub # "preflight" => ev[e].n <= IF e = wk[w].e THEN 1 ELSE 0

SameApp == \A e \in Creates : ev[e].app \in {0, env.app}

(* _prepare_request stores the digest with the binding of now.              *)
Prepare(w) ==
  LET e == wk[w].e
      d == [wk[w].read.digest EXCEPT !.who = env.who]
  IN /\ At(w, "prepare")
     /\ \/ ~MayGo(w) /\ Fails(w, FALSE, "other")
        \/ MayGo(w) /\ env.who = 0 /\ Fails(w, FALSE, IF Attempted(e) THEN "reconcile" ELSE "other")
        \/ MayGo(w) /\ env.who # 0 /\ ~SameAsBefore(w, d) /\ Fails(w, FALSE, "reconcile")
        \/ MayGo(w) /\ env.who # 0 /\ SameAsBefore(w, d) /\ ~SameApp /\ Fails(w, FALSE, "other")
        \/ /\ MayGo(w) /\ env.who # 0 /\ SameAsBefore(w, d) /\ SameApp
           /\ ev' = [ev EXCEPT ![e].digest = d, ![e].app = env.app,
                               ![e].sub = IF Attempted(e) THEN "attempted" ELSE "prepared"]
           /\ wk' = [wk EXCEPT ![w].pc = "commit", ![w].read.digest = d]
           /\ UNCHANGED <<rec, led>>
     /\ UNCHANGED <<cfg, env, remote, air, sent, del, count>>

(* Mutant: the attempt is not committed first.                              *)
AllPrepared(evs) == evs

(* _create_instance commits the attempt, on every event that was prepared,  *)
(* before the request leaves.                                               *)
AllAttempted(evs) == [e \in Events |-> IF evs[e].topic = "create" /\ evs[e].digest # Nothing
                                       THEN [evs[e] EXCEPT !.sub = "attempted"] ELSE evs[e]]
CommitAttempt(w) ==
  LET d == wk[w].read.digest
  IN /\ At(w, "commit")
     /\ \/ ~MayGo(w) /\ Fails(w, FALSE, "other") /\ UNCHANGED sent
        \/ MayGo(w) /\ env.who # d.who /\ Fails(w, FALSE, "reconcile") /\ UNCHANGED sent
        \/ MayGo(w) /\ env.who = d.who /\ ~(SameApp /\ env.app = wk[w].read.app)
           /\ Fails(w, FALSE, "other") /\ UNCHANGED sent
        \/ /\ MayGo(w) /\ env.who = d.who /\ SameApp /\ env.app = wk[w].read.app
           /\ ev' = AllAttempted(ev) /\ Go(w, "call") /\ sent' = sent \cup {d}
           /\ UNCHANGED <<rec, led>>
     /\ UNCHANGED <<cfg, env, remote, air, del, count>>

(* Feishu answers with a new instance, refuses a second one of the same     *)
(* uuid (60012), refuses the request, or the answer or the request is lost. *)
Call(w) ==
  /\ At(w, "call")
  /\ \/ remote = Nothing /\ remote' = wk[w].read.digest /\ \E pc \in {"store", "lost"} : Go(w, pc)
     \/ remote # Nothing /\ UNCHANGED remote /\ \E pc \in {"duplicate", "lost"} : Go(w, pc)
     \/ UNCHANGED remote /\ \E pc \in {"lost", "refused"} : Go(w, pc)
  /\ UNCHANGED <<rec, cfg, env, ev, air, sent, led, del, count>>

(* The exception handler of the call marks the attempt unknown.             *)
Unknown(evs) == [e \in Events |-> IF evs[e].sub = "attempted" THEN [evs[e] EXCEPT !.sub = "unknown"] ELSE evs[e]]
CallFailed(w) ==
  /\ wk[w].pc \in {"duplicate", "lost", "refused"}
  /\ ev' = Unknown(ev)
  /\ led' = Fact(IF Known THEN "ref" ELSE "noref", "unknown")
  /\ Go(w, CASE At(w, "duplicate") -> "lookup" [] At(w, "lost") -> "retry" [] OTHER -> "refuse")
  /\ UNCHANGED <<rec, cfg, env, remote, air, sent, del, count>>

AfterFailure(w) ==
  /\ \/ At(w, "retry") /\ Fails(w, TRUE, "other")
     \/ At(w, "refuse") /\ Fails(w, FALSE, "other")
  /\ UNCHANGED <<cfg, env, remote, air, sent, del, count>>

(* The lookup by uuid after 60012; the app must still be the one it was.    *)
Lookup(w) ==
  /\ At(w, "lookup")
  /\ \/ led.stop /\ Fails(w, TRUE, "other")
     \/ ~led.stop /\ ~SameApp /\ Fails(w, FALSE, "other")
     \/ ~led.stop /\ SameApp /\ Fails(w, TRUE, "other")
     \/ ~led.stop /\ SameApp /\ remote # Nothing /\ Go(w, "store") /\ UNCHANGED <<rec, ev, led>>
  /\ UNCHANGED <<cfg, env, remote, air, sent, del, count>>

(* The last transaction: a late answer never restarts a stopped application. *)
WithCode(evs) == [e \in Events |-> IF evs[e].topic = "create" THEN [evs[e] EXCEPT !.code = TRUE] ELSE evs[e]]
(* Mutant: the stop is not looked at again.                                 *)
StoreAnyway(w) ==
  /\ At(w, "store")
  /\ Ends(WithCode(ev), w, "published")
  /\ \/ (rec.st = "submitted" \/ del) /\ UNCHANGED <<rec, led>>
     \/ /\ rec.st # "submitted" /\ ~del
        /\ rec' = [rec EXCEPT !.st = "submitted", !.err = "none", !.code = TRUE] /\ UNCHANGED led
  /\ UNCHANGED <<cfg, env, remote, air, sent, del, count>>

Store(w) ==
  /\ At(w, "store")
  /\ Ends(WithCode(ev), w, "published")
  /\ \/ led.stop /\ rec' = [rec EXCEPT !.code = TRUE] /\ led' = Fact("ref", "needs_action")
     \/ ~led.stop /\ (rec.st = "submitted" \/ del) /\ UNCHANGED <<rec, led>>
     \/ /\ ~led.stop /\ rec.st # "submitted" /\ ~del
        /\ rec' = [rec EXCEPT !.st = "submitted", !.err = "none", !.code = TRUE] /\ UNCHANGED led
  /\ UNCHANGED <<cfg, env, remote, air, sent, del, count>>

(* _reconcile_generation: read-only towards Feishu, and only when stopped.  *)
Outcome(w, out) == IF ev[wk[w].e].topic = "create" THEN "published" ELSE out
Reconcile(w) ==
  /\ At(w, "reconcile") /\ UNCHANGED rec
  /\ \/ ~Attempted(0) /\ led' = FactNow /\ Ends(ev, w, "published")
     \/ Attempted(0) /\ (\E e \in Creates : ev[e].code) /\ led' = Fact("ref", "needs_action") /\ Ends(ev, w, "published")
     \/ Attempted(0) /\ (\A e \in Creates : ~ev[e].code)
        /\ \/ led' = FactNow /\ Ends(ev, w, Outcome(w, "failed"))
           \/ /\ SameApp /\ (\E e \in Creates : ev[e].app # 0) /\ remote # Nothing
              /\ Go(w, "found") /\ UNCHANGED <<ev, led>>
  /\ UNCHANGED <<cfg, env, remote, air, sent, del, count>>

Found(w) ==
  /\ At(w, "found")
  /\ rec' = [rec EXCEPT !.code = TRUE, !.err = "none"]
  /\ led' = Fact("ref", "needs_action")
  /\ Ends(WithCode(ev), w, "published")
  /\ UNCHANGED <<cfg, env, remote, air, sent, del, count>>

-----------------------------------------------------------------------------
Next ==
  \/ \E new \in BOOLEAN, on \in BOOLEAN : PutConfig(new, on)
  \/ \E def \in 0..MaxChanges + 1 : ValidateConfig(def)
  \/ ChangeWorld \/ RequestDeletion \/ RejectDeletion
  \/ CreateRecord \/ UpdateRecord \/ Submit \/ Terminate \/ QueueReconciliation \/ ConfirmExternal
  \/ \E e \in Events : Reap(e)
  \/ \E d \in air : Land(d)
  \/ \E w \in Workers :
       \/ \E e \in Events : Claim(w, e)
       \/ Crash(w) \/ Route(w) \/ Preflight(w) \/ ReadDefinition(w) \/ Prepare(w) \/ CommitAttempt(w)
       \/ Call(w) \/ CallFailed(w) \/ AfterFailure(w) \/ Lookup(w) \/ Store(w) \/ Reconcile(w) \/ Found(w)

Spec == Init /\ [][Next]_vars

-----------------------------------------------------------------------------
(* Properties.                                                              *)

(* Every create request that ever leaves for the generation is the same:    *)
(* same template, initiator and form, whatever is rebound or reconfigured   *)
(* between the attempts (the submission fingerprint of _prepare_request).   *)
OneRequest == Cardinality(sent) <= 1

(* A record is submitted only with an approval at Feishu, made from the     *)
(* request that was fingerprinted.                                          *)
SubmittedIsReal == rec.st = "submitted" => rec.code /\ remote # Nothing /\ remote \in sent

(* One request, and an approval that answers it.                            *)
OneRealRequest == OneRequest /\ SubmittedIsReal

(* Of a stopped application the ledger knows every approval that exists or  *)
(* may yet come to exist: by its code, or as uncertain, which bars the      *)
(* attestation.  Checked against requests still in the air.                 *)
LedgerKnows ==
  led.stop /\ (remote # Nothing \/ air # {} \/ \E w \in Workers : At(w, "call"))
    => led.ref # "none" \/ led.noref \in {"unknown", "in_flight"}

(* After the stop no late answer restarts the onboarding, and what HR has   *)
(* attested stays attested.                                                 *)
StopIsFinal ==
  [][led.stop => /\ led'.stop /\ rec'.st = rec.st /\ sent' = sent
                 /\ ("ref" \in led.attested => led'.ref = "resolved")]_vars

-----------------------------------------------------------------------------
(* The inductive invariant.                                                 *)

(* What a worker carries, and that every change is counted.                 *)
Places == {"idle", "route", "preflight", "read", "prepare", "commit", "call", "store", "lost", "refused",
           "duplicate", "lookup", "retry", "refuse", "reconcile", "found"}
Readings == [ver : 0..MaxChanges + 1, digest : Digests \cup {Nothing}, fp : 0..MaxChanges + 1, app : 0..MaxChanges + 1]
Counted ==
  /\ count \in [lapse : 0..MaxLapses, crash : 0..MaxLapses, change : 0..MaxChanges]
  /\ cfg.ver <= count.change + 1 /\ cfg.body <= count.change + 1 /\ env.def <= count.change + 1
  /\ wk \in [Workers -> [e : 0..MaxEvents, n : 0..MaxAttempts, pc : Places, read : Readings]]

(* An event that was never appended is blank; only an appended one is       *)
(* handled, and only a submission prepares a request.                       *)
HandledIsAppended ==
  /\ \A e \in Events : ev[e].topic = "none" => ev[e] = NoEvent
  /\ \A w \in Workers : wk[w].pc # "idle" =>
       /\ wk[w].e \in Events /\ ev[wk[w].e].topic # "none"
       /\ wk[w].pc \notin {"route", "reconcile", "found"} => ev[wk[w].e].topic = "create"

(* The submissions of the generation agree on the request they have stored, *)
(* a handler carries the one its event has, and what has left was stored    *)
(* and marked as attempted before it left.                                  *)
OneDigest == \A e, f \in Creates : Nothing \notin {ev[e].digest, ev[f].digest} => ev[e].digest = ev[f].digest
CarriedIsStored ==
  \A w \in Workers :
    /\ wk[w].pc \in {"read", "prepare", "commit", "call"} => wk[w].read.digest # Nothing
    /\ wk[w].pc \in {"commit", "call"} => wk[w].read.digest = ev[wk[w].e].digest
SentIsStored == \A d \in sent : \E e \in Creates : ev[e].digest = d /\ d # Nothing
SentIsMarked == sent # {} => \E e \in Creates : ev[e].sub \in {"attempted", "unknown"}

(* What is or may come to be at Feishu was sent.                            *)
RemoteIsSent ==
  /\ remote # Nothing => remote \in sent
  /\ air \subseteq sent
  /\ \A w \in Workers : /\ At(w, "call") => wk[w].read.digest \in sent
                        /\ At(w, "store") => remote # Nothing

(* A stop after a request has left is on the ledger for good, and only a    *)
(* stopped application is attested.                                         *)
LedgerSeesSent == led.stop /\ sent # {} => led.ref # "none" \/ led.noref \in {"unknown", "in_flight"}
AttestedIsResolved == led.attested # {} => led.stop /\ ("ref" \in led.attested => led.ref = "resolved")

IInv ==
  /\ TypeOK /\ Counted /\ HandledIsAppended
  /\ OneDigest /\ CarriedIsStored /\ SentIsStored /\ SentIsMarked
  /\ RemoteIsSent /\ SubmittedIsReal /\ LedgerSeesSent /\ AttestedIsResolved
=============================================================================
