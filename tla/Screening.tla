----------------------------- MODULE Screening -----------------------------
(***************************************************************************)
(* One screening run: resumes are uploaded, parsed, scored by rules and    *)
(* evaluated by an LLM, and each application is routed to review or to the *)
(* deferred talent pool (server/app/screening, recruiting/tasks.py,        *)
(* talent/service.py).                                                     *)
(*                                                                         *)
(* A handler is a chain of short transactions with the object store, the   *)
(* parser or the LLM in between; each transaction holds the candidate's    *)
(* and the item's row locks.  A transaction that holds the run's row lock  *)
(* as well is one step.  One that does not (db.get of the run) is two, for *)
(* it counts the run's items before its own commit: Held, then Commit.     *)
(* Of the job queue only JobContract's promise is kept.                    *)
(***************************************************************************)
EXTENDS Integers, FiniteSets

CONSTANTS
  Item,      \* the uploaded files of the run
  MaxTry,    \* max_attempts of a job
  MaxRetry,  \* bound on the retries asked for by a user, per item
  MaxLost    \* bound on the attempts lost to a crash, an expired lease or an error

ASSUME ScreeningAssumption ==
  /\ IsFiniteSet(Item) /\ MaxTry \in Nat \ {0} /\ MaxRetry \in Nat /\ MaxLost \in Nat

VARIABLES
  run,    \* screening_runs: status and counters
  items,  \* what the database says of an item, its file, candidate and application
  objs,   \* the objects of an item in the object store
  job,    \* the parse, score and current LLM job of an item, and the handler's place
  fin,    \* the llm_finalize_terminal job of each LLM job that died
  held,   \* an open transaction: the item's row before it, the counters it will write
  late,   \* attempt number of an LLM call that has lost its lease but still waits, or 0
  tally   \* bounds: retries per item, lost attempts

ScreeningVars == <<run, items, objs, job, fin, held, late, tally>>

Kinds == {"parse", "score", "llm"}
Gens  == 1..MaxRetry + 1
LlmTerminal == {"not_requested", "skipped", "succeeded", "failed"}
LlmEnds     == {"skipped", "succeeded", "failed"}
RunEnds     == {"completed", "partial", "failed", "cancelled"}

NoItemRow == [st |-> "absent", code |-> "none", llm |-> "not_requested", again |-> FALSE,
              key |-> "quarantine", scan |-> "pending", cleanup |-> FALSE,
              cand |-> "absent", stage |-> "none", bulk |-> FALSE, route |-> "none",
              task |-> "none", eval |-> "none", pool |-> FALSE]
NoJob  == [st |-> "none", n |-> 0, pc |-> "none", out |-> "none"]
NotHeld   == [open |-> FALSE]
Fresh  == [NoJob EXCEPT !.st = "queued"]

ItemRow == [st : {"absent", "queued", "parsing", "parsed", "scoring", "scored", "failed", "cancelled"},
            code : {"none", "transient", "recoverable", "permanent"},
            llm : LlmTerminal \cup {"queued", "running"}, again : BOOLEAN,
            key : {"quarantine", "clean"}, scan : {"pending", "clean", "rejected"}, cleanup : BOOLEAN,
            cand : {"absent", "live", "blocked"},
            stage : {"none", "new", "review", "deferred", "moved", "ended"}, bulk : BOOLEAN,
            route : {"none", "failed", "high", "low"}, task : {"none", "failed", "succeeded"},
            eval : {"none", "high", "low"}, pool : BOOLEAN]
Run == [st : RunEnds \cup {"queued", "parsing", "rule_scoring", "llm_scoring"},
        total : Nat, done : Nat, ok : Nat, bad : Nat]
Outs == {"none", "done", "retry", "owner", "transient", "recoverable", "permanent", "technical"}
Job == [st : {"none", "queued", "running", "done", "dead"}, n : 0..MaxTry,
        pc : {"none", "begin", "scan", "copied", "switched", "read", "store", "score", "call", "infected", "commit", "settle"},
        out : Outs]
Tx  == [open : {TRUE}, old : ItemRow, base : Run, new : Run, owner : BOOLEAN,
        kind : Kinds \cup {"late"}, out : Outs \cup {"infected"}]

ScreeningTypeOK ==
  /\ run \in Run /\ items \in [Item -> ItemRow] /\ objs \in [Item -> SUBSET {"quarantine", "clean"}]
  /\ job \in [Item -> [Kinds -> Job]]
  /\ fin \in [Item -> [Gens -> {"none", "route", "transient", "technical", "done", "lost"}]]
  /\ held \in [Item -> Tx \cup {NotHeld}]
  /\ late \in [Item -> 0..MaxTry] /\ tally \in [gen : [Item -> Gens], lost : 0..MaxLost]

ScreeningInit ==
  /\ run = [st |-> "queued", total |-> 0, done |-> 0, ok |-> 0, bad |-> 0]
  /\ items = [i \in Item |-> NoItemRow]
  /\ objs = [i \in Item |-> {}]
  /\ job = [i \in Item |-> [k \in Kinds |-> NoJob]]
  /\ fin = [i \in Item |-> [g \in Gens |-> "none"]]
  /\ held = [i \in Item |-> NotHeld]
  /\ late = [i \in Item |-> 0]
  /\ tally = [gen |-> [i \in Item |-> 1], lost |-> 0]

-----------------------------------------------------------------------------
(* progress.py                                                              *)

RuleFailed(r) == r.st \in {"failed", "cancelled"}
RuleDone(r)   == r.st = "scored" /\ r.llm \in LlmTerminal

(* summarize_progress over the item rows rs of a run of that total.         *)
Summary(rs, total) ==
  LET bad == Cardinality({i \in Item : RuleFailed(rs[i])})
      ok  == Cardinality({i \in Item : RuleDone(rs[i])})
      degraded == \E i \in Item : rs[i].st = "scored" /\ rs[i].llm = "failed"
  IN [total |-> total, done |-> ok + bad, ok |-> ok, bad |-> bad,
      st |-> CASE ok + bad = total -> IF degraded \/ (ok > 0 /\ bad > 0) THEN "partial"
                                      ELSE IF ok = 0 /\ bad > 0 THEN "failed" ELSE "completed"
               [] \E i \in Item : rs[i].st = "scored" /\ rs[i].llm \in {"queued", "running"} -> "llm_scoring"
               [] \E i \in Item : rs[i].st \in {"parsed", "scoring", "scored"} -> "rule_scoring"
               [] OTHER -> "parsing"]

(* The committed row of every item.                                         *)
Committed == [i \in Item |-> IF held[i].open THEN held[i].old ELSE items[i]]

(* aggregate_run as a transaction that writes row r of item i computes it.  *)
Counted(i, r) == Summary([Committed EXCEPT ![i] = r], run.total)

(* The item's row lock is free and its handler of kind k stands at pc.      *)
Free(i) == ~held[i].open
At(i, k, pc) == Free(i) /\ job[i][k].st = "running" /\ job[i][k].pc = pc
Go(i, k, pc) == job' = [job EXCEPT ![i][k].pc = pc]
Settled(j, i, k, out) == [j EXCEPT ![i][k].pc = IF out = "infected" THEN "infected" ELSE "settle",
                                   ![i][k].out = IF out = "infected" THEN "done" ELSE out]
Ends(i, k, out) == job' = Settled(job, i, k, out)

(* A transaction under the run's lock: it counts and commits in one step.   *)
Locked(i, r) ==
  /\ items' = [items EXCEPT ![i] = r]
  /\ run' = Counted(i, r)
  /\ UNCHANGED held

(* One that reads the run unlocked: others see neither the row nor the      *)
(* counters before Commit.                                                  *)
Unlocked(i, k, r, out) ==
  /\ items' = [items EXCEPT ![i] = r]
  /\ held' = [held EXCEPT ![i] = [open |-> TRUE, old |-> items[i], base |-> run, new |-> Counted(i, r),
                                  owner |-> r.route # items[i].route, kind |-> k, out |-> out]]
  /\ IF k = "late" THEN UNCHANGED job ELSE Go(i, k, "commit")
  /\ UNCHANGED run

(* The ORM writes the columns that differ from what was loaded; the CHECK   *)
(* constraint on the counters may refuse them, which undoes the transaction. *)
Commit(i) ==
  /\ held[i].open
  /\ LET h == held[i]
         merged == [f \in DOMAIN run |-> IF h.new[f] # h.base[f] THEN h.new[f] ELSE run[f]]
         legal == merged.done = merged.ok + merged.bad /\ merged.done <= merged.total
     IN /\ run' = IF legal THEN merged ELSE run
        /\ items' = IF legal THEN items ELSE [items EXCEPT ![i] = h.old]
        /\ job' = IF h.kind = "late" THEN job
                  ELSE Settled(job, i, h.kind, IF legal THEN h.out ELSE "retry")
        /\ held' = [held EXCEPT ![i] = NotHeld]
        /\ UNCHANGED <<objs, fin, late, tally>>

-----------------------------------------------------------------------------
(* The run's API: upload, start, cancel.                                    *)

(* upload_item writes the object before its transaction ...                 *)
PutObject(i) ==
  /\ items[i].st = "absent" /\ objs[i] = {}
  /\ objs' = [objs EXCEPT ![i] = {"quarantine"}]
  /\ UNCHANGED <<run, items, job, fin, held, late, tally>>

(* ... which accepts the item while the run is queued, ...                  *)
AcceptItem(i) ==
  /\ items[i].st = "absent" /\ objs[i] # {} /\ run.st = "queued"
  /\ items' = [items EXCEPT ![i].st = "queued"]
  /\ run' = [run EXCEPT !.total = @ + 1]
  /\ UNCHANGED <<objs, job, fin, held, late, tally>>

(* ... or the object is deleted again.                                      *)
RefuseItem(i) ==
  /\ items[i].st = "absent" /\ objs[i] # {} /\ run.st # "queued"
  /\ objs' = [objs EXCEPT ![i] = {}]
  /\ UNCHANGED <<run, items, job, fin, held, late, tally>>

StartRun ==
  LET queued == {i \in Item : items[i].st = "queued"}
  IN /\ run.st = "queued" /\ queued # {}
     /\ run' = [run EXCEPT !.st = "parsing"]
     /\ job' = [i \in Item |-> IF i \in queued THEN [job[i] EXCEPT !.parse = Fresh] ELSE job[i]]
     /\ UNCHANGED <<items, objs, fin, held, late, tally>>

CancelRun ==
  /\ run.st = "queued" /\ run.total = 0
  /\ run' = [run EXCEPT !.st = "cancelled"]
  /\ UNCHANGED <<items, objs, job, fin, held, late, tally>>

-----------------------------------------------------------------------------
(* routing.py, tasks.py, talent/service.py                                  *)

(* Mutant: the open task keeps what it was told first.                      *)
ReviewTaskKept(r, ai, create) ==
  IF r.task # "none" THEN r.task
  ELSE IF ~create THEN "none" ELSE IF ai = "failed" THEN "failed" ELSE "succeeded"

(* ensure_review_task: an open task is told of a success and never of a     *)
(* failure; create_if_missing opens one.                                    *)
ReviewTask(r, ai, create) ==
  IF r.task # "none" THEN (IF ai = "failed" THEN r.task ELSE "succeeded")
  ELSE IF ~create THEN "none" ELSE IF ai = "failed" THEN "failed" ELSE "succeeded"

(* A success after the fail-open route of the same item.                    *)
FailOpenRetry(r, ai) == r.stage # "new" /\ ai # "failed" /\ r.route = "failed"

(* Mutant: a terminated application is routed like another.                 *)
RouteActsOnEnded(r, ai) == r.stage = "new" \/ FailOpenRetry(r, ai)

(* The route writes something, and has then locked the run's owner NOWAIT.  *)
RouteActs(r, ai) == r.stage # "ended" /\ (r.stage = "new" \/ FailOpenRetry(r, ai))

(* With its membership of the system's pool (ensure_deferred_membership).   *)
Deferred(r) == [r EXCEPT !.stage = "deferred", !.pool = TRUE]

(* route_llm_screening_terminal: ai is "failed", or the outcome of the score. *)
Routed(r, ai) ==
  IF ~RouteActs(r, ai) THEN r
  ELSE IF FailOpenRetry(r, ai)
       THEN [r EXCEPT !.route = ai, !.task = ReviewTask(r, ai, FALSE)]
  ELSE IF ai = "low" THEN Deferred([r EXCEPT !.route = ai, !.bulk = FALSE])
  ELSE [r EXCEPT !.route = ai, !.bulk = FALSE, !.stage = "review", !.task = ReviewTask(r, ai, TRUE)]

(* resolve_operational_user_id finds the owner's row unlocked by others.    *)
OwnerFree == \A j \in Item : held[j].open => ~held[j].owner
MayRoute(r, ai) == RouteActs(r, ai) => OwnerFree

-----------------------------------------------------------------------------
(* A job: claimed, completed, lost.                                         *)

Working(j) == j.st \in {"queued", "running"}
Enqueued(j, i, k) == IF Working(j[i][k]) THEN j ELSE [j EXCEPT ![i][k] = Fresh]

Claim(i, k) ==
  /\ job[i][k].st = "queued"
  /\ job' = [job EXCEPT ![i][k] = [st |-> "running", n |-> @.n + 1, pc |-> "begin", out |-> "none"]]
  /\ UNCHANGED <<run, items, objs, fin, held, late, tally>>

(* finalize_screening_dead_letter and _enqueue_llm_terminal_finalizer.      *)
DeadLetter(i, k, code) ==
  \/ /\ k = "llm"
     /\ fin' = [fin EXCEPT ![i][tally.gen[i]] = code]
     /\ UNCHANGED <<run, items, held>>
  \/ /\ k # "llm" /\ items[i].st \in {"scored", "cancelled"}
     /\ UNCHANGED <<run, items, held, fin>>
  \/ /\ k # "llm" /\ items[i].st \notin {"scored", "cancelled"}
     /\ Locked(i, [items[i] EXCEPT !.st = "failed", !.code = code])
     /\ UNCHANGED fin

(* An attempt failed in a way that may be retried; the last one is fatal.   *)
Retried(i, k, code) ==
  IF job[i][k].n < MaxTry
  THEN /\ job' = [job EXCEPT ![i][k] = [Fresh EXCEPT !.n = job[i][k].n]]
       /\ UNCHANGED <<run, items, held, fin>>
  ELSE /\ job' = [job EXCEPT ![i][k] = [NoJob EXCEPT !.st = "dead"]]
       /\ DeadLetter(i, k, code)

Settle(i, k) ==
  LET out == job[i][k].out
  IN /\ At(i, k, "settle")
     /\ \/ /\ out = "done"
           /\ job' = [job EXCEPT ![i][k] = [NoJob EXCEPT !.st = "done"]]
           /\ UNCHANGED <<run, items, held, fin>>
        \/ out = "retry" /\ Retried(i, k, IF k = "llm" THEN "route" ELSE "permanent")
        \/ out = "owner" /\ Retried(i, k, IF k = "llm" THEN "technical" ELSE "permanent")
        \/ /\ out \notin {"done", "retry", "owner"}
           /\ job' = [job EXCEPT ![i][k] = [NoJob EXCEPT !.st = "dead"]]
           /\ DeadLetter(i, k, out)
     /\ UNCHANGED <<objs, late, tally>>

(* The process dies, the lease expires or the handler raises: the attempt   *)
(* is over for the queue.  A handler waiting for the LLM may live on.       *)
Lost(i, k) ==
  /\ Free(i) /\ job[i][k].st = "running" /\ tally.lost < MaxLost
  /\ Retried(i, k, IF k = "llm" THEN "route" ELSE "permanent")
  /\ late' \in {late} \cup IF job[i][k].pc # "call" THEN {}
                          ELSE {[late EXCEPT ![i] = job[i][k].n]}
  /\ tally' = [tally EXCEPT !.lost = @ + 1]
  /\ UNCHANGED objs

-----------------------------------------------------------------------------
(* parse_item and score_item.                                               *)

Cancelled(r) == [r EXCEPT !.st = "cancelled", !.code = "permanent"]
Blocked(i)   == items[i].cand = "blocked"

(* _retry_or_finish                                                         *)
RetryOrFinish(i, k, code) ==
  LET r == items[i]
      back == IF k = "parse" THEN "queued" ELSE "parsed"
  IN \/ Blocked(i) /\ Unlocked(i, k, Cancelled(r), "permanent")
     \/ /\ ~Blocked(i) /\ job[i][k].n >= MaxTry
        /\ Unlocked(i, k, [r EXCEPT !.st = "failed", !.code = code], code)
     \/ /\ ~Blocked(i) /\ job[i][k].n < MaxTry
        /\ items' = [items EXCEPT ![i] = [r EXCEPT !.st = back, !.code = code]]
        /\ Ends(i, k, "retry") /\ UNCHANGED <<run, held>>

(* _fail_terminal                                                           *)
FailTerminal(i, k, code, scan, out) ==
  LET r == [items[i] EXCEPT !.scan = scan]
  IN Unlocked(i, k, IF Blocked(i) THEN Cancelled(r) ELSE [r EXCEPT !.st = "failed", !.code = code], out)

(* Mutant: an item found in the middle is left to the attempt that began it. *)
ParseBegun(r) == r.st \in {"parsing", "parsed", "scored", "cancelled"} \/ (r.st = "failed" /\ r.code # "transient")

ParseOver(r) == r.st \in {"parsed", "scored", "cancelled"} \/ (r.st = "failed" /\ r.code # "transient")

ParseBegin(i) ==
  /\ At(i, "parse", "begin")
  /\ \/ ParseOver(items[i]) /\ Ends(i, "parse", "done") /\ UNCHANGED items
     \/ ~ParseOver(items[i]) /\ Blocked(i) /\ Ends(i, "parse", "permanent") /\ UNCHANGED items
     \/ ~ParseOver(items[i]) /\ ~Blocked(i) /\ Go(i, "parse", "scan") /\ items' = [items EXCEPT ![i].st = "parsing"]
  /\ UNCHANGED <<run, objs, fin, held, late, tally>>

(* The scan of a quarantined file, and the copy of a clean one.             *)
ScanFile(i) ==
  /\ At(i, "parse", "scan")
  /\ \/ /\ ParseOver(items[i]) /\ Ends(i, "parse", "done")
        /\ UNCHANGED <<run, items, held, objs>>
     \/ /\ ~ParseOver(items[i]) /\ items[i].scan = "clean" /\ Go(i, "parse", "read")
        /\ UNCHANGED <<run, items, held, objs>>
     \/ /\ ~ParseOver(items[i]) /\ items[i].scan # "clean" /\ Go(i, "parse", "copied")
        /\ objs' = [objs EXCEPT ![i] = @ \cup {"clean"}]
        /\ UNCHANGED <<run, items, held>>
     \/ /\ ~ParseOver(items[i]) /\ items[i].scan # "clean" /\ UNCHANGED objs
        /\ \/ RetryOrFinish(i, "parse", "transient")
           \/ FailTerminal(i, "parse", "permanent", items[i].scan, "done")
           \/ FailTerminal(i, "parse", "permanent", "rejected", "infected")
  /\ UNCHANGED <<fin, late, tally>>

DeleteInfected(i) ==
  /\ At(i, "parse", "infected")
  /\ objs' \in {objs, [objs EXCEPT ![i] = @ \ {items[i].key}]}
  /\ Ends(i, "parse", "done")
  /\ UNCHANGED <<run, items, fin, held, late, tally>>

(* The file's row now names the copy and remembers what is left to delete.  *)
SwitchKey(i) ==
  /\ At(i, "parse", "copied")
  /\ items' = [items EXCEPT ![i] = [@ EXCEPT !.key = "clean", !.scan = "clean", !.cleanup = TRUE]]
  /\ Go(i, "parse", "switched")
  /\ UNCHANGED <<run, objs, fin, held, late, tally>>

DeleteQuarantined(i) ==
  /\ At(i, "parse", "switched") /\ Go(i, "parse", "read")
  /\ \/ UNCHANGED <<objs, items>>
     \/ /\ objs' = [objs EXCEPT ![i] = @ \ {"quarantine"}]
        /\ items' = [items EXCEPT ![i].cleanup = FALSE]
  /\ UNCHANGED <<run, fin, held, late, tally>>

ReadFile(i) ==
  /\ At(i, "parse", "read")
  /\ \/ Go(i, "parse", "store") /\ UNCHANGED <<run, items, held>>
     \/ RetryOrFinish(i, "parse", "transient")
     \/ \E code \in {"recoverable", "permanent"} : FailTerminal(i, "parse", code, items[i].scan, "done")
  /\ UNCHANGED <<objs, fin, late, tally>>

(* The last transaction creates candidate, resume and application under ids *)
(* derived from the item's, and the score job.                              *)
StoreParsed(i) ==
  LET r == items[i]
      parsed == [r EXCEPT !.st = "parsed", !.code = "none", !.cand = "live",
                          !.stage = IF @ = "none" THEN "new" ELSE @]
  IN /\ At(i, "parse", "store") /\ OwnerFree
     /\ \/ r.st \in {"parsed", "scored", "cancelled"} /\ Ends(i, "parse", "done") /\ UNCHANGED <<run, items, held>>
        \/ /\ r.st \notin {"parsed", "scored", "cancelled"} /\ Blocked(i) /\ Locked(i, Cancelled(r)) /\ Ends(i, "parse", "done")
        \/ /\ r.st \notin {"parsed", "scored", "cancelled"} /\ ~Blocked(i)
           /\ items' = [items EXCEPT ![i] = parsed]
           /\ job' = Settled(Enqueued(job, i, "score"), i, "parse", "done")
           /\ run' = [run EXCEPT !.st = "rule_scoring"] /\ UNCHANGED held
     /\ UNCHANGED <<objs, fin, late, tally>>

ScoreBegin(i) ==
  /\ At(i, "score", "begin")
  /\ \/ Blocked(i) /\ Ends(i, "score", "permanent") /\ UNCHANGED items
     \/ ~Blocked(i) /\ items[i].st # "parsed" /\ Ends(i, "score", "done") /\ UNCHANGED items
     \/ ~Blocked(i) /\ items[i].st = "parsed" /\ Go(i, "score", "score") /\ items' = [items EXCEPT ![i].st = "scoring"]
  /\ UNCHANGED <<run, objs, fin, held, late, tally>>

ScoreFails(i) ==
  /\ At(i, "score", "score")
  /\ \/ RetryOrFinish(i, "score", "recoverable")
     \/ FailTerminal(i, "score", "permanent", items[i].scan, "permanent")
  /\ UNCHANGED <<objs, fin, late, tally>>

(* on: an LLM is configured, enabled and allowed for the job.               *)
StoreScore(i, on) ==
  LET r == [items[i] EXCEPT !.st = "scored", !.code = "none"]
      skipped == [r EXCEPT !.llm = "skipped"]
  IN /\ At(i, "score", "score")
     /\ \/ Blocked(i) /\ Locked(i, Cancelled(items[i])) /\ Ends(i, "score", "permanent")
        \/ /\ ~Blocked(i) /\ r.stage = "ended"
           /\ Locked(i, skipped) /\ Ends(i, "score", "done")
        \/ /\ ~Blocked(i) /\ r.stage # "ended" /\ on
           /\ Locked(i, [r EXCEPT !.llm = "queued"])
           /\ job' = Settled(Enqueued(job, i, "llm"), i, "score", "done")
        \/ /\ ~Blocked(i) /\ r.stage # "ended" /\ ~on /\ MayRoute(r, "failed")
           /\ Locked(i, Routed(skipped, "failed")) /\ Ends(i, "score", "done")
     /\ UNCHANGED <<objs, fin, late, tally>>

-----------------------------------------------------------------------------
(* llm_pipeline.py: evaluate_item.                                          *)

Skipped(r) == [r EXCEPT !.llm = "skipped", !.again = FALSE]

LlmBegin(i) ==
  LET r == items[i]
      due == r.llm = "queued" /\ ~Blocked(i)
  IN /\ At(i, "llm", "begin")
     /\ \/ /\ ~due /\ UNCHANGED <<run, items, held>>
           \* the candidate is deleted, or only about to be
           /\ \E out \in {"done"} \cup IF Blocked(i) /\ r.llm \notin LlmEnds THEN {"technical"} ELSE {} :
                Ends(i, "llm", out)
        \/ due /\ r.stage = "ended" /\ Unlocked(i, "llm", Skipped(r), "done")
        \* the configuration has changed since the job was queued
        \/ due /\ r.stage # "ended" /\ MayRoute(r, "failed") /\ Unlocked(i, "llm", Routed(Skipped(r), "failed"), "done")
        \/ /\ due /\ r.stage # "ended"
           /\ items' = [items EXCEPT ![i].llm = "running"] /\ Go(i, "llm", "call")
           /\ UNCHANGED <<run, held>>
     /\ UNCHANGED <<objs, fin, late, tally>>

(* The call in progress: the job's own, or one that has lost its lease.     *)
Calling(i, k) == IF k = "late" THEN Free(i) /\ late[i] # 0 ELSE At(i, "llm", "call")
CallOver(i, k) == late' = IF k = "late" THEN [late EXCEPT ![i] = 0] ELSE late

(* The final transaction writes nothing: the handler just returns.          *)
Dropped(i, k) ==
  /\ IF k = "late" THEN UNCHANGED job ELSE Ends(i, "llm", "done")
  /\ UNCHANGED <<run, items, held>>

(* _discard_for_deletion                                                    *)
Discard(i, k) ==
  \/ items[i].llm = "running" /\ Unlocked(i, k, Skipped(items[i]), "done")
  \/ items[i].llm # "running" /\ Dropped(i, k)

LlmAnswer(i, k, res) ==
  LET r == [items[i] EXCEPT !.llm = "succeeded", !.again = FALSE, !.eval = res]
  IN /\ Calling(i, k) /\ CallOver(i, k)
     /\ \/ Blocked(i) /\ Discard(i, k)
        \/ ~Blocked(i) /\ MayRoute(r, res) /\ Unlocked(i, k, Routed(r, res), "done")
     /\ UNCHANGED <<objs, fin, tally>>

(* _finish_failure                                                          *)
LlmError(i, k, transient) ==
  LET n == IF k = "late" THEN late[i] ELSE job[i]["llm"].n
      retryable == transient /\ n < MaxTry /\ items[i].stage # "ended"
      r == [items[i] EXCEPT !.llm = IF retryable THEN "queued" ELSE "failed", !.again = transient /\ ~retryable]
  IN /\ Calling(i, k) /\ CallOver(i, k)
     /\ \/ Blocked(i) /\ Discard(i, k)
        \/ ~Blocked(i) /\ retryable /\ Unlocked(i, k, r, "retry")
        \/ /\ ~Blocked(i) /\ ~retryable /\ MayRoute(r, "failed")
           /\ Unlocked(i, k, Routed(r, "failed"), IF transient THEN "transient" ELSE "technical")
     /\ UNCHANGED <<objs, fin, tally>>

(* resolve_operational_user_id fails: somebody holds the run owner's row, or *)
(* the owner has left without a successor.  The transaction is undone; only *)
(* the LLM handler puts its item back (_reset_ownership_blocked_attempt).   *)
OwnerUnavailable(i, k) ==
  /\ \/ /\ \/ At(i, "parse", "store") /\ k = "parse"
           \/ At(i, "score", "score") /\ k = "score" /\ RouteActs(items[i], "failed")
        /\ Ends(i, k, "owner") /\ UNCHANGED <<run, items, held>>
     \/ /\ k = "llm" /\ At(i, "llm", "call") /\ RouteActs(items[i], "high")
        /\ \/ /\ ~Blocked(i) /\ items[i].llm = "running"
              /\ Unlocked(i, "llm", [items[i] EXCEPT !.llm = "queued"], "owner")
           \/ /\ (Blocked(i) \/ items[i].llm # "running")
              /\ Ends(i, "llm", "owner") /\ UNCHANGED <<run, items, held>>
  /\ tally.lost < MaxLost /\ tally' = [tally EXCEPT !.lost = @ + 1]
  /\ UNCHANGED <<objs, fin, late>>

(* _llm_dead_letter_context: what a dead job still has to settle; a payload *)
(* that does not fit its item is technical, as the failure of generation g. *)
Disposition(i, g) == IF items[i].llm \in LlmEnds THEN "settled" ELSE fin[i][g]

(* LlmTerminalFinalizer for the dead job of generation g.                   *)
FinalizeLlm(i, g) ==
  LET r == [items[i] EXCEPT !.llm = "failed", !.again = fin[i][g] = "transient"]
  IN /\ Free(i) /\ fin[i][g] \in {"route", "transient", "technical"}
     /\ fin' = [fin EXCEPT ![i][g] = "done"]
     /\ CASE Disposition(i, g) = "settled" -> UNCHANGED <<run, items, held>>
          [] Disposition(i, g) = "technical" -> Locked(i, r)
          [] OTHER -> MayRoute(r, "failed") /\ Locked(i, Routed(r, "failed"))
     /\ UNCHANGED <<objs, job, late, tally>>

(* The owner was unavailable at each of its attempts: it is dead for good   *)
(* (recover_llm_finalizer_exhaustion revives it after other failures only). *)
FinalizerDies(i, g) ==
  /\ Free(i) /\ Disposition(i, g) \in {"route", "transient"}
  /\ RouteActs(items[i], "failed") /\ tally.lost < MaxLost
  /\ fin' = [fin EXCEPT ![i][g] = "lost"]
  /\ tally' = [tally EXCEPT !.lost = @ + 1]
  /\ UNCHANGED <<run, items, objs, job, held, late>>

-----------------------------------------------------------------------------
(* actions.py and the commands of other modules on the same rows.           *)

NoActiveJob(i) == \A k \in Kinds : ~Working(job[i][k])

(* retry_screening_item, of an evaluation ...                               *)
RetryLlm(i) ==
  /\ Free(i) /\ ~Blocked(i) /\ items[i].stage # "ended" /\ tally.gen[i] <= MaxRetry
  /\ items[i].st = "scored" /\ items[i].llm = "failed" /\ items[i].again /\ ~Working(job[i]["llm"])
  /\ Locked(i, [items[i] EXCEPT !.llm = "queued", !.again = FALSE])
  /\ job' = [job EXCEPT ![i]["llm"] = Fresh]
  /\ tally' = [tally EXCEPT !.gen[i] = @ + 1]
  /\ UNCHANGED <<objs, fin, late>>

(* ... or of the parse or the score.                                        *)
RetryRule(i) ==
  LET k == IF items[i].stage # "none" THEN "score" ELSE "parse"
  IN /\ Free(i) /\ ~Blocked(i) /\ items[i].stage # "ended" /\ tally.gen[i] <= MaxRetry
     /\ items[i].st = "failed" /\ items[i].code \in {"transient", "recoverable"} /\ NoActiveJob(i)
     /\ k = "parse" => items[i].scan # "rejected"
     /\ Locked(i, [items[i] EXCEPT !.st = IF k = "score" THEN "parsed" ELSE "queued", !.code = "none"])
     /\ job' = [job EXCEPT ![i][k] = Fresh]
     /\ tally' = [tally EXCEPT !.gen[i] = @ + 1]
     /\ UNCHANGED <<objs, fin, late>>

(* apply_bulk_action: all items or none.                                    *)
Bulk(S, cmd) ==
  LET Fits(i) == CASE cmd = "advance" -> items[i].stage \in {"new", "review"}
                   [] cmd = "undo" -> items[i].stage = "review" /\ items[i].bulk
                   [] cmd = "reject" -> items[i].stage # "ended"
      Moved(r) == CASE cmd = "advance" -> [r EXCEPT !.stage = "review", !.bulk = r.stage = "new"]
                    [] cmd = "undo" -> [r EXCEPT !.stage = "new", !.bulk = FALSE]
                    [] cmd = "reject" -> [r EXCEPT !.stage = "ended"]
  IN /\ \A i \in S : Free(i) /\ ~Blocked(i) /\ items[i].st = "scored" /\ Fits(i)
     /\ items' = [i \in Item |-> IF i \in S THEN Moved(items[i]) ELSE items[i]]
     /\ UNCHANGED <<run, objs, job, fin, held, late, tally>>

(* A reviewer decides, HR terminates, a deletion is approved.               *)
HumanMove(i) ==
  LET r == items[i]
      ended == [r EXCEPT !.stage = "ended", !.task = "none"]
  IN /\ Free(i)
     /\ \/ /\ r.stage = "review" /\ ~Blocked(i)
           /\ items' = [items EXCEPT ![i] = [ended EXCEPT !.stage = "moved"]]
        \/ r.stage \notin {"none", "ended"} /\ items' = [items EXCEPT ![i] = ended]
        \/ r.cand = "live" /\ items' = [items EXCEPT ![i] = [ended EXCEPT !.cand = "blocked"]]
     /\ UNCHANGED <<run, objs, job, fin, held, late, tally>>

-----------------------------------------------------------------------------
ScreeningNext ==
  \/ StartRun \/ CancelRun
  \/ \E S \in SUBSET Item \ {{}}, cmd \in {"advance", "undo", "reject"} : Bulk(S, cmd)
  \/ \E i \in Item :
       \/ Commit(i) \/ PutObject(i) \/ AcceptItem(i) \/ RefuseItem(i)
       \/ ParseBegin(i) \/ ScanFile(i) \/ DeleteInfected(i) \/ SwitchKey(i) \/ DeleteQuarantined(i)
       \/ ReadFile(i) \/ StoreParsed(i) \/ ScoreBegin(i) \/ ScoreFails(i)
       \/ \E on \in BOOLEAN : StoreScore(i, on)
       \/ LlmBegin(i) \/ RetryLlm(i) \/ RetryRule(i) \/ HumanMove(i)
       \/ \E k \in {"llm", "late"} :
            \/ \E res \in {"high", "low"} : LlmAnswer(i, k, res)
            \/ \E transient \in BOOLEAN : LlmError(i, k, transient)
       \/ \E k \in Kinds : Claim(i, k) \/ Settle(i, k) \/ Lost(i, k) \/ OwnerUnavailable(i, k)
       \/ \E g \in Gens : FinalizeLlm(i, g) \/ FinalizerDies(i, g)

ScreeningSpec == ScreeningInit /\ [][ScreeningNext]_ScreeningVars

-----------------------------------------------------------------------------
(* Properties.                                                              *)

(* A crash at any point of the scan leaves the file's row naming an object  *)
(* that is there, unless the file was rejected: the copy comes before the   *)
(* row's switch, the switch before the delete (_scan_and_promote).          *)
RowNamesObject ==
  \A i \in Item :
    LET r == Committed[i] IN r.st # "absent" /\ r.scan # "rejected" => r.key \in objs[i]

(* Somebody is going to act on the item: a job, a finalizer, or a           *)
(* transaction about to commit; or a finalizer died on record.              *)
Driven(i) ==
  \/ held[i].open \/ ~NoActiveJob(i)
  \/ \E g \in Gens : fin[i][g] \notin {"none", "done"}

(* It waits for the parser, in a run that has started.                      *)
Waiting(r) == r.cand # "blocked" /\ (r.st = "parsing" \/ (r.st = "queued" /\ run.st # "queued"))

(* An item of a started run that waits for the parser has something that    *)
(* will act on it, over crashes, dead jobs, an attempt that starts again in *)
(* the middle of the next stage, and user retries.                          *)
WaitingIsDriven == \A i \in Item : Waiting(Committed[i]) => Driven(i)

(* Where an application has gone and what was written about it agree:       *)
(* deferred only by a low score and with its pool membership; routed by a   *)
(* score only with an evaluation on file; the review task says "AI failed"  *)
(* only while no score has routed the application.                          *)
RouteAgrees ==
  \A i \in Item :
    LET r == items[i]
    IN /\ r.stage = "deferred" => r.route = "low" /\ r.pool
       /\ r.route \in {"high", "low"} => r.eval # "none"
       /\ r.task = "failed" => r.route = "failed"

(* The item, its file and its application are not left behind.              *)
ItemSafety == RowNamesObject /\ WaitingIsDriven /\ RouteAgrees

(* What a person has ended stays ended, and no late answer, finalizer or    *)
(* retry routes it again; of a blocked candidate nothing new is stored.     *)
EndedIsFinal ==
  [][\A i \in Item :
       /\ items[i].stage = "ended" =>
            /\ items'[i].stage = "ended" /\ items'[i].route = items[i].route
            /\ items'[i].task \in {items[i].task, "none"} /\ items'[i].pool = items[i].pool
       /\ items[i].cand = "blocked" => items'[i].eval = items[i].eval \/ held[i].open]_ScreeningVars

-----------------------------------------------------------------------------
(* The inductive invariant, item by item.                                   *)

(* A job's outcome is of its kind; the one whose transaction is open waits. *)
ItemJobOK(i) ==
  /\ \A k \in Kinds :
       LET j == job[i][k]
       IN /\ j.st = "running" <=> j.pc # "none"
          /\ j.st = "queued" => j.n < MaxTry
          /\ j.pc = "settle" => j.out # "none"
          /\ j.out \notin IF k = "llm" THEN {"recoverable", "permanent"} ELSE {"technical"}
  /\ held[i].open =>
       /\ held[i].out \notin IF held[i].kind \in {"llm", "late"} THEN {"none", "recoverable", "permanent", "infected"}
                             ELSE {"none", "technical"}
       /\ held[i].kind # "late" => job[i][held[i].kind].st = "running" /\ job[i][held[i].kind].pc = "commit"

(* The object a row names is there.                                         *)
Named(r, os) == r.st # "absent" /\ r.scan # "rejected" => r.key \in os

FileOK(i) ==
  LET pc == job[i]["parse"].pc
  IN /\ items[i].st = "absent" => /\ items[i] = NoItemRow /\ objs[i] \subseteq {"quarantine"} /\ ~held[i].open /\ late[i] = 0
                               /\ job[i] = [k \in Kinds |-> NoJob] /\ fin[i] = [g \in Gens |-> "none"]
     /\ Named(items[i], objs[i])
     /\ pc = "copied" => "clean" \in objs[i]
     /\ pc = "switched" => items[i].key = "clean"
     /\ pc = "infected" => items[i].scan = "rejected"
     /\ held[i].open =>
          /\ Named(held[i].old, objs[i]) /\ held[i].old.key = items[i].key /\ held[i].old.st # "absent"
          /\ held[i].kind # "parse" => held[i].old.scan = items[i].scan
          /\ held[i].out = "infected" => held[i].kind = "parse" /\ items[i].scan = "rejected"

(* The parse job is not about to end without having moved the item.         *)
ToParse(i) ==
  LET p == job[i]["parse"] IN Working(p) /\ p.pc # "infected" /\ (p.pc = "settle" => p.out # "done")

DrivenOK(i) ==
  /\ Waiting(items[i]) => ToParse(i)
  /\ held[i].open => /\ Waiting(held[i].old) => ToParse(i)
                     /\ held[i].kind = "parse" => items[i].st \in {"failed", "cancelled"}

(* RouteAgrees of one row; no task before a route or behind an advance that *)
(* may be undone.                                                           *)
RouteOK(r) ==
  /\ r.stage = "deferred" => r.route = "low" /\ r.pool
  /\ r.route \in {"high", "low"} => r.eval # "none"
  /\ r.task = "failed" => r.route = "failed"
  /\ r.stage \in {"none", "new"} \/ r.bulk => r.task = "none"

RouteHolds(i) ==
  /\ RouteOK(items[i])
  /\ held[i].open =>
       /\ RouteOK(held[i].old)
       /\ items[i].stage = "ended" => /\ held[i].old.stage = "ended" /\ held[i].old.route = items[i].route
                                      /\ held[i].old.task = items[i].task /\ held[i].old.pool = items[i].pool

ItemOK(i) == ItemJobOK(i) /\ FileOK(i) /\ DrivenOK(i) /\ RouteHolds(i)

(* A run that has not started has no work, and one without items none to    *)
(* cancel; its counters never bring it back.                                *)
RunOK ==
  /\ run.st = "queued" => \A i \in Item :
       /\ items[i].st \in {"absent", "queued"} /\ ~held[i].open /\ late[i] = 0
       /\ \A k \in Kinds : job[i][k] = NoJob
       /\ \A g \in Gens : fin[i][g] = "none"
  /\ run.st = "queued" /\ run.total = 0 => \A i \in Item : items[i].st = "absent"
  /\ \A i \in Item : held[i].open => held[i].new.st # "queued"

ScreeningInv == ScreeningTypeOK /\ RunOK /\ \A i \in Item : ItemOK(i)

-----------------------------------------------------------------------------
(* What the code does not do.                                               *)

(* A score attempt that is lost leaves its item "scoring", and the next one *)
(* finds it not "parsed" and returns; one that returns while a parse that   *)
(* began again stores its result leaves it "parsed".                        *)
ParsedIsScored ==
  \A i \in Item : LET r == Committed[i] IN r.cand # "blocked" /\ r.st \in {"parsed", "scoring"} => Driven(i)

(* What the README promises of a failed evaluation: that the last attempt   *)
(* fails open.  An item whose evaluation is under way still has a job, a    *)
(* finalizer or a dead letter that will say so.                             *)
EvaluationIsDriven ==
  \A i \in Item :
    LET r == Committed[i] IN r.cand # "blocked" /\ r.llm \in {"queued", "running"} => Driven(i)
=============================================================================
