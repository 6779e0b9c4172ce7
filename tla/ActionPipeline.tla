--------------------------- MODULE ActionPipeline ---------------------------
(***************************************************************************)
(* The life of a bid change on Amazon, from the rules run that proposes it *)
(* to the commit of the worker that applied it:                            *)
(*                                                                         *)
(*   services/rules/engine.py          proposes   (ProposeBatch)           *)
(*   apps/web/lib/approval-decision.ts decides    (Approve, Reject)        *)
(*   services/actions/worker.py        applies    (Fetch .. Commit)        *)
(*   0026_action_retry_dead_letter.sql schedules  (inside Commit)          *)
(*   services/actions/retry.py         re-queues  (ReleaseDue, Replay)     *)
(*                                                                         *)
(* around it people take and return control of entities, change the tenant *)
(* settings and edit bids in Seller Central, and a worker may die.         *)
(*                                                                         *)
(* A worker run is ONE read-committed database transaction: its updates    *)
(* are kept in staged[w] and reach the rows at Commit; a staged row is     *)
(* locked, and another worker that wants to update it waits.  Writes to    *)
(* Amazon (live) take effect at once and are not undone by a rollback.     *)
(*                                                                         *)
(* Timestamps are abstracted to what the code compares them with:          *)
(* overdue (now > expires_at), approvedAt (only its order counts, 0 is     *)
(* never), sched (next_attempt_at unset / ahead / reached) and age         *)
(* (applied_at unset / today / inside the 72 h window / older).  Only      *)
(* keyword and target bids are modelled: the capability registry lets      *)
(* nothing else be approved.  No entity_change_signal is modelled: no code *)
(* outside the tests records one.                                          *)
(***************************************************************************)
EXTENDS Naturals, FiniteSets

CONSTANTS Actions,      \* row identifiers of table action
          Entities,     \* keywords and targets
          EntityOf,     \* the entity each row is about
          Values,       \* bids
          Workers,      \* action worker processes of one tenant
          LiveWorkers,  \* those started with --live-ads; the others dry-run
          None,         \* no action
          MaxRetries,   \* action.max_retry_attempts
          DailyLimit,   \* tenant_settings.max_changes_per_day
          MaxReplays,   \* bound: dead-letter replays per action
          MaxEvents     \* bound: outside events (see OutsideEvent)

ASSUME PipelineAssumption ==
    /\ EntityOf \in [Actions -> Entities]
    /\ IsFiniteSet(Actions)
    /\ None \notin Actions
    /\ LiveWorkers \subseteq Workers
    /\ MaxRetries \in Nat
    /\ DailyLimit \in Nat
    /\ MaxReplays \in Nat
    /\ MaxEvents \in Nat

VARIABLES
    \* columns of table action
    status, base, target, overdue, approvedAt, retries, sched, dead, replays, age,
    \* Amazon, table tenant_settings, entity_automation_control
    live, cfg, held,
    \* how the last rules run and the last retry release ended
    ruleRun,
    \* the workers: program counter, batch still to do, survivors of the
    \* phase, the action in hand, whether the live read differed from its
    \* baseline, how its provider call ended, uncommitted row updates, and
    \* whether the run began on the current calendar day
    pc, todo, elig, cur, drifted, out, staged, ranToday,
    \* outside events so far
    events,
    \* history: automatic releases per action; actions whose call returned
    \* without an error, whose call was made since their approval (unless the
    \* run that made it was lost); entities held since the run began
    released, answered, sent, standing

rowVars    == <<status, base, target, overdue, approvedAt, retries, sched, dead, replays, age>>
worldVars  == <<live, cfg, held, events>>
workerVars == <<pc, todo, elig, cur, drifted, out, staged, ranToday, standing>>
callVars   == <<answered, sent>>
vars == <<rowVars, worldVars, ruleRun, workerVars, released, callVars>>

-----------------------------------------------------------------------------
(* Rows *)

RowStatus == {"none", "pending", "approved", "applied", "rejected", "failed"}

ActiveStatus == {"pending", "approved"}

\* How an update statement of the worker leaves a row: untouched, applied, or
\* failed with an error that classify_action_failure puts in this class.  The
\* classes that are never retried are one: "permanent".
FailureClass == {"drift", "transient", "permanent"}
Result == FailureClass \cup {"untouched", "applied"}

\* An exception or guardrail text may match any of the regular expressions;
\* only a text that starts with "drift:" is a drift.
ErrorClass == FailureClass \ {"drift"}

SameEntity(a, b) == EntityOf[a] = EntityOf[b]

\* uq_action_one_active_entity_change would refuse a second active row
ActiveRivals(a) ==
    {b \in Actions : b # a /\ SameEntity(a, b) /\ status[b] \in ActiveStatus}

\* no open transaction has updated the row
Unlocked(a) == \A w \in Workers : staged[w][a] = "untouched"

\* v_last_applied_action inside cooldown_days
InCooldown(e) ==
    \E b \in Actions : EntityOf[b] = e /\ status[b] = "applied" /\ age[b] \in {"today", "window"}

\* v_changes_today.applied_today
AppliedToday == Cardinality({a \in Actions : status[a] = "applied" /\ age[a] = "today"})

Init ==
    /\ status = [a \in Actions |-> "none"]
    /\ base \in [Actions -> Values]
    /\ target \in [Actions -> Values]
    /\ overdue = [a \in Actions |-> FALSE]
    /\ approvedAt = [a \in Actions |-> 0]
    /\ retries = [a \in Actions |-> 0]
    /\ sched = [a \in Actions |-> "unset"]
    /\ dead = [a \in Actions |-> FALSE]
    /\ replays = [a \in Actions |-> 0]
    /\ age = [a \in Actions |-> "unset"]
    /\ live \in [Entities -> Values]
    /\ cfg \in {"dry", "live"}
    /\ held = [e \in Entities |-> FALSE]
    /\ ruleRun = "ok"
    /\ pc = [w \in Workers |-> "idle"]
    /\ todo = [w \in Workers |-> {}]
    /\ elig = [w \in Workers |-> {}]
    /\ cur = [w \in Workers |-> None]
    /\ drifted = [w \in Workers |-> FALSE]
    /\ out = [w \in Workers |-> "ok"]
    /\ staged = [w \in Workers |-> [a \in Actions |-> "untouched"]]
    /\ ranToday = [w \in Workers |-> FALSE]
    /\ events = 0
    /\ released = [a \in Actions |-> 0]
    /\ answered = {}
    /\ sent = {}
    /\ standing = [w \in Workers |-> {}]

-----------------------------------------------------------------------------
(* Rules run: one transaction inserts a proposal for every matched entity   *)
(* that no guardrail blocks.  P are the rows it would insert: at most one   *)
(* per entity (the claimed set).  base and target of a fresh row are what   *)
(* Init gave it: the mart may lag behind Amazon by any amount.              *)

Proposable(P) ==
    /\ cfg # "off"
    /\ AppliedToday < DailyLimit
    /\ P # {}
    /\ \A a \in P : /\ status[a] = "none"
                    /\ ~held[EntityOf[a]]
                    /\ ~InCooldown(EntityOf[a])
    /\ \A a, b \in P : SameEntity(a, b) => a = b

ProposeBatch(P) ==
    /\ Proposable(P)
    /\ \A a \in P : ActiveRivals(a) = {}
    /\ status' = [a \in Actions |-> IF a \in P THEN "pending" ELSE status[a]]
    /\ ruleRun' = "ok"
    /\ UNCHANGED <<base, target, overdue, approvedAt, retries, sched, dead, replays, age>>
    /\ UNCHANGED <<worldVars, workerVars, released, callVars>>

\* "on conflict (tenant_id,idempotency_key)" does not name the partial index,
\* so its violation is an exception: the transaction, with every other
\* proposal of the run, is rolled back.  (The insert waits for a rival row
\* that a worker is updating.)
ProposeRaises(P) ==
    /\ Proposable(P)
    /\ \E a \in P : \E b \in ActiveRivals(a) : Unlocked(b)
    /\ ruleRun' = "raised"
    /\ UNCHANGED <<rowVars, worldVars, workerVars, released, callVars>>

-----------------------------------------------------------------------------
(* Decision by an owner or admin *)

\* detect_action_collision: another active row, or a change applied within 72 h
Collision(a) ==
    \/ ActiveRivals(a) # {}
    \/ \E b \in Actions : /\ b # a /\ SameEntity(a, b)
                          /\ status[b] = "applied" /\ age[b] \in {"today", "window"}

\* the update's where clause; it waits for a row that a worker is updating
Decidable(a) == status[a] = "pending" /\ ~overdue[a] /\ Unlocked(a)

\* a becomes the most recently approved row
ApprovedLast(a) ==
    [b \in Actions |-> IF b = a THEN Cardinality({c \in Actions : approvedAt[c] > 0} \cup {a})
                      ELSE IF 0 < approvedAt[a] /\ approvedAt[a] < approvedAt[b]
                      THEN approvedAt[b] - 1 ELSE approvedAt[b]]

Approve(a) ==
    /\ Decidable(a)
    /\ ~Collision(a)
    /\ status' = [status EXCEPT ![a] = "approved"]
    /\ approvedAt' = ApprovedLast(a)
    /\ sent' = sent \ {a}
    /\ UNCHANGED <<base, target, overdue, retries, sched, dead, replays, age>>
    /\ UNCHANGED <<worldVars, ruleRun, workerVars, released, answered>>

Reject(a) ==
    /\ Decidable(a)
    /\ status' = [status EXCEPT ![a] = "rejected"]
    /\ UNCHANGED <<base, target, overdue, approvedAt, retries, sched, dead, replays, age>>
    /\ UNCHANGED <<worldVars, ruleRun, workerVars, released, callVars>>

-----------------------------------------------------------------------------
(* Retry worker and dead-letter replay *)

\* the rows release_due_retries selects "for update skip locked"
DueRows == {a \in Actions : /\ status[a] = "failed" /\ sched[a] = "due" /\ ~dead[a]
                            /\ ActiveRivals(a) = {}
                            /\ Unlocked(a)}

\* Mutant: the release forgets to clear next_attempt_at
ReleaseDue_KeepsSchedule ==
    /\ DueRows # {}
    /\ \A a, b \in DueRows : SameEntity(a, b) => a = b
    /\ status' = [a \in Actions |-> IF a \in DueRows THEN "pending" ELSE status[a]]
    /\ released' = [a \in Actions |-> IF a \in DueRows THEN released[a] + 1 ELSE released[a]]
    /\ UNCHANGED <<base, target, overdue, approvedAt, retries, sched, dead, replays, age>>
    /\ UNCHANGED <<worldVars, ruleRun, workerVars, callVars>>

\* One transaction for all of them.  Two due rows of one entity break the
\* partial unique index, so then the whole release is rolled back and nothing
\* changes: the second conjunct.
ReleaseDue ==
    /\ DueRows # {}
    /\ \A a, b \in DueRows : SameEntity(a, b) => a = b
    /\ status' = [a \in Actions |-> IF a \in DueRows THEN "pending" ELSE status[a]]
    /\ sched' = [a \in Actions |-> IF a \in DueRows THEN "unset" ELSE sched[a]]
    /\ released' = [a \in Actions |-> IF a \in DueRows THEN released[a] + 1 ELSE released[a]]
    /\ UNCHANGED <<base, target, overdue, approvedAt, retries, dead, replays, age>>
    /\ UNCHANGED <<worldVars, ruleRun, workerVars, callVars>>

\* replay_dead_letter by an owner or admin; with another active row of the
\* entity the index refuses the update and nothing changes.
Replay(a) ==
    /\ status[a] = "failed" /\ dead[a]
    /\ Unlocked(a)
    /\ ActiveRivals(a) = {}
    /\ replays[a] < MaxReplays
    /\ status' = [status EXCEPT ![a] = "pending"]
    /\ sched' = [sched EXCEPT ![a] = "unset"]
    /\ dead' = [dead EXCEPT ![a] = FALSE]
    /\ replays' = [replays EXCEPT ![a] = @ + 1]
    /\ UNCHANGED <<base, target, overdue, approvedAt, retries, age>>
    /\ UNCHANGED <<worldVars, ruleRun, workerVars, released, callVars>>

-----------------------------------------------------------------------------
(* Action worker, run_once.  Phases: control -> [refuse | guard -> load] -> *)
(* apply (read, write, persist per action) -> commit.                       *)

\* Mutant: the fetch takes every open row
Approved_Open == {a \in Actions : status[a] \in ActiveStatus}

Approved == {a \in Actions : status[a] = "approved"}

\* fetch_approved takes no lock; limit (25) exceeds the model's rows
Fetch(w) ==
    /\ pc[w] = "idle"
    /\ Approved # {}
    /\ pc' = [pc EXCEPT ![w] = "control"]
    /\ todo' = [todo EXCEPT ![w] = Approved]
    /\ ranToday' = [ranToday EXCEPT ![w] = TRUE]
    /\ standing' = [standing EXCEPT ![w] = {e \in Entities : held[e]}]
    /\ UNCHANGED <<rowVars, worldVars, ruleRun, elig, cur, drifted, out, staged, released, callVars>>

\* a run that finds nothing approved commits an empty pipeline_run
EmptyRun(w) ==
    /\ pc[w] = "idle"
    /\ Approved = {}
    /\ UNCHANGED vars

\* The loops take the batch in the order of fetch_approved
InTurn(w, a) == a \in todo[w] /\ \A b \in todo[w] : approvedAt[a] <= approvedAt[b]

\* The row is free for w to update
Lockable(w, a) == \A v \in Workers \ {w} : staged[v][a] = "untouched"

\* persist_apply_result: update ... where tenant_id and id, whatever the
\* committed status has become
Stage(w, a, r) ==
    /\ Lockable(w, a)
    /\ staged' = [staged EXCEPT ![w][a] = r]

\* one iteration of a validate_* loop: keep the action, or block_live_actions
Keep(w, a) ==
    /\ elig' = [elig EXCEPT ![w] = @ \cup {a}]
    /\ todo' = [todo EXCEPT ![w] = @ \ {a}]
    /\ UNCHANGED staged

\* Mutant: a blocked action is dropped from the batch but not persisted
Block_NotPersisted(w, a) ==
    /\ todo' = [todo EXCEPT ![w] = @ \ {a}]
    /\ UNCHANGED <<elig, staged>>

Block(w, a) ==
    /\ \E r \in ErrorClass : Stage(w, a, r)
    /\ todo' = [todo EXCEPT ![w] = @ \ {a}]
    /\ UNCHANGED elig

PhaseUnchanged == UNCHANGED <<rowVars, worldVars, ruleRun, pc, cur, drifted, out,
                              ranToday, standing, released, callVars>>

\* Mutant: ownership is not rechecked
CheckControl_Skipped(w, a) ==
    /\ pc[w] = "control" /\ InTurn(w, a)
    /\ Keep(w, a)
    /\ PhaseUnchanged

\* validate_control_batch
CheckControl(w, a) ==
    /\ pc[w] = "control" /\ InTurn(w, a)
    /\ IF held[EntityOf[a]] THEN Block(w, a) ELSE Keep(w, a)
    /\ PhaseUnchanged

\* block_live_actions for a tenant without live consent
Refuse(w, a) ==
    /\ pc[w] = "refuse" /\ InTurn(w, a)
    /\ Block(w, a)
    /\ PhaseUnchanged

\* Mutant: projected_changes is not added
WithinLimits_NotProjected(w, a) ==
    /\ AppliedToday < DailyLimit
    /\ ~InCooldown(EntityOf[a])

\* validate_apply_guardrails: committed changes of today plus the ones this
\* run has already let through, the cooldown, and the guards that depend on
\* evidence (freshness, thin data, clamp, bounds), which may always block
WithinLimits(w, a) ==
    /\ AppliedToday + Cardinality(elig[w]) < DailyLimit
    /\ ~InCooldown(EntityOf[a])

CheckGuardrails(w, a) ==
    /\ pc[w] = "guard" /\ InTurn(w, a)
    /\ \/ WithinLimits(w, a) /\ Keep(w, a)
       \/ Block(w, a)
    /\ PhaseUnchanged

\* the phase is over: survivors become the work list of phase p
Enter(w, p, work) ==
    /\ pc' = [pc EXCEPT ![w] = p]
    /\ todo' = [todo EXCEPT ![w] = work]
    /\ elig' = [elig EXCEPT ![w] = {}]
    /\ UNCHANGED <<rowVars, worldVars, ruleRun, cur, drifted, out, staged, ranToday,
                   standing, released, callVars>>

\* require_current_live_consent reads the settings once, here
ControlDone(w) ==
    /\ pc[w] = "control" /\ todo[w] = {}
    /\ \/ elig[w] = {} /\ Enter(w, "commit", {})
       \/ elig[w] # {} /\ w \notin LiveWorkers /\ Enter(w, "apply", elig[w])
       \/ elig[w] # {} /\ w \in LiveWorkers /\ cfg = "live" /\ Enter(w, "guard", elig[w])
       \/ elig[w] # {} /\ w \in LiveWorkers /\ cfg # "live" /\ Enter(w, "refuse", elig[w])

RefuseDone(w) ==
    /\ pc[w] = "refuse" /\ todo[w] = {}
    /\ Enter(w, "commit", {})

\* validate_live_batch is over; load_ads_client succeeds
GuardDone(w) ==
    /\ pc[w] = "guard" /\ todo[w] = {}
    /\ \/ elig[w] = {} /\ Enter(w, "commit", {})
       \/ elig[w] # {} /\ Enter(w, "apply", elig[w])

\* load_ads_client raises RuntimeError: the survivors stay approved
LoadFails(w) ==
    /\ pc[w] = "guard" /\ todo[w] = {} /\ elig[w] # {}
    /\ events < MaxEvents
    /\ events' = events + 1
    /\ pc' = [pc EXCEPT ![w] = "commit"]
    /\ elig' = [elig EXCEPT ![w] = {}]
    /\ UNCHANGED <<rowVars, live, cfg, held, ruleRun, todo, cur, drifted, out, staged,
                   ranToday, standing, released, callVars>>

\* apply_action, first call: client.read_before_value
Read(w, a) ==
    /\ pc[w] = "apply" /\ InTurn(w, a) /\ w \in LiveWorkers
    /\ cur' = [cur EXCEPT ![w] = a]
    /\ drifted' = [drifted EXCEPT ![w] = live[EntityOf[a]] # base[a]]
    /\ \/ pc' = [pc EXCEPT ![w] = "write"] /\ UNCHANGED out
       \/ \E r \in ErrorClass : /\ pc' = [pc EXCEPT ![w] = "persist"]
                                /\ out' = [out EXCEPT ![w] = r]
    /\ UNCHANGED <<rowVars, worldVars, ruleRun, todo, elig, staged, ranToday, standing,
                   released, callVars>>

\* second call: client.apply.  It raises, before or after the bid landed, or
\* it returns: _call takes every 2xx for a success and nobody reads the body,
\* so a multi-status answer that refuses this bid returns like one that
\* accepts it.
Write(w) ==
    /\ pc[w] = "write"
    /\ pc' = [pc EXCEPT ![w] = "persist"]
    /\ LET a == cur[w] IN
       /\ live' \in {live, [live EXCEPT ![EntityOf[a]] = target[a]]}
       /\ \/ answered' = answered \cup {a} /\ UNCHANGED out
          \/ UNCHANGED answered /\ \E r \in ErrorClass : out' = [out EXCEPT ![w] = r]
       /\ sent' = sent \cup {a}
    /\ UNCHANGED <<rowVars, cfg, held, events, ruleRun, todo, elig, cur, drifted, staged,
                   ranToday, standing, released>>

\* Mutant: a provider error counts as success
ApplyResult_IgnoresError(w) == IF drifted[w] THEN "drift" ELSE "applied"

\* Mutant: a row whose call failed is left as it is
ApplyResult_ErrorNotRecorded(w) ==
    IF out[w] # "ok" THEN "untouched" ELSE IF drifted[w] THEN "drift" ELSE "applied"

\* state_machine.apply, after both calls returned
ApplyResult(w) ==
    IF out[w] # "ok" THEN out[w] ELSE IF drifted[w] THEN "drift" ELSE "applied"

Persist(w) ==
    /\ pc[w] = "persist"
    /\ Stage(w, cur[w], ApplyResult(w))
    /\ pc' = [pc EXCEPT ![w] = "apply"]
    /\ todo' = [todo EXCEPT ![w] = @ \ {cur[w]}]
    /\ cur' = [cur EXCEPT ![w] = None]
    /\ out' = [out EXCEPT ![w] = "ok"]
    /\ drifted' = [drifted EXCEPT ![w] = FALSE]
    /\ UNCHANGED <<rowVars, worldVars, ruleRun, elig, ranToday, standing, released, callVars>>

\* DryRunActionClient: both calls succeed without touching Amazon
DryApply(w, a) ==
    /\ pc[w] = "apply" /\ InTurn(w, a) /\ w \notin LiveWorkers
    /\ Stage(w, a, "applied")
    /\ todo' = [todo EXCEPT ![w] = @ \ {a}]
    /\ UNCHANGED elig
    /\ PhaseUnchanged

ApplyDone(w) ==
    /\ pc[w] = "apply" /\ todo[w] = {}
    /\ Enter(w, "commit", {})

\* end of the transaction, by commit or by rollback
EndRun(w) ==
    /\ pc' = [pc EXCEPT ![w] = "idle"]
    /\ todo' = [todo EXCEPT ![w] = {}]
    /\ elig' = [elig EXCEPT ![w] = {}]
    /\ cur' = [cur EXCEPT ![w] = None]
    /\ drifted' = [drifted EXCEPT ![w] = FALSE]
    /\ out' = [out EXCEPT ![w] = "ok"]
    /\ staged' = [staged EXCEPT ![w] = [a \in Actions |-> "untouched"]]
    /\ ranToday' = [ranToday EXCEPT ![w] = FALSE]
    /\ standing' = [standing EXCEPT ![w] = {}]

\* Mutant: one retry too many
WillRetry_OffByOne(w, a) == staged[w][a] = "transient" /\ retries[a] <= MaxRetries

\* trigger schedule_action_failure_retry fires on the edge into failed
NewFailure(w, a) == staged[w][a] \in FailureClass /\ status[a] # "failed"
WillRetry(w, a)  == staged[w][a] = "transient" /\ retries[a] + 1 <= MaxRetries

StatusAfter(r, s) ==
    IF r = "untouched" THEN s ELSE IF r = "applied" THEN "applied" ELSE "failed"

\* applied_at is the start of the run, and null on a failed row
AgeAfter(r, g, today) ==
    IF r = "untouched" THEN g
    ELSE IF r \in FailureClass THEN "unset"
    ELSE IF today THEN "today" ELSE "window"

Commit(w) ==
    /\ pc[w] = "commit"
    /\ LET r == staged[w] IN
       /\ status' = [a \in Actions |-> StatusAfter(r[a], status[a])]
       /\ age' = [a \in Actions |-> AgeAfter(r[a], age[a], ranToday[w])]
       /\ retries' = [a \in Actions |-> IF NewFailure(w, a) THEN retries[a] + 1 ELSE retries[a]]
       /\ sched' = [a \in Actions |-> IF NewFailure(w, a)
                                      THEN IF WillRetry(w, a) THEN "ahead" ELSE "unset"
                                      ELSE sched[a]]
       /\ dead' = [a \in Actions |-> IF NewFailure(w, a) THEN ~WillRetry(w, a) ELSE dead[a]]
    /\ EndRun(w)
    /\ UNCHANGED <<base, target, overdue, approvedAt, replays, worldVars, ruleRun, released, callVars>>

\* the rows whose call is known to the transaction of the run only
InDoubt(w) == {a \in Actions : a = cur[w] \/ staged[w][a] # "untouched"}

\* any exception outside apply_action, or the death of the process
Crash(w) ==
    /\ pc[w] # "idle"
    /\ events < MaxEvents
    /\ events' = events + 1
    /\ EndRun(w)
    /\ sent' = sent \ InDoubt(w)
    /\ UNCHANGED <<rowVars, live, cfg, held, ruleRun, released, answered>>

\* the row w is about to update, or may be, and the worker it waits for
Wants(w) ==
    {a \in Actions : \/ pc[w] = "persist" /\ a = cur[w]
                     \/ pc[w] = "control" /\ InTurn(w, a) /\ held[EntityOf[a]]
                     \/ pc[w] \in {"refuse", "guard"} /\ InTurn(w, a)
                     \/ pc[w] = "apply" /\ w \notin LiveWorkers /\ InTurn(w, a)}
WaitsFor(w, v) == \E a \in Wants(w) : staged[v][a] # "untouched"

\* PostgreSQL aborts one of two transactions that wait for each other
DeadlockVictim(w) ==
    /\ \E v \in Workers \ {w} : WaitsFor(w, v) /\ WaitsFor(v, w)
    /\ EndRun(w)
    /\ sent' = sent \ InDoubt(w)
    /\ UNCHANGED <<rowVars, worldVars, ruleRun, released, answered>>

-----------------------------------------------------------------------------
(* Time *)

\* midnight
NewDay ==
    /\ \E a \in Actions : age[a] = "today"
    /\ age' = [a \in Actions |-> IF age[a] = "today" THEN "window" ELSE age[a]]
    /\ ranToday' = [w \in Workers |-> FALSE]
    /\ UNCHANGED <<status, base, target, overdue, approvedAt, retries, sched, dead, replays>>
    /\ UNCHANGED <<worldVars, ruleRun, pc, todo, elig, cur, drifted, out, staged, standing,
                   released, callVars>>

\* 72 hours after applied_at
WindowEnds(a) ==
    /\ age[a] = "window"
    /\ age' = [age EXCEPT ![a] = "old"]
    /\ UNCHANGED <<status, base, target, overdue, approvedAt, retries, sched, dead, replays>>
    /\ UNCHANGED <<worldVars, ruleRun, workerVars, released, callVars>>

\* 48 hours after requested_at
Lapse(a) ==
    /\ status[a] = "pending" /\ ~overdue[a]
    /\ overdue' = [overdue EXCEPT ![a] = TRUE]
    /\ UNCHANGED <<status, base, target, approvedAt, retries, sched, dead, replays, age>>
    /\ UNCHANGED <<worldVars, ruleRun, workerVars, released, callVars>>

\* next_attempt_at
BackoffEnds(a) ==
    /\ sched[a] = "ahead"
    /\ sched' = [sched EXCEPT ![a] = "due"]
    /\ UNCHANGED <<status, base, target, overdue, approvedAt, retries, dead, replays, age>>
    /\ UNCHANGED <<worldVars, ruleRun, workerVars, released, callVars>>

-----------------------------------------------------------------------------
(* People.  Every event counts against MaxEvents, so do LoadFails, Crash.   *)

OutsideEvent ==
    /\ events < MaxEvents
    /\ events' = events + 1
    /\ UNCHANGED <<rowVars, ruleRun, pc, todo, elig, cur, drifted, out, staged, ranToday,
                   released, callVars>>

\* a human changes the bid in Seller Central (external)
SellerEdit(e, v) ==
    /\ OutsideEvent
    /\ live[e] # v
    /\ live' = [live EXCEPT ![e] = v]
    /\ UNCHANGED <<cfg, held, standing>>

TakeControl(e) ==
    /\ OutsideEvent
    /\ ~held[e]
    /\ held' = [held EXCEPT ![e] = TRUE]
    /\ UNCHANGED <<live, cfg, standing>>

ResumeAutomation(e) ==
    /\ OutsideEvent
    /\ held[e]
    /\ held' = [held EXCEPT ![e] = FALSE]
    /\ standing' = [w \in Workers |-> standing[w] \ {e}]
    /\ UNCHANGED <<live, cfg>>

\* tenant_settings: off (kill switch), dry (enabled, dry_run), live
SaveSettings(mode) ==
    /\ OutsideEvent
    /\ cfg # mode
    /\ cfg' = mode
    /\ UNCHANGED <<live, held, standing>>

-----------------------------------------------------------------------------
WorkerStep(w) ==
    \/ Fetch(w) \/ EmptyRun(w)
    \/ \E a \in Actions : \/ CheckControl(w, a) \/ Refuse(w, a) \/ CheckGuardrails(w, a)
                          \/ Read(w, a) \/ DryApply(w, a)
    \/ ControlDone(w) \/ RefuseDone(w) \/ GuardDone(w) \/ ApplyDone(w)
    \/ Write(w) \/ Persist(w) \/ Commit(w)

Disturb(w) == LoadFails(w) \/ Crash(w) \/ DeadlockVictim(w)

Time == NewDay \/ \E a \in Actions : WindowEnds(a) \/ Lapse(a) \/ BackoffEnds(a)

Next ==
    \/ \E P \in SUBSET Actions : ProposeBatch(P) \/ ProposeRaises(P)
    \/ \E a \in Actions : Approve(a) \/ Reject(a) \/ Replay(a)
    \/ ReleaseDue
    \/ \E w \in Workers : WorkerStep(w) \/ Disturb(w)
    \/ Time
    \/ \E e \in Entities : TakeControl(e) \/ ResumeAutomation(e)
    \/ \E e \in Entities, v \in Values : SellerEdit(e, v)
    \/ \E m \in {"off", "dry", "live"} : SaveSettings(m)

Spec == Init /\ [][Next]_vars

\* The schedulers keep starting the workers and a started one keeps running;
\* time passes.  Nothing is assumed of people.
FairSpec ==
    /\ Spec
    /\ \A w \in Workers : WF_vars(WorkerStep(w))
    /\ WF_vars(ReleaseDue)
    /\ WF_vars(Time)

-----------------------------------------------------------------------------
(* Properties *)

\* Every variable keeps its type: the columns, the settings and the workers.
TypeOK ==
    /\ status \in [Actions -> RowStatus]
    /\ base \in [Actions -> Values]
    /\ target \in [Actions -> Values]
    /\ overdue \in [Actions -> BOOLEAN]
    /\ approvedAt \in [Actions -> Nat]
    /\ retries \in [Actions -> Nat]
    /\ sched \in [Actions -> {"unset", "ahead", "due"}]
    /\ dead \in [Actions -> BOOLEAN]
    /\ replays \in [Actions -> Nat]
    /\ age \in [Actions -> {"unset", "today", "window", "old"}]
    /\ live \in [Entities -> Values]
    /\ cfg \in {"off", "dry", "live"}
    /\ held \in [Entities -> BOOLEAN]
    /\ ruleRun \in {"ok", "raised"}
    /\ pc \in [Workers -> {"idle", "control", "refuse", "guard", "apply", "write",
                           "persist", "commit"}]
    /\ todo \in [Workers -> SUBSET Actions]
    /\ elig \in [Workers -> SUBSET Actions]
    /\ cur \in [Workers -> Actions \cup {None}]
    /\ drifted \in [Workers -> BOOLEAN]
    /\ out \in [Workers -> {"ok"} \cup ErrorClass]
    /\ staged \in [Workers -> [Actions -> Result]]
    /\ ranToday \in [Workers -> BOOLEAN]
    /\ events \in Nat
    /\ released \in [Actions -> Nat]
    /\ answered \in SUBSET Actions
    /\ sent \in SUBSET Actions
    /\ standing \in [Workers -> SUBSET Entities]

\* The automatic retries of an action are bounded by max_retry_attempts over
\* its whole life, replays by hand included (retry_count is never reset).
RetryBudget == \A a \in Actions : released[a] <= MaxRetries

\* No failure is lost and none is handled twice: a failed row is either dead
\* lettered or has a retry scheduled, never both; no other row has either.
FailureAccounted ==
    \A a \in Actions :
        IF status[a] = "failed" THEN dead[a] <=> sched[a] = "unset"
                                ELSE ~dead[a] /\ sched[a] = "unset"

\* A row that says applied had a provider call that returned without an error,
\* whatever crashed, raised or raced on the way (live workers only).  That the
\* bid landed is more than the code knows: AppliedWasWritten below.
AppliedWasAnswered == \A a \in Actions : status[a] = "applied" => a \in answered

\* update_bid is called once for an approval: a call that raised is not made
\* again before somebody has approved the row again, and a second call for the
\* same approval only follows a run that was lost between its call and its
\* commit (one worker; sent forgets the calls of lost runs).
ProviderCall(w) == pc[w] = "write" /\ pc'[w] = "persist"
SentOncePerApproval == [][\A w \in Workers : ProviderCall(w) => cur[w] \notin sent]_vars

\* A human who took control before a run started and did not let go is
\* respected: that run, live or dry, neither calls Amazon for the entity nor
\* records a change of it.
StandingControlRespected ==
    \A w \in Workers, a \in Actions :
        \/ pc[w] = "write" /\ cur[w] = a
        \/ staged[w][a] = "applied"
        => EntityOf[a] \notin standing[w]

\* The tenant's max_changes_per_day holds over batches: rows committed today
\* plus the ones a run let through never exceed it.
DailyLimitRespected == AppliedToday <= DailyLimit

\* Amazon is only ever called for a row that is approved at that moment.
OnlyApprovedIsWritten ==
    \A w \in Workers : pc[w] = "write" => status[cur[w]] = "approved"

\* The pipeline implements the state machine: every committed change of a
\* status is an edge of ALLOWED.
SM == INSTANCE ActionStateMachine WITH Actions <- Actions, status <- status
StateMachine == SM!Spec

\* An approved action is eventually resolved by the worker, once crashes and
\* credential failures stop.
ApprovedIsResolved ==
    \A a \in Actions : status[a] = "approved" ~> status[a] # "approved"

-----------------------------------------------------------------------------
(* What comments and documents say, and the code does not do *)

\* README: on drift the action fails "rather than overwriting a human's
\* change": a bid only replaces the baseline it was computed from.
DriftNeverOverwrites ==
    [][\A w \in Workers : ProviderCall(w) /\ live' # live
            => live[EntityOf[cur[w]]] = base[cur[w]]]_vars

\* README: "approved actions apply safely": what the row says was applied is
\* what Amazon has taken over.
AppliedWasWritten ==
    [][\A w \in Workers : ProviderCall(w) /\ out'[w] = "ok" /\ ~drifted[w]
            => live'[EntityOf[cur[w]]] = target[cur[w]]]_vars

\* retry.py: due rows are returned "to reviewable pending state".  A retry that
\* is due while nothing else claims its entity does not stay so.
DueUncontested(a) == status[a] = "failed" /\ sched[a] = "due" /\ ActiveRivals(a) = {}
DueRetryReturns == \A a \in Actions : DueUncontested(a) ~> ~DueUncontested(a)

\* Migration 0025: concurrent rules runs keep the first proposal "without an
\* exception".
RulesRunNeverRaises == ruleRun # "raised"

\* state_machine: "no state skipping"; terminal and applied rows only move
\* along ALLOWED, with several workers running.
NoStateSkipped == [][SM!Next]_status
=============================================================================
