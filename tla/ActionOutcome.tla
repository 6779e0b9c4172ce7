--------------------------- MODULE ActionOutcome ---------------------------
(***************************************************************************)
(* What becomes of an applied action: multi-horizon verification, the T+7  *)
(* verdict, rollback, and the execution ledger both write to:              *)
(*                                                                         *)
(*   services/actions/verification.py      run_once and what it calls      *)
(*   services/actions/lifecycle_audit.py   rollback_action                 *)
(*   services/actions/audit.py             append_event                    *)
(*                                                                         *)
(* Days are numbers; the mart holds the settled rows of an action's entity *)
(* by day, known up to `through`.  A verification run and a rollback are   *)
(* one read-committed transaction each: their writes are staged until they *)
(* commit, a row another transaction has written is waited for, and what   *)
(* was read before the wait is not read again.  The two windows of one     *)
(* judgement are read in one step.  rollback_action is called by tests     *)
(* only; its caller is assumed to have read the action just before.        *)
(***************************************************************************)
EXTENDS Integers, Sequences, SequencesExt

CONSTANTS
    Actions,
    AppliedOn,      \* date of applied_at, distinct by action
    Supported,      \* actions whose type ACTION_METRICS knows
    Wirings,        \* choices of the actions whose entity type is known
    Horizons,       \* HORIZONS
    WindowDays,     \* WINDOW_DAYS
    Histories,      \* what the mart may hold: functions of the entity and day
    Restates,       \* days back a mart refresh may still change; 0: none
    Limit,          \* rows a run fetches
    Verifiers,
    Operators,      \* processes calling rollback_action
    Undone,         \* actions they may be asked to roll back
    MaxDay,         \* bound on time
    MaxFaults       \* bound: transactions aborted, rollbacks refused

Days == 0 .. MaxDay
NoRow == [cost |-> 0, sales |-> 0, clicks |-> 0, orders |-> 0, seen |-> 0]
Window == [cost : Nat, sales : Nat, clicks : Nat, orders : Nat, seen : 0 .. 1]

ASSUME OutcomeAssumption ==
    /\ Actions # {} /\ Supported \subseteq Actions /\ Wirings \subseteq SUBSET Actions
    /\ Undone \subseteq Actions
    /\ AppliedOn \in [Actions -> Days]
    /\ \A a, b \in Actions : a # b => AppliedOn[a] # AppliedOn[b]
    /\ Horizons \subseteq Nat \ {0} /\ WindowDays \in Horizons
    /\ Histories \subseteq [Actions -> [Days -> Window]]
    /\ {Restates, Limit, MaxDay, MaxFaults} \subseteq Nat
    /\ Verifiers \intersect Operators = {}

VARIABLES
    today, through, mart,
    wired,      \* actions whose entity type performance_window knows
    restated,   \* history: actions whose judged rows the mart has changed since
    action,     \* table action: status and outcome
    snap,       \* table action_verification_snapshot, status "none" if no row
    events,     \* table action_execution_event: action, type and outcome
    live,       \* which value Amazon holds: "after" or "before"
    pc,         \* of every process
    due,        \* verifier: pairs left of its fetch; operator: the action it read
    found,      \* verifier: status and outcome it computed last
    mine,       \* writes of the open transaction
    faults

dbVars   == <<action, snap, events>>
worldVars == <<today, through, mart, wired, restated, live>>
vars == <<worldVars, dbVars, pc, due, found, mine, faults>>

Processes == Verifiers \union Operators
Outcomes == {"improved", "worsened", "neutral", "inconclusive"}
NoWrites == [action |-> <<>>, snap |-> <<>>, events |-> <<>>]
None == [status |-> "none", outcome |-> "none"]

Init ==
    /\ today = Max({AppliedOn[a] : a \in Actions}) + 1 /\ through = today - 2
    /\ mart \in Histories /\ wired \in Wirings /\ restated = {}
    /\ action = [a \in Actions |-> [status |-> "applied", outcome |-> "none"]]
    /\ snap = [a \in Actions |-> [h \in Horizons |-> None]]
    /\ events = {}
    /\ live = [a \in Actions |-> "after"]
    /\ pc = [p \in Processes |-> "idle"]
    /\ due = [p \in Processes |-> {}]
    /\ found = [p \in Processes |-> None]
    /\ mine = [p \in Processes |-> NoWrites]
    /\ faults = 0

-----------------------------------------------------------------------------
(* Windows and the verdict.                                                *)

\* sum of a column over the settled rows of [start, end)
ColumnSum(a, column, start, end) ==
    LET upTo[d \in -1 .. MaxDay] ==
            IF d < start \/ d < 0 THEN 0
            ELSE upTo[d - 1] + (IF d <= through THEN mart[a][d][column] ELSE 0)
    IN  upTo[IF end - 1 < MaxDay THEN end - 1 ELSE MaxDay]

\* keyword_window and its siblings; a day without a row has seen = 0
PerformanceWindow(a, start, end) ==
    [column \in {"cost", "sales", "clicks", "orders", "seen"} |->
        ColumnSum(a, column, start, end)]

Before(a, h) == PerformanceWindow(a, AppliedOn[a] - h, AppliedOn[a])
After(a, h)  == PerformanceWindow(a, AppliedOn[a], AppliedOn[a] + h)

\* _mature: a row for every day of the window, the last one included
Mature(w, days) == w.seen >= days

\* judge; ACoS is cost over sales, compared by cross-multiplication
Judge(b, a) ==
    IF b.clicks < 10 \/ a.clicks < 10 THEN "inconclusive"
    ELSE IF b.sales > 0 /\ a.sales > 0
    THEN IF 10 * a.cost * b.sales <= 9 * b.cost * a.sales THEN "improved"
         ELSE IF 10 * a.cost * b.sales >= 11 * b.cost * a.sales THEN "worsened"
         ELSE "neutral"
    ELSE IF a.orders > b.orders /\ 5 * a.cost <= 6 * b.cost THEN "improved"
    ELSE "inconclusive"

Judgeable(a, h) == Mature(Before(a, h), h) /\ Mature(After(a, h), h)

\* verify_horizon up to its insert
Evidence(a, h) ==
    IF a \notin Supported THEN [status |-> "FAILED", outcome |-> "none"]
    ELSE IF Judgeable(a, h)
    THEN [status |-> "COMPLETE", outcome |-> Judge(Before(a, h), After(a, h))]
    ELSE [status |-> "INSUFFICIENT_DATA", outcome |-> "none"]

-----------------------------------------------------------------------------
(* Transactions.  A staged row is a pair of its key and its new value.     *)

Keys(s) == {s[i][1] : i \in DOMAIN s}
Value(s, k) == s[Max({i \in DOMAIN s : s[i][1] = k})][2]

LockedBy(p, table, k) == k \in Keys(mine[p][table])
Free(p, table, k) == \A q \in Processes \ {p} : ~LockedBy(q, table, k)

\* an update of the action and the event that tells of it
Stage(w, row, event) ==
    [action |-> Append(w.action, row), snap |-> w.snap, events |-> Append(w.events, event)]

\* append_event: on conflict do nothing, on (action, type) here
AppendEvents(old, new) ==
    old \union {e \in new : ~\E o \in old : o[1] = e[1] /\ o[2] = e[2]}

Commit(p) ==
    /\ pc[p] \in {"fetched", "written"} /\ (p \in Verifiers => due[p] = {})
    /\ action' = [a \in Actions |-> IF LockedBy(p, "action", a)
                                    THEN Value(mine[p].action, a) ELSE action[a]]
    /\ snap' = [a \in Actions |-> [h \in Horizons |->
                   IF LockedBy(p, "snap", <<a, h>>)
                   THEN Value(mine[p].snap, <<a, h>>) ELSE snap[a][h]]]
    /\ events' = AppendEvents(events, Range(mine[p].events))
    /\ mine' = [mine EXCEPT ![p] = NoWrites]
    /\ due' = [due EXCEPT ![p] = {}]
    /\ found' = [found EXCEPT ![p] = None]
    /\ pc' = [pc EXCEPT ![p] = "idle"]
    /\ UNCHANGED <<worldVars, faults>>

\* the open transaction of a process is gone
Lost(p) ==
    /\ mine' = [mine EXCEPT ![p] = NoWrites]
    /\ due' = [due EXCEPT ![p] = {}]
    /\ found' = [found EXCEPT ![p] = None]
    /\ pc' = [pc EXCEPT ![p] = "idle"]

\* an exception, a lost connection or a dead process
Abort(p) ==
    /\ pc[p] # "idle" /\ faults < MaxFaults
    /\ faults' = faults + 1
    /\ Lost(p)
    /\ UNCHANGED <<worldVars, dbVars>>

-----------------------------------------------------------------------------
(* The verification run.                                                   *)

\* mutant: a row of any status counts as final evidence
Due_AnyRow ==
    {x \in Actions \X Horizons :
        /\ action[x[1]].status \in {"applied", "verified"}
        /\ AppliedOn[x[1]] + x[2] <= today
        /\ snap[x[1]][x[2]].status = "none"}

Due ==
    {x \in Actions \X Horizons :
        /\ action[x[1]].status \in {"applied", "verified"}
        /\ AppliedOn[x[1]] + x[2] <= today
        /\ snap[x[1]][x[2]].status # "COMPLETE"}

Older(x, y) ==
    AppliedOn[x[1]] < AppliedOn[y[1]] \/ (x[1] = y[1] /\ x[2] < y[2])

\* fetch_due_snapshots: oldest first, at most Limit, with the status as read
FetchDueSnapshots(v) ==
    /\ pc[v] = "idle" /\ Due # {}
    /\ LET first == {x \in Due : Cardinality({y \in Due : Older(y, x)}) < Limit}
       IN  due' = [due EXCEPT ![v] = {[act |-> x[1], days |-> x[2],
                                       status |-> action[x[1]].status] : x \in first}]
    /\ pc' = [pc EXCEPT ![v] = "fetched"]
    /\ UNCHANGED <<worldVars, dbVars, found, mine, faults>>

\* the pair a process is at: the oldest of those it has left
Current(p) == CHOOSE x \in due[p] :
    \A y \in due[p] \ {x} : Older(<<x.act, x.days>>, <<y.act, y.days>>)

\* verify_horizon reads the windows; there are none for some entity types, and
\* performance_window raises: the run and all it has written are lost
Readable(a) == a \in wired \/ a \notin Supported

ReadWindows(v) ==
    /\ pc[v] = "fetched" /\ due[v] # {}
    /\ IF Readable(Current(v).act)
       THEN /\ found' = [found EXCEPT ![v] = Evidence(Current(v).act, Current(v).days)]
            /\ pc' = [pc EXCEPT ![v] = "upsert"]
            /\ UNCHANGED <<due, mine>>
       ELSE Lost(v)
    /\ UNCHANGED <<worldVars, dbVars, faults>>

\* on conflict do update ... where status <> 'COMPLETE'
Upsert(old, new) == IF old.status = "COMPLETE" THEN old ELSE new

\* mutant: the verdict does not wait for the evidence
ToVerdict_Early(pair, ev) == pair.days = WindowDays /\ pair.status = "applied"

\* mutant: an inconclusive result is no verdict
ToVerdict_Conclusive(pair, ev) ==
    /\ ev.status = "COMPLETE" /\ ev.outcome # "inconclusive"
    /\ pair.days = WindowDays /\ pair.status = "applied"

\* run_once: the T+7 pair of an action that was read as applied
ToVerdict(pair, ev) ==
    ev.status = "COMPLETE" /\ pair.days = WindowDays /\ pair.status = "applied"

\* verify_horizon writes; the status it computed decides what comes next,
\* whether or not the row was updated
VerifyHorizon(v) ==
    /\ pc[v] = "upsert"
    /\ LET pair == Current(v)
           key  == <<pair.act, pair.days>>
       IN  /\ Free(v, "snap", key)
           /\ mine' = [mine EXCEPT ![v].snap = Append(@,
                          <<key, Upsert(snap[pair.act][pair.days], found[v])>>)]
           /\ IF ToVerdict(pair, found[v])
              THEN pc' = [pc EXCEPT ![v] = "verdict"] /\ UNCHANGED due
              ELSE pc' = [pc EXCEPT ![v] = "fetched"] /\ due' = [due EXCEPT ![v] = @ \ {Current(v)}]
    /\ UNCHANGED <<worldVars, dbVars, found, faults>>

\* verify_action reads its windows anew and judges without asking whether
\* they are mature
ReadVerdict(v) ==
    /\ pc[v] = "verdict"
    /\ LET a == Current(v).act
       IN  found' = [found EXCEPT ![v] =
               [status |-> "verified",
                outcome |-> Judge(Before(a, WindowDays), After(a, WindowDays))]]
    /\ pc' = [pc EXCEPT ![v] = "update"]
    /\ UNCHANGED <<worldVars, dbVars, due, mine, faults>>

\* verify_action writes the action by id, whatever its status is by now
VerifyAction(v) ==
    /\ pc[v] = "update"
    /\ LET a == Current(v).act
       IN  /\ Free(v, "action", a)
           /\ mine' = [mine EXCEPT ![v] = Stage(@, <<a, found[v]>>,
                                   <<a, "verification.result", found[v].outcome>>)]
    /\ due' = [due EXCEPT ![v] = @ \ {Current(v)}]
    /\ pc' = [pc EXCEPT ![v] = "fetched"]
    /\ UNCHANGED <<worldVars, dbVars, found, faults>>

-----------------------------------------------------------------------------
(* rollback_action.                                                        *)

\* The caller reads the action; ROLLBACK_REQUESTED is staged.
RequestRollback(o) ==
    /\ pc[o] = "idle"
    /\ \E a \in Undone :
         /\ action[a].status \in {"applied", "verified"} /\ live[a] = "after"
         /\ \A q \in Operators \ {o} : \A x \in due[q] : x.act # a
         /\ due' = [due EXCEPT ![o] = {[act |-> a, days |-> 0, status |-> action[a].status]}]
         /\ mine' = [mine EXCEPT ![o].events = Append(@, <<a, "rollback.requested", "none">>)]
    /\ pc' = [pc EXCEPT ![o] = "call"]
    /\ UNCHANGED <<worldVars, dbVars, found, faults>>

\* client.rollback, then sm.rollback on the action as it was read: from any
\* state but applied it raises, in the except branch once more, and the
\* transaction is lost although Amazon has been called
CallRollback(o) ==
    /\ pc[o] = "call"
    /\ LET a == Current(o).act
           read == Current(o).status
       IN  \E ok \in BOOLEAN :
             /\ IF ok THEN UNCHANGED faults /\ live' = [live EXCEPT ![a] = "before"]
                      ELSE faults < MaxFaults /\ faults' = faults + 1 /\ UNCHANGED live
             /\ IF read = "applied"
                THEN /\ found' = [found EXCEPT ![o] =
                            [status |-> IF ok THEN "rolled_back" ELSE read, outcome |-> "none"]]
                     /\ pc' = [pc EXCEPT ![o] = "update"]
                     /\ UNCHANGED <<due, mine>>
                ELSE /\ pc' = [pc EXCEPT ![o] = "idle"]
                     /\ due' = [due EXCEPT ![o] = {}]
                     /\ mine' = [mine EXCEPT ![o] = NoWrites]
                     /\ UNCHANGED found
    /\ UNCHANGED <<today, through, mart, wired, restated, dbVars>>

\* the action is written by id; its outcome column is left alone
RollbackAction(o) ==
    /\ pc[o] = "update"
    /\ LET a == Current(o).act
           kind == IF found[o].status = "rolled_back" THEN "rollback.succeeded"
                                                      ELSE "rollback.failed"
       IN  /\ Free(o, "action", a)
           /\ mine' = [mine EXCEPT ![o] = Stage(@,
                              <<a, [action[a] EXCEPT !.status = found[o].status]>>,
                              <<a, kind, "none">>)]
    /\ pc' = [pc EXCEPT ![o] = "written"]
    /\ UNCHANGED <<worldVars, dbVars, due, found, faults>>

-----------------------------------------------------------------------------
NextDay ==
    /\ today < MaxDay /\ today' = today + 1
    /\ UNCHANGED <<through, mart, wired, restated, live, dbVars, pc, due, found, mine, faults>>

\* dbt rebuilds the marts: more days are settled, the last ones may change.
\* A change matters once the T+7 windows were complete enough to be judged.
RefreshMart ==
    /\ through < today - 1 \/ Restates > 0
    /\ through' = IF through < today - 1 THEN through + 1 ELSE through
    /\ mart' \in Histories
    /\ \A a \in Actions : \A d \in 0 .. (today - 1 - Restates) : mart'[a][d] = mart[a][d]
    /\ Restates = 0 => mart' = mart
    /\ restated' = restated \union
           {a \in Actions : /\ Judgeable(a, WindowDays)
                           /\ \E d \in Days : d <= through /\ mart'[a][d] # mart[a][d]}
    /\ UNCHANGED <<today, wired, live, dbVars, pc, due, found, mine, faults>>

Verify(v) ==
    \/ FetchDueSnapshots(v)
    \/ ReadWindows(v)
    \/ VerifyHorizon(v)
    \/ ReadVerdict(v)
    \/ VerifyAction(v)
    \/ Commit(v)

Rollback(o) ==
    \/ RequestRollback(o)
    \/ CallRollback(o)
    \/ RollbackAction(o)
    \/ Commit(o)

Next ==
    \/ NextDay
    \/ RefreshMart
    \/ \E v \in Verifiers : Verify(v)
    \/ \E o \in Operators : Rollback(o)
    \/ \E p \in Processes : Abort(p)

Spec == Init /\ [][Next]_vars

\* The verification runs are scheduled with every cycle; marts are rebuilt
\* daily.  Nobody has to roll anything back, but a call that was begun ends.
Fairness ==
    /\ WF_vars(NextDay) /\ WF_vars(RefreshMart)
    /\ \A v \in Verifiers : WF_vars(Verify(v))
    /\ \A o \in Operators : WF_vars(CallRollback(o) \/ RollbackAction(o) \/ Commit(o))

FairSpec == Spec /\ Fairness

-----------------------------------------------------------------------------
(* Properties.                                                             *)

\* The tables and the processes keep their types; a snapshot has an outcome
\* exactly if it is COMPLETE, as the check of migration 0063 demands.
TypeOK ==
    /\ action \in [Actions -> [status : {"applied", "verified", "rolled_back"},
                               outcome : Outcomes \union {"none"}]]
    /\ \A a \in Actions, h \in Horizons :
         \/ snap[a][h].status = "COMPLETE" /\ snap[a][h].outcome \in Outcomes
         \/ snap[a][h].status \in {"none", "FAILED", "INSUFFICIENT_DATA"}
            /\ snap[a][h].outcome = "none"
    /\ \A p \in Processes : pc[p] \in {"idle", "fetched", "upsert", "verdict", "update",
                                       "call", "written"}

Verdict(a) == snap[a][WindowDays]

\* An action is verified only on T+7 evidence that is stored with it and on a
\* result in the ledger, also when the mart is rebuilt in between; and unless
\* the mart changed rows that could already be judged, the action row, the
\* snapshot and the ledger tell the same outcome, however verification runs
\* overlap, rollbacks cut in and transactions abort (run_once,
\* verify_horizon, verify_action).
ScorecardAgrees ==
    \A a \in Actions : action[a].status = "verified" =>
        /\ Verdict(a).status = "COMPLETE"
        /\ \E e \in events : e[1] = a /\ e[2] = "verification.result"
        /\ a \notin restated =>
              /\ action[a].outcome = Verdict(a).outcome
              /\ <<a, "verification.result", action[a].outcome>> \in events

\* Refuted (outcome_restated.cfg): the outcome of the action is that of its
\* T+7 evidence ("the original action-level T+7 scorecard contract",
\* run_once).  verify_action reads the windows again, perhaps after a rebuild.
ScorecardIsEvidence ==
    \A a \in Actions :
        action[a].status = "verified" => action[a].outcome = Verdict(a).outcome

\* Evidence and verdict are one transaction: an action whose T+7 evidence is
\* complete, which no run will fetch again, is not left unverified unless
\* somebody asked for its rollback.
EvidenceClosesAction ==
    \A a \in Actions : Verdict(a).status = "COMPLETE" =>
        \/ action[a].status = "verified"
        \/ <<a, "rollback.requested", "none">> \in events

\* Complete evidence never changes, also when a run that had computed
\* something else was waiting for the row (the where clause of the upsert).
EvidenceIsFinal ==
    [][\A a \in Actions, h \in Horizons :
         snap[a][h].status = "COMPLETE" => snap'[a][h] = snap[a][h]]_vars

\* The pairs whose rows, for both windows, a mart will have by the last day.
Observable ==
    [m \in Histories |-> {x \in Supported \X Horizons :
        /\ AppliedOn[x[1]] + x[2] <= MaxDay
        /\ \A d \in (AppliedOn[x[1]] - x[2]) .. (AppliedOn[x[1]] + x[2] - 1) :
             d \in Days /\ m[x[1]][d].seen = 1}]

\* What stands before a pair in every batch: older ones without evidence ever.
Stuck(m, x) ==
    {y \in (Actions \X Horizons) \ Observable[m] :
        AppliedOn[y[1]] + y[2] <= MaxDay /\ Older(y, x)}

Reachable ==
    [m \in Histories |-> {x \in Observable[m] : Cardinality(Stuck(m, x)) < Limit}]

\* Every horizon whose rows arrive gets its evidence, although each run fetches
\* only Limit pairs, oldest first, and older pairs that never mature or always
\* fail come back in every one: it is enough that those alone do not fill the
\* batch (fetch_due_snapshots), unless an action is due whose entity type
\* aborts the run (performance_window).
EvidenceArrives ==
    []<>(\A a \in Actions, h \in Horizons :
            \/ snap[a][h].status = "COMPLETE" \/ action[a].status = "rolled_back"
            \/ <<a, h>> \notin Reachable[mart]
            \/ \E x \in Due : ~Readable(x[1]))

\* Nothing leaves verified or rolled_back (test_verified_is_terminal); an
\* update by id of a transaction that read the action earlier does.
TerminalIsFinal ==
    [][\A a \in Actions : action[a].status \in {"verified", "rolled_back"} =>
         action'[a].status = action[a].status]_vars

\* How far that goes: only an action whose rollback is in the ledger, asked
\* for by that step or before, leaves a terminal state; two verification runs
\* never undo each other's verdict (verify_action, rollback_action).
OnlyRollbackReopens ==
    [][\A a \in Actions :
         /\ action[a].status \in {"verified", "rolled_back"}
         /\ action'[a].status # action[a].status
         => <<a, "rollback.requested", "none">> \in events']_vars
=============================================================================
