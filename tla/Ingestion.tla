------------------------------ MODULE Ingestion ------------------------------
(***************************************************************************)
(* Daily ingestion of one tenant and the scheduler that drives it:         *)
(*                                                                         *)
(*   services/ingest/pipelines/ads_daily.py, sales_traffic.py              *)
(*   services/scheduler/runner.py      cycle, catch-up, alerts             *)
(*   services/rules/freshness.py       what the rules believe of the data  *)
(*                                                                         *)
(* Days are numbers.  A pipeline call is one transaction: the Ads call     *)
(* covers all Ads datasets, the sales call one, a catch-up call one.  Its  *)
(* rows are staged until Commit.  now() is the start of the transaction,   *)
(* so the latest run of a dataset is the one that started last, which need *)
(* not be the one that was committed last.  A day that fails in            *)
(* run_requests is counted and the next is tried; an exception outside     *)
(* that loop (no connection, an aborted transaction, a dead process) ends  *)
(* the whole cycle.  No code resolves an alert.  The rules and verification*)
(* runs between ingestion and alerts are left out: their own models are    *)
(* ActionPipeline and ActionOutcome, and a raise in them is an Abort.      *)
(***************************************************************************)
EXTENDS Naturals, Sequences, SequencesExt

CONSTANTS
    Ads,            \* Ads datasets, in the order of DATASETS
    Sales,          \* sales_traffic.DATASET
    Backfill,       \* BACKFILL_DAYS of each dataset, and Amazon's lookback
    Reingest,       \* REINGEST_DAYS
    CatchUp,        \* --catch-up-days
    Lag,            \* SETTLEMENT_LAG_DAYS
    MaxAge,         \* freshness: days before a load is stale
    StaleAfter,     \* alerts: days before a run is stale
    Runners,        \* scheduler processes
    Replayers,      \* those started with --replay-catch-up
    Modes,          \* of the processes: "live", "dry"
    FirstDay,       \* today at the beginning
    MaxDay,         \* bound on time
    MaxFaults       \* bound: failing days and aborted cycles

Datasets == Range(Ads) \union {Sales}

ASSUME IngestionAssumption ==
    /\ Ads \in Seq(Range(Ads)) /\ IsFiniteSet(Datasets)
    /\ Backfill \in [Datasets -> Nat]
    /\ \A d \in Datasets : Reingest <= Backfill[d] /\ Backfill[d] < FirstDay
    /\ CatchUp < FirstDay       \* days are counted from before any window
    /\ {Reingest, CatchUp} \subseteq Nat \ {0}
    /\ {Lag, MaxAge, StaleAfter, FirstDay, MaxDay, MaxFaults} \subseteq Nat
    /\ Sales \notin Range(Ads)
    /\ Modes \subseteq {"live", "dry"}

VARIABLES
    today,
    watermark,  \* sync_watermark.last_complete_date, 0 for null
    raw,        \* days of raw.* that are loaded, by dataset
    covered,    \* days of the pipeline_run rows with status success
    last,       \* status and time of the latest pipeline_run
    alerts,     \* open rows of table alert: kind and dataset
    \* scheduler processes: step, mode, calls still to make, rows of the
    \* open transaction, its start, datasets a later one has overtaken
    pc, mode, todo, staged, started, overtaken,
    active,     \* processes with an open transaction, by its start
    refused,    \* datasets Amazon answers no request for, until further notice
    faults

runVars == <<pc, mode, todo, staged, started, overtaken, active>>
dbVars  == <<watermark, raw, covered, last>>
vars == <<today, dbVars, alerts, runVars, refused, faults>>

Status == {"success", "partial", "failed"}

Init ==
    /\ today = FirstDay
    /\ watermark = [d \in Datasets |-> 0]
    /\ raw = [d \in Datasets |-> {}]
    /\ covered = [d \in Datasets |-> {}]
    /\ last = [d \in Datasets |-> [status |-> "none", day |-> 0]]
    /\ alerts = {}
    /\ pc = [p \in Runners |-> "idle"]
    /\ mode \in [Runners -> Modes]
    /\ todo = [p \in Runners |-> <<>>]
    /\ staged = [p \in Runners |-> <<>>]
    /\ started = [p \in Runners |-> 0]
    /\ overtaken = [p \in Runners |-> {}]
    /\ active = <<>>
    /\ refused \in {{}, {Sales}}
    /\ faults = 0

-----------------------------------------------------------------------------
(* Planning.                                                               *)

PlanDates(d, mark, asOf) ==
    LET newest == asOf - 1
        oldest == asOf - Backfill[d]
        wanted == IF mark + 1 < asOf - Reingest THEN mark + 1 ELSE asOf - Reingest
        start  == IF mark = 0 \/ wanted < oldest THEN oldest ELSE wanted
    IN  IF mark >= newest THEN {} ELSE start .. newest

SuccessfulRunDates(d, window) == covered[d] \intersect window

\* build_catch_up_plan: days of the window that no successful run covers
Missing(d) ==
    LET window == (today - CatchUp) .. (today - 1) IN window \ SuccessfulRunDates(d, window)

Selected == <<Sales>> \o Ads

\* build_catch_up_plan: the datasets with such days, in the order of selected
CatchUpPlans ==
    {plan \in SetToSeqs({d \in Datasets : Missing(d) # {}}) :
        \A i, j \in DOMAIN plan : i < j =>
            \E m, n \in DOMAIN Selected :
                m < n /\ Selected[m] = plan[i] /\ Selected[n] = plan[j]}

\* ads_daily.run and sales_traffic.run; asOf = 0: date.today()
AdsRun(datasets, asOf) == [left |-> datasets, asOf |-> asOf]
SalesRun(asOf) == [left |-> <<Sales>>, asOf |-> asOf]

\* replay_catch_up_plan: one call per dataset, as of the day after its gap
Replays(plan) ==
    LET AsOf(d) == Max(Missing(d)) + 1
    IN  [i \in DOMAIN plan |->
            IF plan[i] = Sales THEN SalesRun(AsOf(Sales))
                               ELSE AdsRun(<<plan[i]>>, AsOf(plan[i]))]

RunIngestion == <<AdsRun(Ads, 0), SalesRun(0)>>

\* main: the catch-up if asked for, then run_ingestion
StartCycle(p) ==
    /\ pc[p] = "idle"
    /\ \E plan \in CatchUpPlans :
         todo' = [todo EXCEPT ![p] =
                     (IF p \in Replayers THEN Replays(plan) ELSE <<>>) \o RunIngestion]
    /\ pc' = [pc EXCEPT ![p] = "ingest"]
    /\ UNCHANGED <<today, dbVars, alerts, mode, staged, started, overtaken, active, refused,
                   faults>>

-----------------------------------------------------------------------------
(* A pipeline call.                                                        *)

\* mutant: a run with a success in it is a success
RunStatus_Lenient(failed, succeeded) == IF succeeded # {} THEN "success" ELSE "failed"

RunStatus(failed, succeeded) ==
    IF failed = {} THEN "success" ELSE IF succeeded = {} THEN "failed" ELSE "partial"

\* parse_report_payload and upsert_raw_rows: a day that is loaded again
\* replaces its rows; a dry run has none
UpsertRawRows(p, days) == IF mode[p] = "dry" THEN {} ELSE days

\* run_requests: the days that may succeed.  A dry run counts all of them.
RunRequests(p, d, dates) ==
    IF mode[p] = "dry" THEN {dates}
    ELSE SUBSET {x \in dates : x + Backfill[d] >= today /\ d \notin refused}

\* One dataset: plan from the watermark, request every day, stage the run.
\* Amazon refuses a day beyond its lookback; any other may fail too.  The
\* first statement of a call starts its transaction.
IngestDataset(p) ==
    /\ pc[p] = "ingest" /\ todo[p][1].left # <<>>
    /\ IF p \in Range(active)
       THEN UNCHANGED <<active, started, overtaken>>
       ELSE /\ active' = Append(active, p)
            /\ started' = [started EXCEPT ![p] = today]
            /\ overtaken' = [overtaken EXCEPT ![p] = {}]
    /\ LET call   == todo[p][1]
           d      == call.left[1]
           dates  == PlanDates(d, watermark[d], IF call.asOf = 0 THEN today ELSE call.asOf)
       IN  \E ok \in RunRequests(p, d, dates) :
             /\ \/ ok = UNION RunRequests(p, d, dates) /\ UNCHANGED faults
                \/ ok # UNION RunRequests(p, d, dates) /\ faults < MaxFaults /\ faults' = faults + 1
             /\ staged' = [staged EXCEPT ![p] = Append(@,
                  [set |-> d, dates |-> dates, rows |-> UpsertRawRows(p, ok),
                   status |-> RunStatus(dates \ ok, ok)])]
    /\ todo' = [todo EXCEPT ![p][1].left = Tail(@)]
    /\ UNCHANGED <<today, dbVars, alerts, pc, mode, refused>>

\* the pipeline_run rows of the open transaction
StagedSets(p) == {staged[p][i].set : i \in DOMAIN staged[p]}
StagedRow(p, d) == staged[p][CHOOSE i \in DOMAIN staged[p] : staged[p][i].set = d]

\* mutant: the watermark is advanced after a partial run too
NewMark_Partial(row, mark) ==
    IF row.dates # {} /\ Max(row.dates) > mark THEN Max(row.dates) ELSE mark

\* mutant: on conflict do nothing
NewMark_Once(row, mark) ==
    IF row.status = "success" /\ row.dates # {} /\ mark = 0 THEN Max(row.dates) ELSE mark

\* mutant: last_complete_date = excluded.last_complete_date
NewMark_Overwrite(row, mark) ==
    IF row.status = "success" /\ row.dates # {} THEN Max(row.dates) ELSE mark

\* update_watermark: the greatest of both dates, and only if nothing failed
NewMark(row, mark) ==
    IF row.status = "success" /\ row.dates # {} /\ Max(row.dates) > mark
    THEN Max(row.dates) ELSE mark

\* _latest_runs: by started_at, which is that of the transaction
LatestRun(p, d) ==
    IF d \in StagedSets(p) \ overtaken[p]
    THEN [status |-> StagedRow(p, d).status, day |-> started[p]] ELSE last[d]

Commit(p) ==
    /\ pc[p] = "ingest" /\ p \in Range(active) /\ todo[p][1].left = <<>>
    /\ LET sets == StagedSets(p)
           R(d) == StagedRow(p, d)
           earlier == {q \in Range(active) : \E i, j \in DOMAIN active :
                          i < j /\ active[i] = q /\ active[j] = p}
       IN  /\ raw' = [d \in Datasets |-> IF d \in sets THEN raw[d] \union R(d).rows ELSE raw[d]]
           /\ covered' = [d \in Datasets |-> IF d \in sets /\ R(d).status = "success"
                                             THEN covered[d] \union R(d).dates ELSE covered[d]]
           /\ watermark' = [d \in Datasets |-> IF d \in sets
                                               THEN NewMark(R(d), watermark[d]) ELSE watermark[d]]
           /\ last' = [d \in Datasets |-> LatestRun(p, d)]
           /\ overtaken' = [q \in Runners |->
                   IF q = p THEN {} ELSE IF q \in earlier THEN overtaken[q] \union sets
                                         ELSE overtaken[q]]
    /\ active' = Remove(active, p)
    /\ staged' = [staged EXCEPT ![p] = <<>>]
    /\ started' = [started EXCEPT ![p] = 0]
    /\ todo' = [todo EXCEPT ![p] = Tail(@)]
    /\ pc' = [pc EXCEPT ![p] = IF Len(todo[p]) = 1 THEN "alerts" ELSE "ingest"]
    /\ UNCHANGED <<today, alerts, mode, refused, faults>>

\* an exception outside run_requests, or the death of the process
Abort(p) ==
    /\ pc[p] # "idle" /\ faults < MaxFaults
    /\ faults' = faults + 1
    /\ active' = Remove(active, p)
    /\ staged' = [staged EXCEPT ![p] = <<>>]
    /\ started' = [started EXCEPT ![p] = 0]
    /\ overtaken' = [overtaken EXCEPT ![p] = {}]
    /\ todo' = [todo EXCEPT ![p] = <<>>]
    /\ pc' = [pc EXCEPT ![p] = "idle"]
    /\ UNCHANGED <<today, dbVars, alerts, mode, refused>>

-----------------------------------------------------------------------------
(* The rest of the cycle.                                                  *)

\* mutant: a run in which every day failed is left to its age
Alert_PartialOnly(d) ==
    IF last[d].status = "none" THEN {<<"missing", d>>}
    ELSE IF last[d].status = "partial" THEN {<<"pipeline_failed", d>>}
    ELSE IF today - last[d].day > StaleAfter THEN {<<"data_stale", d>>} ELSE {}

\* evaluate_alerts; ages are in days.  A run still marked running is never
\* seen, since the row and its status are committed together.
Alert(d) ==
    IF last[d].status = "none" THEN {<<"missing", d>>}
    ELSE IF last[d].status \in {"partial", "failed"} THEN {<<"pipeline_failed", d>>}
    ELSE IF today - last[d].day > StaleAfter THEN {<<"data_stale", d>>} ELSE {}

\* persist_alerts inserts the ones that are not open
RaiseAlerts(p) ==
    /\ pc[p] = "alerts"
    /\ alerts' = alerts \union UNION {Alert(d) : d \in Datasets}
    /\ pc' = [pc EXCEPT ![p] = "idle"]
    /\ UNCHANGED <<today, dbVars, mode, todo, staged, started, overtaken, active, refused,
                   faults>>

NextDay ==
    /\ today < MaxDay
    /\ today' = today + 1
    /\ UNCHANGED <<dbVars, alerts, runVars, refused, faults>>

Cycle(p) ==
    \/ StartCycle(p)
    \/ IngestDataset(p)
    \/ Commit(p)
    \/ RaiseAlerts(p)

Next ==
    \/ NextDay
    \/ \E p \in Runners : Cycle(p) \/ Abort(p)

Spec == Init /\ [][Next]_vars

\* the scheduler is started again and again, and runs to its end; nothing
\* is assumed of the operator who replays
FairSpec == Spec /\ \A p \in Runners \ Replayers : WF_vars(Cycle(p))

-----------------------------------------------------------------------------
(* resolve_source_freshness: the weakest evidence decides.                 *)

Usable(d) ==
    /\ watermark[d] # 0
    /\ last[d].status = "success"
    /\ today - last[d].day <= MaxAge

DataThrough(d) == IF watermark[d] + Lag > today THEN today - Lag ELSE watermark[d]

-----------------------------------------------------------------------------
(* Properties.                                                             *)

\* Types; no run loads or covers a day that is not over yet (plan_dates).
TypeOK ==
    /\ today \in Nat
    /\ watermark \in [Datasets -> Nat]
    /\ raw \in [Datasets -> SUBSET (1 .. (today - 1))]
    /\ covered \in [Datasets -> SUBSET (1 .. (today - 1))]
    /\ last \in [Datasets -> [status : Status \union {"none"}, day : Nat]]
    /\ alerts \subseteq {"missing", "pipeline_failed", "data_stale"} \X Datasets
    /\ pc \in [Runners -> {"idle", "ingest", "alerts"}]
    /\ overtaken \in [Runners -> SUBSET Datasets]

\* With live processes, each dataset's watermark keeps the promise of
\* SyncLedger: update_watermark never passes a day that failed in
\* run_requests, whatever two processes and a catch-up do at once.
Ledger(d) == INSTANCE SyncLedger
    WITH Horizon <- Backfill[d], mark <- watermark[d], loaded <- raw[d]
KeepsLedger ==
    /\ \A d \in Datasets : Ledger(d)!Init
    /\ [][\A d \in Datasets : Ledger(d)!Next]_<<today, watermark, raw>>

\* A catch-up plan keeps its promise however old it is when its call is made:
\* whatever other processes load, fail and commit in between, every day up to
\* the end of the gap that no successful run covers, and that Amazon still
\* serves, is among the days the call will request (replay_catch_up_plan hands
\* over the last day only, plan_dates starts from the watermark it then finds).
ReplayCoversGap ==
    \A p \in Runners : \A i \in DOMAIN todo[p] :
        LET call == todo[p][i] IN
        \A d \in Range(call.left) : \A x \in 1 .. (call.asOf - 1) :
            x \in covered[d] \union PlanDates(d, watermark[d], call.asOf)
                \/ x + Backfill[d] < today

\* What the rules take for fresh is there: if resolve_source_freshness
\* answers FRESH, each of the last Backfill days up to data_through has been
\* loaded.
FreshMeansLoaded ==
    \A d \in Datasets : Usable(d) =>
        {x \in 1 .. DataThrough(d) : x + Backfill[d] > watermark[d]} \subseteq raw[d]

\* A dataset whose latest run failed, entirely or for some days, does not
\* stay so silently: a later run succeeds or evaluate_alerts opens an alert,
\* also while Amazon refuses the dataset every day.
FailureIsAlerted ==
    \A d \in Datasets :
        last[d].status \in {"partial", "failed"} ~>
            (last[d].status = "success" \/ <<"pipeline_failed", d>> \in alerts)

\* The data of yesterday keeps arriving, however many runs failed before: a
\* day that failed is planned again by the next run, and again while Amazon
\* serves it.
YesterdayArrives ==
    \A d \in Datasets : []<>(d \in refused \/ watermark[d] = today - 1)
=============================================================================
