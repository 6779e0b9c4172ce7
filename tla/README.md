# A TLA+ verification of the Amazon Command Center

The repository is a multi-tenant "command center" for Amazon sellers. Python
services ingest reports, evaluate rules, propose bid changes, apply the
approved ones and report on the result; PostgreSQL (tables, triggers, views,
row level security) sits in the middle; a Next.js application lets people
approve, configure, request reports and take control.

This directory holds TLA+ models of the parts whose correctness depends on
order, interleaving, failure or bounds, TLC configurations that check them on
small instances, and TLAPS proofs of the results that matter most.
`PROJECT.json` has the same in machine-readable form: the components, the
runs, the mutants that show every property can fail, the source lines behind
every definition, the findings, the hazards and the theorems.

## 1. Inventory

Every process works for one tenant at a time and talks to the others only
through the database (and, for bids and reports, through Amazon's APIs and a
directory of files). Nothing is shared in memory. What is hard is therefore
what several transactions, and the effects a rollback does not undo, make of
the same rows.

| component | state | operations | what makes it correct | hard parts |
| --- | --- | --- | --- | --- |
| Rules engine (`services/rules/engine.py`, `compiler.py`) | `rule_evaluation`, new `action` rows | one run per tenant: evaluate, guard, insert proposals | one open proposal per entity; a run does not abort | partial unique index against `on conflict` |
| Guardrails (`services/rules/guardrails.py`, `settings.py`, `services/actions/apply_guardrails.py`) | `tenant_settings`, daily counters, evidence of the proposal | `check` at proposal and again at apply time | a bid that is written is inside every limit its run has read | settings move in between, and between check and write; percent of cents, rounding, floats |
| Action pipeline (`services/actions/worker.py`, `apps/web/lib/approval-decision.ts`) | `action` rows, Amazon's bids, `entity_automation_control` | propose, approve, reject, fetch, validate, read, write, persist, commit | only approved rows are written; limits and human control hold; no written change is forgotten | no locks in the fetch; external write inside a transaction; crash between write and commit |
| State machine (`services/actions/state_machine.py`) | `ALLOWED` | transitions of a row | every committed change is an edge | most code updates the column directly |
| Retry and dead letters (`services/actions/retry.py`, migration 0026) | `retry_count`, `next_attempt_at`, `dead_lettered_at` | failure trigger, release, replay | bounded retries; no failure lost or handled twice | two due rows of one entity |
| Collision detection (migration 0025, `collisions.py`) | index and trigger on `action` | detect at approval | one active change per entity | races of four writers |
| Human control (`human_control.py`, migration 0050) | `entity_automation_control` | take, return | a held entity is not touched | control taken during a run; product scopes |
| Verification (`verification.py`, migration 0063) | outcome snapshots, `verified` status | horizons 1, 3, 7, 14, 30 days | a complete snapshot is immutable; one verdict | verdict written by id, whatever the status has become |
| Report jobs (`services/reports/*`, `apps/web/lib/reports.ts`, migrations 0032, 0033, 0056) | `report_job`, `report_artifact`, `report_job_event`, files | request, claim, render, store, succeed, fail, retry | one runner per job; success means a stored file; log replays to the row | file outside the transaction; crash after the claim; shared worker ids |
| Scheduled delivery (`scheduled_delivery.py`, migration 0039) | `report_delivery_schedule`, `report_delivery_run` | create, enqueue due slots, route | no slot lost or doubled; nobody is sent to a report that is gone | catching up; members leaving; expiry; daylight saving |
| Notifications (`services/notifications/*`) | events, deliveries, attempts, consent | publish, policy, attempt, callback | once per dedupe key; final states stay final | callbacks out of order, duplicates, dead letters |
| Configuration (`services/config/*`, `apps/web/lib/config-rollouts.ts`) | override versions, rollout events | publish, detach, simulate, canary, expand, complete, roll back | a rollback never undoes somebody else's change | version chains under concurrent rollouts |
| Ingestion (`services/ingest/pipelines/*`) | raw rows, `pipeline_run`, `sync_watermark` | plan dates, fetch, upsert, advance | the watermark never passes a day that is missing | partial failure, dry runs, re-ingestion window |
| API clients (`ads_api.py`, `sp_api.py`, `rate_limit.py`) | token, buckets | call with retries | bounded attempts; no double creation | 401, 429 and transport errors share one counter; token rotation |
| Scheduler (`services/scheduler/runner.py`) | alerts, catch-up plans | cycle, replay | gaps are found and filled once | partial successes |
| Copilot (`services/copilot/*`) | audit rows, spend | ask, guard SQL, call a model with fallbacks | nothing unaudited; budget respected | spend recorded after the call |
| Research, listings, economics, parties | versions, drafts, allocations | create, review, allocate, merge | versions are append-only; allocation adds up | concurrent version numbers |
| Migration tool (`packages/db/migrate.py`) | ledger | up, down, baseline | ledger and schema agree | stop half way, edited files |
| Web application (`apps/web`) | sessions, roles | handlers | role checks | in the handlers of the parts above |

The hazards, each with the line where it bites and the property that would
catch it, are listed in `PROJECT.json`.

## 2. Plan

Order: what writes to Amazon first, then what users wait for, then the rest.

1. **Core (done).** `ActionStateMachine` (abstract), `ActionPipeline`
   (implements it), `ActionPipeline_proofs`.
2. **Limits (done for bids).** `BidGuardrails`, `Rules_proofs`.
3. **Reports (done).** `ReportJobTransitions` (abstract: what the trigger
   allows), `ReportJobs` (implements it), `ReportJobs_proofs`,
   `ReportDelivery` (composes the job queue with schedules and routing).
4. **The data that comes in (done).** `SyncLedger` (abstract: what a watermark
   promises), `Ingestion` (pipelines and scheduler, implements it),
   `AmazonClient` (buckets, retries, tokens), `AmazonClient_proofs`.
5. **What becomes of a decision (done).** `ActionOutcome` (verification and
   rollback), `Notifications`, `SearchTerms` (harvest, isolation, revive; its
   promotions move along `ActionStateMachine`).
6. **Copilot (done).** `Copilot`: the model gateway and audited questions.
7. **Left.** `HumanControl` (product scopes, expiry, order of several
   controls); `ConfigRollout` (override versions and rollouts, against "the
   effective configuration is the last one published and not undone");
   `ReportSchedule` (the calendar of `next_run` with repeated and missing
   hours, against a reference definition); `Migrate`; FIFO and average cost
   allocation against a reference; draft and quote versions.
8. **Proofs.** Done for every module: the safety properties of all runs, and
   the four refinements. `Rules_proofs` holds those of `BidGuardrails` and of
   `SearchTerms`. Left: the modules of 7 as they are written.

## 3. Modules and how they correspond to the code

### ActionPipeline

One tenant. A row of table `action` is a member of `Actions`; its columns are
the functions `status`, `base` (before value), `target` (after value),
`overdue`, `approvedAt`, `retries`, `sched`, `dead`, `replays`, `age`. `live`
is what Amazon holds, `cfg` the tenant's switch (off, dry, live), `held` the
entities a human controls. Time is abstracted to what the code compares it
with: whether a proposal is past `expires_at`, whether a retry is due, whether
a change was applied today, inside the 72-hour window or before.

A worker run (`run_once`) is ONE read-committed transaction. Its updates are
kept in `staged[w]` and reach the rows at `Commit`; a staged row is locked,
others wait for it, and PostgreSQL aborts one of two transactions that wait
for each other (`DeadlockVictim`). Writes to Amazon take effect at once and
are not undone by `Crash`. The steps follow the code: `Fetch` (no lock),
`CheckControl`, then for a live worker consent (`ControlDone`), `Refuse` or
`CheckGuardrails`, credentials (`GuardDone`, `LoadFails`), and per action
`Read`, `Write` (the call raises or is answered, and either way the bid has
landed or not: nobody looks at the body of an answer, where a 207 says that
an item was refused), `Persist`; a dry-run worker has `DryApply` instead. `Commit` includes the
trigger of migration 0026 that counts the failure and schedules the retry or
the dead letter. `ProposeBatch` and `ProposeRaises` are a rules run that
succeeds or breaks the unique index; `Approve`, `Reject`, `ReleaseDue`,
`Replay` are the web and the retry worker. `SellerEdit`, `TakeControl`,
`ResumeAutomation`, `SaveSettings` are people. Two histories serve the
properties: `answered`, the rows whose call had an answer, and `sent`, the rows
Amazon was called for since their approval, which a lost run takes back
(`InDoubt`).

Left out: payloads other than bids (the capability registry lets nothing else
be approved), audit inserts, `entity_change_signal` (no code outside the tests
records one), product scopes of a control.

### ActionStateMachine

The `ALLOWED` graph of `state_machine.py`, as a specification of the status
column alone. `ActionPipeline` implements it when a tenant has one worker.

### BidGuardrails

One entity and its open proposal, through rule target (`Targets`:
`resolve_action`), percentage clamp (`ClampChange`), absolute bounds
(`ApplyBounds`), rounding (`Round`) and the eight blocking guards (`Blocked`),
at proposal (`Propose`) and again at apply time, while settings, days and
changes elsewhere move. A run reads the settings once, checks its batch
(`LetThrough`, `Refuse`) and writes later (`Apply`) or not at all (`RunLost`);
`pinned` are the settings it has read. Bids are in cents and limits in
hundredths of a cent, the unit in which integer percentages of cents are whole
numbers. The code computes in binary floating point: at exact equality (a tie
in rounding, a value equal to its percentage limit) the model takes either
outcome. Budgets, diagnostics and the composition of freshness from several
datasets are left out; the evidence has the age the freshness check admitted.

### ReportJobs and ReportJobTransitions

A job is named by its idempotency key. `run_once` uses two transactions: the
claim is committed by itself (`Claim`), then read (`ReadSource`), render and
store (`Store`) and success (`Commit`) are one transaction that holds the
row's lock; the file alone is durable before the commit. Any exception rolls
back (`Raise`) and a third transaction commits the failure (`Fail`). `Request`
is `enqueue_job`/`createReport` with its three answers, `Retry` is
`retry_job`/`retryReport`, `Crash` the death of a process, `Refresh` the dbt
build under the reader, `Expire` the end of the retention time.
`ReportJobTransitions` is what the trigger `enforce_report_job_transition`
allows to happen to status, attempt and scope. Left out: cancellation,
deactivated definitions and future `next_attempt_at`, for which there is no
code; progress and heartbeat, which are written in the same transaction as the
success and so never seen by a reader.

### ReportDelivery

Extends `ReportJobs` with schedules. Slots are the instants `next_run` yields,
numbered in order; slot n of schedule s has the key `<<s, n>>`, for the job
(whose idempotency key the code builds from schedule and instant) and for the
delivery run. `EnqueueDue` serves the slot at `next_run_at` of every due
schedule in one transaction and moves it to the slot after the one just
served; `RouteCompleted` rechecks member and expiry and publishes one event
per run. Web requests take any key, that of a slot included; a slot whose key is
bound to another scope (`Acceptable`) is an `IdempotencyConflict`, which aborts
`enqueue_due` for every schedule. Left out: the calendar itself, the limit of 25 rows per call,
disabled schedules (no code disables one).

### Ingestion and SyncLedger

Days are numbers. A scheduler process (`run_cycle`) makes one call for all Ads
datasets, one for sales, and, when started with `--replay-catch-up`, one per
missing day first (`StartCycle`, `Replays`). A call is one transaction:
`IngestDataset` plans the dates from the watermark it reads then (`PlanDates`),
tries every one of them and stages what arrived; `Commit` writes rows, run and
watermark together; `Abort` is everything that escapes the per-day `try`, the
death of the process included. `LatestRun` has the detail that `now()` is the
start of the transaction: of two overlapping runs the one begun later counts as
the latest, whichever commits last. `RaiseAlerts` ends the cycle. `Usable` and
`DataThrough` are what `freshness.py` makes of it. `CatchUpPlans` keeps the order
of the datasets, and a dataset that never ran is alerted as missing (`Alert`). `SyncLedger` is the promise
of `last_complete_date` for one dataset, and each dataset implements it while
processes are live.

Left out: the sqp, keepa and placement pipelines, and how the freshness of
several datasets is combined.

### AmazonClient

One process that fetches one report per run: create, poll, document, download.
The first three are calls through `_call`: one token from the endpoint's bucket
(`Acquire`), then at most `MaxAttempts` requests (`Send`), with one counter for
401, 429, 5xx and transport errors, and a token refresh in front of a request
that has none (`Refresh`). Amazon may rotate the refresh token at each
(`Rotation`), and the answer that tells so arrives (`Answered`) or not
(`Unanswered`). The process may die (`Die`) and a run may be that of a new one
(`NewProcess`), which begins with full buckets, since they are in memory. The clients
for Ads and SP-API share this code line by line: Ads is `Paced = {}`,
`Documents = FALSE`, `Persists = FALSE`. A bucket counts in parts of a token so
that a rate below one per tick is exact; `load` is history, the leaky bucket a
provider would keep for the same rate and burst, and so is `lost`, that a
rotation happened of which no living process and no row knows.

### ActionOutcome

A verification run fetches the due pairs of action and horizon
(`FetchDueSnapshots`), and for each reads both windows (`ReadWindows`), judges
them (`Evidence`), upserts the snapshot (`VerifyHorizon`; a complete one stays)
and, for T+7, updates the action by id (`ReadVerdict`, `VerifyAction`), all in
one transaction. `RequestRollback`, `CallRollback` and `RollbackAction` are
`rollback_action`, which calls the client before it asks the state machine.
Writes are staged in `mine[p]`, a row written by another open transaction is
waited for, and what was read before the wait is not read again. The marts
settle day by day (`RefreshMart`), and a settled day may be rebuilt; `restated`
is history, the actions it was rebuilt for. `wired` are the actions of an entity
type with a window: another one raises out of the run (`Readable`, `Lost`). `Stage` is an update of the action together with
its event. `AppendEvents` is the deduplicated execution
ledger.

### Notifications

One event and its deliveries, one per channel. `PublishInApp` creates them and
takes the policy decision of each (`EvaluateDeliveryPolicy`: preference,
consent, provider, template, digest, quiet hours). Instants are UTC; a zone has
one clock change, forward or back (`Zone`), `Local` is `astimezone` and `ToUtc`
the conversion of a reading, which takes the first pass of a repeated hour, as
`combine` with `fold=0` does. `RecordAttempt` and `AcceptVerifiedCallback` are
`delivery.py`; a callback may arrive for a send that is not recorded (`sent`). The repository has no loop that
sends, so `Take` and `Crash` are external, with the arguments `record_attempt`
demands. Left out: rendering of templates, digests (nothing collects them).

### Copilot

`StartCall`, `CheckBudget` and `Send` are `gateway.call`: the fallback chain,
the budget once per provider, attempts, and `Record`, which writes a row for
every attempt but the successful one. `RecordRequest`, `RefuseUnknown`,
`Guard`, `BootCheck`, `Execute`, `RecordResult`, `RecordError` and `Finally`
are `run_sql` inside `audited`. Any write of the log may raise, before its row
landed or after (`Lost`). What the SQL
text says is reduced to what the guard looks at: whether the statement is
plain, its tables, its limit. Left out: grounding, voice, the system map, and
where the base URL of a local provider points, which `providers.py` takes from
the environment as it is.

### SearchTerms

One search term. A rules run reads (`PlanHarvest`: source, candidate, route,
duplicates) and commits later (`RecordLineage`); the approval queue and the
worker move the promotions (variable `promotion`, `MovePromotion`, along
`ActionStateMachine`); an
analysis takes the executed lineages, decides them one by one (`StartAnalysis`,
`Isolate`) and commits its findings, the revive findings included (`Insert`).
People edit routes, targets and protections; the term is served; the marts lag
behind (`RefreshMart`). Bids are in cents, the break-even CPC in tenths of a
cent. Left out: n-grams, scoring, the rule catalogue.

## 4. Runs

Passing:

| run | instance | shows |
| --- | --- | --- |
| `one_worker` | 2 rows of one entity, 1 live worker, 2 bids, 1 retry, 1 replay, 2 outside events | retry budget, every failure scheduled or dead-lettered but never both, no applied row without an answer to its call, one call per approval unless a run was lost, refinement of the state machine |
| `mixed_workers` | 2 rows of 2 entities, a live and a dry-run worker, 2 outside events | an entity held since before a run is neither written nor recorded as changed, also under lock cycles |
| `progress` | 2 rows of 2 entities, daily limit 1, 2 outside events, fairness | the daily limit holds within a batch and over runs; approved rows are resolved |
| `delivery` | 1 schedule with slots 1 and 2, web requests for the same keys, 2 scopes, 2 processes with one worker id, 2 attempts, 2 events | one runner per job, success means a stored file, keys are never shared by two reports, the trigger never raises, no slot skipped, only downloadable reports are announced |
| `guardrails_limits` | bids of 1 to 20 cents, 5 settings, 6 rules, thin and sufficient data, 3 events | proposals within half a cent of the percentage limit, applied bids inside every limit of the settings the run has read |
| `ingestion` | an Ads and a sales dataset, 3 days of time, a catch-up longer than the backfill of Ads, 2 processes of which one replays, 1 fault, fairness | each watermark implements `SyncLedger`; every pending call of a replay still covers its gap; data the rules may use is loaded as far as they are told; yesterday arrives once failures stop; a failed run is alerted |
| `client` | 2 SP-API runs in one process or two, one paced endpoint, 3 attempts, burst 2 at half a token per tick, fairness | the grants of a process conform to rate and burst, one report per creation, a rotated refresh token that arrived is stored unless its process died, every run ends |
| `outcome` | 2 actions, horizons 1 and 2, histories of the mart, a limit of 2 pairs with 1 that never matures in front, an entity type that may have no window, 2 verification runs, 1 operator, 1 fault, fairness | action, snapshot and ledger tell one verdict; complete T+7 evidence closes the action; evidence arrives for what is observable, behind a stuck pair too |
| `notifications` | 1 channel with 14 preferences (quiet hours over midnight, clocks going forward and back), 2 senders, 2 callbacks, 2 attempts, 1 crash | row and attempt ledger agree and attempts are bounded, a deferral ends with the quiet hours on the local clock |
| `copilot` | 4 providers (one too dear, one local, one without a price), 3 fallback lists, 2 attempts, 5 questions, 2 writes that raise | local inference stays local, failures are recorded in order, each question has one ending that agrees with what was told |
| `search_terms` | 1 term, 2 promotions, 2 routes, 2 ad groups, 2 edits, 5 paused keywords, fairness | no negative before the destination serves, an analysis never breaks its unique index, one open promotion, revived bids are safe, proven promotions are isolated |

A violation, where the code does not do what its comment says:

| run | text | what happens |
| --- | --- | --- |
| `copilot_ledger` | gateway.py:14 "write one llm_call row per attempt, in a finally block" | the attempt that was answered gets no row (gateway.py:470); as only such an attempt has a cost, recorded spend stays zero and `check_budget` lets every call below the ceiling through (`BudgetForgetsHolds`) |

No run repeats what theorems alone cover: the types of every module, `OnlyApprovedIsWritten`, `LogTellsState`,
`RunHasItsJob`, `ProposalInBounds`, `EvidenceIsFinal`, `TruncationIsMarked`,
`CallIsBounded`, and the extents of findings that section 5 lists.

These configurations state what a text of the repository promises and TLC
refutes it. They are kept to be run by hand after a change of the code:

| configuration | property | text | what happens |
| --- | --- | --- | --- |
| `pipeline_drift` | `DriftNeverOverwrites` | README.md:132 "FAILS with `drift:` rather than overwriting a human's change" | the bid is sent before the comparison; the human's bid is overwritten and then reported |
| `pipeline_rules_rerun` | `RulesRunNeverRaises` | migration 0025:25 "retain the first active proposal without an exception" | the `on conflict` clause names another index; the rules run aborts |
| `pipeline_retry_contention` | `DueRetryReturns` | retry.py:66 "return them to reviewable pending state" | two due rows of one entity abort the release at every run |
| `pipeline_concurrent_workers` | `NoStateSkipped` | state_machine.py:10 "no state skipping" | a second worker's late commit overwrites whatever the row has become |
| `reports_crash` (`MCReportJobs`) | `ClaimedIsFinished` | reports/worker.py:91 "claim and terminal outcome remain observable" | a job whose worker died after the claim is running for ever |
| `delivery_web_key` | `DueCanBeEnqueued` | scheduled_delivery.py:160 "Create idempotent report jobs for due schedules" | a web request has taken the key of a slot with another scope: `IdempotencyConflict` leaves `enqueue_due`, and no schedule of the tenant gets its run, at every call |
| `guardrails_recheck` | `RefusedOnlyIfMoved` | guardrails.py:5 "data may have moved, the kill switch may have flipped" | a target that was rounded or bounded past the percentage limit is refused at apply time although nothing moved |
| `guardrails_mid_run` | `KillSwitchBeatsEverything` | guardrails.py:213 "Kill switch beats everything, including mid-run" | the settings are read once per run (worker.py:490): a switch thrown after the check stops none of its writes |
| `ingestion_dry_run` | `FreshMeansLoaded` | the watermark is the last complete date | a dry run counts its skipped requests as done (ads_daily.py:309) and advances the watermark over days nobody loads |
| `client_lost_token` | `NewestIsStored` | vault.py:8 "always persist the newest one" | the answer to the refresh that rotated the token is lost, or the process dies before the save: the stored token is no longer valid. With `Persists = FALSE`, the Ads pipeline, which never saves, `RotatedIsStored` is refuted too |
| `outcome_rollback` | `TerminalIsFinal` | `test_verified_is_terminal` | verdict and rollback are both written by id: whichever commits last wins |
| `outcome_restated` | `ScorecardIsEvidence` | run_once "original action-level T+7 scorecard contract" | the snapshot is final, the verdict is computed from windows read a second time: a mart rebuilt in between makes them disagree |
| `notifications_final` | `FinalStatusIsFinal` | `FINAL_STATUSES` of delivery.py | a late callback, or the record of an attempt made before it, overwrites a final status; only DEAD_LETTER is protected |
| `notifications_clock` | `DeferredPastEvent` | `_quiet_end` of policy.py, the end of the quiet hours | in the hour that is repeated when the clock goes back the end is taken in its first pass: an event of the second pass is deferred to an instant before it |
| `copilot_rejected_key` | `RejectionIsNotHidden` | gateway.py: a 401 must not be "hidden by falling back" | the exception raised for it is caught by the general `except`, which breaks to the next provider |
| `search_terms_protection` | `ProtectionHolds` | protections.py "fail-closed decision" | only the newest row that applies is read: a newer one that was released, or says `deny`, hides an older protection that is still active |

Also met while modelling, and visible in the modules though no run is spent on
them:

- an answer of Amazon that refuses the item in its body (207) is recorded as
  applied, because `_call` takes every 2xx for a success (ads_api.py:138): with
  `AppliedWasWritten` as a property, "Approved actions apply safely" (README.md:265),
  the instance of `one_worker` is refuted; what holds is `AppliedWasAnswered`;
- a worker without `--live-ads` records approved rows
  as applied (`DryApply`); an overdue proposal can neither be decided nor expire,
  because nothing outside the tests calls `expire` (`Decidable`); rounding and
  bounds after the clamp let a proposal exceed `max_change_pct`, 3 cents becoming
  4 at 25 % (`Magnitude`; the extent is `ProposalNearLimit`);
- retries inside `_call` take no token of the bucket (`Again`), so the grants
  conform and the requests may not;
- alerts are never resolved (`RaiseAlerts`); report progress and heartbeat are
  committed with the success, so nobody sees them;
- due pairs are fetched oldest first and up to a limit: that many actions that
  never mature keep all newer ones out (`FetchDueSnapshots`, and the condition
  in `EvidenceArrives`);
- consent is read when the event is published, and revoking it later stops
  nothing (`Due`); a RETRYABLE callback sets no `next_attempt_at`, and what is
  deferred or put into a digest is taken up by nobody: no eventual delivery is
  claimed;
- nothing outside the tests calls `enqueue_due` and `route_completed`, so that
  no liveness is claimed of scheduled delivery either;
- the default limit of 500 rows is below `MAX_ROWS`, so an answer cut by it is
  not marked as truncated (`TruncationIsMarked` covers the mark only above it);
- a failed promotion is promoted again, and both are open once the retry has
  released the first (`OnePromotion` says up to where system_map.py:68 "not
  harvested twice" holds); a first lineage that never serves shadows the later
  ones of its source (`Covered`); rounding may put a revived bid up to half a
  cent above break-even (`RevivedBidIsSafe`); the live worker has no code for
  `create_keyword`, so promotions are applied by hand or by a dry run.

### Bounds, and why they are enough

`MaxEvents`, `MaxFaults`, `MaxEdits`, `MaxChanges`, `MaxOutages` and
`MaxCrashes` bound what the system does not control (crashes, edits, settings,
lost writes): two let one event hit a run and another the run that repairs it;
where one is used, the second run that it can hit is a second process. Two rows
are what competing for an entity or for the daily limit takes; two processes
what racing takes. One retry and one replay reach every combination of counted,
scheduled and dead-lettered. Two attempts reach the failed job that may be
retried and the one that may not. Two slots let a schedule miss one and catch up
on it. Bids of a
few cents are where a cent is coarse against a percentage; the start bids and
rules put a target below, on and above every limit.

In `ingestion` the windows keep the proportions of the code (re-ingestion shorter
than the backfill, the sales backfill longer than that of Ads), with a catch-up,
which the operator chooses freely, longer than the backfill of Ads,
and the three days of `FirstDay .. MaxDay` let a day fail, be re-ingested, and
leave Amazon's window. In `client` three attempts are a 401 followed by two other
failures, and a burst of 2 with half a token per tick reaches the empty, the
fractional and the full bucket. In `outcome` the two horizons are one before and
one at the verdict, and the limit of two pairs is reached with the pair that never
matures among them; with a limit of one it would keep all others out for ever,
which is why `EvidenceArrives` asks for fewer such pairs than the limit. In
`notifications` a day of 6 units has quiet hours
inside it and over midnight, and a clock change of two units puts an end of quiet
hours into the repeated and into the missing hour. In `copilot` one caller and one asker suffice for these
properties, as calls share nothing but recorded spend, and the budget of 3 lets
one cheap call through and no dear one. In `search_terms` two promotions
are what a duplicate takes and one route leads back to the source.

The theorems remove these bounds for the properties they cover.

Deadlock is not checked where the system may really stop: `guardrails_limits`
(with automation switched off and no event left nothing can happen to the
proposal, which is what the switch is for), `client` (no run after `LastStart`),
`outcome` (the last day, all evidence in), `notifications` (every delivery
settled or not eligible, the callbacks spent), `copilot` (no call left, every question answered),
`search_terms` (no edit and no promotion left). All other runs check it.

### Fairness

- `ActionPipeline!FairSpec`: a started worker keeps running and the scheduler
  starts it again (weak fairness of `WorkerStep`), the retry worker is started
  again (`ReleaseDue`), time passes. Nothing is assumed of people. `progress`
  uses one worker per tenant, as the deployment does.
- `ReportJobs!FairSpec`: each report worker is invoked again and again, which
  is how `main` (one job per invocation) is meant to be used. Only
  `reports_crash` uses it, where it makes the refutation count.
- `Ingestion!FairSpec`: the scheduler is started again and runs to its end.
  Nothing is assumed of the operator who replays a plan, of Amazon or of time.
- `AmazonClient!FairSpec`: the process runs and its sleeps end. Amazon may
  answer with any error at every attempt.
- `ActionOutcome!FairSpec`: verification is part of every cycle, marts are
  rebuilt, a rollback that was begun is carried to its end; nobody has to begin
  one.
- `SearchTerms!FairSpec`: analysis and mart refresh are scheduled, and a stale
  source recovers. Nothing is assumed of people or of Amazon's traffic.

`ReportDelivery`, `Notifications` and `Copilot` have no fairness: no loop of the
repository calls the operations of the first two, and no liveness is claimed.

## 5. Proofs

All proofs are for any number of rows, entities, bids, workers, jobs,
processes, rules and settings, under the ASSUMEs of the modules (constants
have their types, `None` is not a row, settings pass `_validated_values`).

**ActionPipeline_proofs.** `TypeCorrect` rests on `TypeInv`: types, and that a
worker that reads, writes or persists has an action of its batch in hand.
`RetryBudgetHolds` needs `RetryInv`: the number of releases never exceeds the
number of counted failures, and a scheduled retry has one in reserve; that is
why `retry_count` must not be reset by a replay.
`StandingControlHolds` needs `ControlInv`: no row of a standing entity is
among the survivors, the work list after the control phase, in hand, or staged
as applied. `AppliedWasAnsweredHolds` (all workers live) needs `AnsweredInv`: a
staged success had an answer. `OnlyApprovedHolds`,
`FailureAccountedHolds`, `SentOnceHolds` and `Refinement` are proved for one worker
per tenant, from `BatchApproved`: the rows of a running batch are still approved;
`SentInv` adds that a row whose bid was sent for its approval is staged or in hand,
or the run was lost. The
configuration `pipeline_concurrent_workers` shows that this assumption is needed.

**ReportJobs_proofs.** The invariant is `JobInv`: types; the queue holds
only queued jobs, each once, and they have attempts left; a process at work has claimed a job that is
running under its id, and no other process has it; a process past `Store` has
its file in the store; artifacts belong to succeeded jobs and have their file.
`OneRunnerHolds` follows although `worker_id` is the same for all: it is the
queue being a set without repetition that separates them. `LogTellsStateHolds`
adds, per job, which events are present up to the current attempt;
`AcceptedScopeHolds` that an answered job has been inserted. `Refinement`
shows that no update ever makes the trigger raise.

**Rules_proofs, the guardrails.** Four lemmas say what rounding (`RoundNear`), a
rule (`TargetsInt`), the clamp (`ClampWithin`) and step 9 of `check` as a whole
(`MagnitudeWithin`) return. From them `TypeCorrect`, `ProposalInBoundsHolds`,
`ProposalNearLimitHolds` and `AppliedWithinRunLimitsHolds`, the last for
arbitrary changes of the settings between proposal and check and between check and
write: `PinnedInv` says that what passed the check is inside the limits of the
settings the run has read, and stays so. That these may be outdated when the bid is
written is what `guardrails_mid_run` shows.
`RefusedOnlyAtLimitHolds` needs `UnmovedInv`, that while nothing has moved the
settings are those of the proposal and no guard blocks its evidence, and
`MagnitudeKeeps`: step 9 returns a bid that lies inside the limits unchanged.

**Rules_proofs, the search terms.** No property is inductive alone; `TermInv`
adds to them what happened between a read and the commit that uses it.
`ExecutionInv`: a promotion is in the order of execution exactly once, from the
moment it is applied, and has its lineage. `TrafficInv`: traffic is counted from
the execution on and the mart is never ahead of it, so that a lagging mart can
only make an isolation wait. `PlanInv`: while a rules run holds a plan, every
open promotion is one that has failed before; `OnePromotionHolds` rests on it,
since the commit does not look again. `FindingInv`: what the analysis in hand
recommends may be isolated (`Isolable`, which no later step undoes:
`IsolableStays`) and is one negative per source; with it `IsolatedIsServedHolds`
and `AnalysisCompletesHolds`. `SourceIsBest` proves that `choose_source` returns
the best source by its order, and `RevivedWithin` bounds the arithmetic of
`decide_revive`. `PromotionRefinement` maps the promotions to
`ActionStateMachine`. No thresholds, routes, protections or number of promotions
are fixed; `SearchTermsAssumption` asks that bids of the histories are natural
numbers.

**AmazonClient_proofs.** `ClientInv` is the types and `BucketInv`, of the process that
lives (a new one begins with full buckets and an empty `load`): a bucket was
filled no earlier than its last grant, and what it holds plus what is left of
the grants, drained up to that moment, fits into one burst. Lemmas say what
filling (`FilledBounds`) and draining (`DrainedBounds`) do to that sum, which
`GrantsConformHolds` follows from. `CreatedOnceHolds` needs `CreateInv`, that
nothing was created while a creation is still tried, and the assumption that
creation is in `NON_RETRYABLE_ENDPOINTS`; `RotatedIsStoredHolds` needs `TokenInv`,
that a run in progress holds the newest token unless the answer that brought it was
lost, and the assumption `Persists`, without which the instance of `client` refutes
it. `wake` is typed as an integer
only, because the provers know no bound of a power.

**Ingestion_proofs.** `IngestionInv` is the types, that calls are made as of
today or a day that has been (`AsOfInv`), and three parts that carry the
argument. `StagedInv`: the days of a run that is not committed yet are an
interval that leaves no gap above the watermark, except days Amazon no longer
serves, whatever other runs commit meanwhile; that holds since the watermark
only rises. `MarkInv` says the same of the watermark, and `LoadedInv` that the
covered days were loaded. `ReplayCoversGapHolds` is about every call that waits
for its turn, whatever the other processes commit before it, and for any windows: by
`MarkInv` what is missing lies above the mark the replay plans from, or Amazon no
longer serves it (`GapIsPlanned`). `FreshMeansLoadedHolds` and
`LedgerRefinement` assume `Modes = {"live"}`, which `ingestion_dry_run.cfg` shows
to be needed.

**ActionOutcome_proofs.** `OutcomeInv` is types, where a verifier or operator
stands in its transaction (`Places`), that two transactions never hold one row
(`Locks`), that a staged snapshot keeps a complete one (`StagedKeepsFinal`), and
that a verifier which has staged complete T+7 evidence also stages, or is about to
stage, the verdict (`WillClose`); `EvidenceIsFinalHolds` and
`EvidenceClosesActionHolds` follow, for any mart. `OnlyRollbackReopensHolds` adds
`RollbackIsAsked`, that a rolled back action has its request in the ledger; an
operator stages the request before the row, which `OperatorCommits` carries
through the commit. `ScorecardAgreesHolds` is
for any number of rebuilt marts and excepts the actions a settled day was rebuilt
for (`restated`), since two verifiers that read at different times agree only while
settled days do not change; `outcome_restated` shows that the exception is needed. Its invariant `ScoreInv` adds that whatever is stored, staged
or held in hand as evidence or verdict is what the settled windows say. The sums
over a window are reasoned about with induction over the naturals, which
`Induction` derives from the well-foundedness of `<`; the library's own form
takes an operator.

**Notifications_proofs.** `DeliveryInv` adds to `RowMatchesLedger` what a sender
has in hand (`BusyInv`), when a next attempt is set (`RetryInv`) and that nothing
happens to a delivery before the event is published (`PublishInv`). `DeferredToEndOfQuietHolds`
rests on `QuietEndIsFirst`, arithmetic of the day for any quiet hours, and on
`DeferralOnTheClock`: what the conversion there and back returns for any clock
change, the repeated and the missing hour included.
`DeadLetterIsFinalHolds` needs `DeadInv`: whatever a sender still has in hand of
a dead letter is recorded already, so that its late record is a duplicate.

**Copilot_proofs.** `ChainInv`: a chain that begins with a local provider has
nothing else, requests go to members of the chain, the first one to its head.
`RecordInv`: the rows are the failures when no write raised, and fall short
of them by at most as many as did. `EndingInv` ties the steps of `audited` to the log
(`Pending` before its `finally`, `Matches` after it: the ending that was told, but
for an error whose own write raised) and `AnswerInv` to the answer. The SQL and
the gateway share only the count of lost writes, so the two halves are proved
apart. The fallback lists have no repetitions, as `fallback_chain` drops them.
`CallIsBoundedHolds` counts requests against the providers passed and the attempt
in hand (`BoundInv`).

**The delivery half of ReportJobs_proofs.** `DeliveryInv` is `JobInv`, `LogInv`
and `AcceptInv` of the queue, with `SlotInv` (the runs of a schedule are exactly its
slots before `next_run_at`) and `RunHasItsJob`, which ties runs to jobs; a web
request that takes the key of a slot first does not disturb them: the schedule
rejoins that job when the scope is its own, and does not advance when it is not.
The queue is not assumed to be the one of `ReportJobs!Spec`: `QueueUnderSchedules`
and `DeliveryRefinement` prove its promises again for a queue that schedules fill
several jobs at a time. The set of schedules has to be finite.

**The daily limit in ActionPipeline_proofs.** `DailyLimitHolds` counts rows: those
applied today and those a run may still commit as applied (recorded so, let
through by the guardrails, or left to apply) together stay within `DailyLimit`,
because the counter is read long before the commit (`LimitInv`). It assumes one worker and that it is live; two workers count the same
applied rows, and a dry run checks no guardrail.

**The extent of findings.** Where a text of the repository promises more than the
code keeps (section 4), a weaker theorem says what holds for all instances:

| refuted | what is proved |
| --- | --- |
| `RefusedOnlyIfMoved` | `RefusedOnlyAtLimitHolds`: an unmoved proposal is refused only if rounding or a bound has put it on or beyond the percentage limit |
| `FinalStatusIsFinal` | `DeadLetterIsFinalHolds`: DEAD_LETTER is final |
| `TerminalIsFinal` | `OnlyRollbackReopensHolds`: only an action with a rollback in the ledger leaves a terminal state; verification runs never undo each other |
| `EveryAttemptIsRecorded` | `FailuresAreRecordedHolds`: the failed attempts are; `BudgetForgetsHolds`: `check_budget` decides as if nothing had been spent, always; what bounds the charges is `CallIsBoundedHolds`, at most `MAX_ATTEMPTS_PER_PROVIDER` requests per provider of a call |
| `AppliedWasWritten` | `AppliedWasAnsweredHolds`: an applied row had an answer; `SentOnceHolds`: one call per approval |
| `KillSwitchBeatsEverything` | `AppliedWithinRunLimitsHolds`: a bid is inside the limits of the settings its run has read |
| `NewestIsStored` | `RotatedIsStoredHolds`: a rotation that arrived is stored unless its process died |
| `ScorecardIsEvidence` | `ScorecardAgreesHolds`: they agree for actions whose settled days were not rebuilt |
| `DeferredPastEvent` | `DeferredToEndOfQuietHolds`: the deferral ends with the quiet hours on the local clock |

**Only model-checked:** everything under fairness (`ApprovedIsResolved`,
`YesterdayArrives`, `FailureIsAlerted`, `RunEnds`, `EvidenceArrives`,
`ProvenIsIsolated`), which the prover cannot do. Every other property of a
passing run is a theorem. None of these modules declares a RECURSIVE operator.

## 6. Not modelled

See the components with status `not_modelled` or `partly` in `PROJECT.json`.
What is planned is in section 2: product scopes and expiry of human control,
configuration rollouts, the calendar of report schedules (in the hour that is
repeated at the end of daylight saving `next_run` compares wall-clock times
without `fold`), migrations, cost allocation. Pure tables, demonstration data,
SQL marts, rendering, cryptography, text analysis and read-only queries stay
out, because they keep no state whose order matters.

## 7. Running

    tlc -workers 2 -config pipeline_one_worker.cfg MCActionPipeline
    tlc -workers 2 -config delivery.cfg MCReportDelivery
    tlc -workers 2 -config guardrails_limits.cfg MCBidGuardrails
    tlc -workers 2 -config ingestion.cfg MCIngestion
    tlc -workers 2 -config client.cfg AmazonClient
    tlc -workers 2 -config outcome.cfg MCActionOutcome
    tlc -workers 2 -config notifications.cfg MCNotifications
    tlc -workers 2 -config copilot.cfg MCCopilot
    tlc -workers 2 -config search_terms.cfg MCSearchTerms
    tlapm ActionPipeline_proofs.tla

and likewise for the other configurations and `*_proofs` modules. The largest
runs are `copilot` (1.3 million states), `search_terms` (0.9 million),
`notifications` (0.8 million) and `ingestion`, each below two minutes; `outcome`
is small (90 thousand) and takes one for its liveness.
