----------------------------- MODULE ReportJobs -----------------------------
(***************************************************************************)
(* Asynchronous report jobs of one tenant:                                 *)
(*                                                                         *)
(*   services/reports/jobs.py, apps/web/lib/reports.ts  request and retry  *)
(*   services/reports/worker.py     claims, reads the mart, renders        *)
(*   services/reports/artifacts.py  records the artifact and the success   *)
(*   services/reports/storage.py    keeps the file, outside the database   *)
(*                                                                         *)
(* A job is named by its idempotency key, which is unique per tenant.      *)
(* run_once uses two transactions: the claim is committed by itself; read, *)
(* render, store and success are one transaction that holds the row's      *)
(* lock, so nothing of it but the stored file is visible before Commit.    *)
(* Its exception handler rolls back and commits the failure in a third.    *)
(*                                                                         *)
(* No code cancels a job, deactivates a definition or passes a future      *)
(* next_attempt_at, so these are not modelled; queue is the order by       *)
(* next_attempt_at, queued_at, both of which are the time of queueing.     *)
(***************************************************************************)
EXTENDS Naturals, Sequences

CONSTANTS Keys,         \* idempotency keys
          Scopes,       \* requester, definition, dates, filters, format
          Contents,     \* what the mart holds, hence what is rendered
          Procs,        \* report worker processes
          WorkerId,     \* --worker-id of each; "report-worker" by default
          MaxAttempts,  \* report_job.max_attempts
          None,         \* no artifact, no job, no owner
          MaxEvents     \* bound: crashes and mart refreshes

ASSUME ReportAssumption ==
    /\ None \notin Keys
    /\ None \notin Contents
    /\ MaxAttempts \in Nat \ {0}
    /\ MaxEvents \in Nat

VARIABLES
    \* table report_job, and its queued rows in claim order
    status, scope, attempt, owner, queue,
    \* report_artifact.content_sha256, whether expires_at has passed
    artifact, expired,
    \* report_job_event: job, event type, attempt
    log,
    \* the artifact store: job and content make the file name
    files,
    \* what mart_ppc_campaign_daily holds now
    mart,
    \* worker processes: program counter, claimed job, rows read
    pc, job, data,
    \* events so far; history: requests that were answered with a job
    events, accepted

rowVars  == <<status, scope, attempt, owner, queue, artifact, expired, log>>
procVars == <<pc, job, data>>
vars == <<rowVars, files, mart, procVars, events, accepted>>

Init ==
    /\ status = [k \in Keys |-> "none"]
    /\ scope \in [Keys -> Scopes]
    /\ attempt = [k \in Keys |-> 0]
    /\ owner = [k \in Keys |-> None]
    /\ queue = << >>
    /\ artifact = [k \in Keys |-> None]
    /\ expired = {}
    /\ log = {}
    /\ files = {}
    /\ mart \in Contents
    /\ pc = [p \in Procs |-> "idle"]
    /\ job = [p \in Procs |-> None]
    /\ data \in [Procs -> Contents]
    /\ events = 0
    /\ accepted = {}

-----------------------------------------------------------------------------
(* Requests: enqueue_job, createReport *)

\* _event
Logged(k, type, n) == log' = log \cup {<<k, type, n>>}

\* insert ... on conflict(tenant_id,idempotency_key) do nothing
Insert(k, s) ==
    /\ status[k] = "none"
    /\ status' = [status EXCEPT ![k] = "queued"]
    /\ scope' = [scope EXCEPT ![k] = s]
    /\ queue' = Append(queue, k)
    /\ Logged(k, "queued", 0)
    /\ accepted' = accepted \cup {<<k, s>>}
    /\ UNCHANGED <<attempt, owner, artifact, expired, files, mart, procVars, events>>

\* Mutant: the existing row is returned without comparing its scope
Rejoin_AnyScope(k, s) ==
    /\ status[k] # "none"
    /\ accepted' = accepted \cup {<<k, s>>}
    /\ UNCHANGED <<rowVars, files, mart, procVars, events>>

\* the same request again is answered with the existing job
Rejoin(k, s) ==
    /\ status[k] # "none"
    /\ scope[k] = s
    /\ accepted' = accepted \cup {<<k, s>>}
    /\ UNCHANGED <<rowVars, files, mart, procVars, events>>

\* IdempotencyConflict, or 409
Conflict(k, s) ==
    /\ status[k] # "none"
    /\ scope[k] # s
    /\ UNCHANGED vars

Request(k, s) == Insert(k, s) \/ Rejoin(k, s) \/ Conflict(k, s)

\* Mutant: one attempt too many
Retryable_OffByOne(k) == status[k] = "failed" /\ attempt[k] <= MaxAttempts

Retryable(k) == status[k] = "failed" /\ attempt[k] < MaxAttempts

\* retry_job, retryReport
Retry(k) ==
    /\ Retryable(k)
    /\ status' = [status EXCEPT ![k] = "queued"]
    /\ owner' = [owner EXCEPT ![k] = None]
    /\ queue' = Append(queue, k)
    /\ Logged(k, "retry_queued", attempt[k])
    /\ UNCHANGED <<scope, attempt, artifact, expired, files, mart, procVars, events, accepted>>

-----------------------------------------------------------------------------
(* Worker, run_once *)

Goto(p, l) == pc' = [pc EXCEPT ![p] = l]

\* Mutant: the claim is only a lock; the status update is not committed
Claim_NotCommitted(p) ==
    /\ pc[p] = "idle"
    /\ queue # << >>
    /\ LET k == Head(queue) IN
       /\ owner' = [owner EXCEPT ![k] = WorkerId[p]]
       /\ job' = [job EXCEPT ![p] = k]
    /\ Goto(p, "claimed")
    /\ UNCHANGED <<status, attempt, queue, log, scope, artifact, expired, files, mart, data, events, accepted>>

\* claim_next_job, committed at once
Claim(p) ==
    /\ pc[p] = "idle"
    /\ queue # << >>
    /\ LET k == Head(queue) IN
       /\ status' = [status EXCEPT ![k] = "running"]
       /\ attempt' = [attempt EXCEPT ![k] = @ + 1]
       /\ owner' = [owner EXCEPT ![k] = WorkerId[p]]
       /\ Logged(k, "started", attempt[k] + 1)
       /\ job' = [job EXCEPT ![p] = k]
    /\ queue' = Tail(queue)
    /\ Goto(p, "claimed")
    /\ UNCHANGED <<scope, artifact, expired, files, mart, data, events, accepted>>

\* the row that _finish and render_claimed_job look for
Owned(p) == status[job[p]] = "running" /\ owner[job[p]] = WorkerId[p]

\* lock the job, query its source; the progress update is part of the
\* transaction and so never seen by anyone while the job runs
ReadSource(p) ==
    /\ pc[p] = "claimed"
    /\ status[job[p]] = "running"
    /\ data' = [data EXCEPT ![p] = mart]
    /\ Goto(p, "read")
    /\ UNCHANGED <<rowVars, files, mart, job, events, accepted>>

\* Mutant: the temporary file is never renamed to its key
Store_NotRenamed(p) ==
    /\ pc[p] = "read"
    /\ Owned(p)
    /\ Goto(p, "stored")
    /\ UNCHANGED <<rowVars, files, mart, job, data, events, accepted>>

\* render_dataset, put_private: fsync and rename, durable whatever happens next
Store(p) ==
    /\ pc[p] = "read"
    /\ Owned(p)
    /\ files' = files \cup {<<job[p], data[p]>>}
    /\ Goto(p, "stored")
    /\ UNCHANGED <<rowVars, mart, job, data, events, accepted>>

\* end of run_once
Done(p) ==
    /\ Goto(p, "idle")
    /\ job' = [job EXCEPT ![p] = None]
    /\ UNCHANGED <<data, files, mart>>

\* _persist, succeed_job, commit
Commit(p) ==
    /\ pc[p] = "stored"
    /\ artifact[job[p]] = None
    /\ Owned(p)
    /\ status' = [status EXCEPT ![job[p]] = "succeeded"]
    /\ artifact' = [artifact EXCEPT ![job[p]] = data[p]]
    /\ Logged(job[p], "succeeded", attempt[job[p]])
    /\ Done(p)
    /\ UNCHANGED <<scope, attempt, owner, queue, expired, events, accepted>>

\* An unsupported source, filter or value, a storage error, a lost row or a
\* failed commit: the transaction is rolled back.
Raise(p) ==
    /\ pc[p] \in {"claimed", "read", "stored"}
    /\ Goto(p, "raised")
    /\ UNCHANGED <<rowVars, files, mart, job, data, events, accepted>>

\* fail_job and its commit; run_once raises when the row is not the worker's
Fail(p) ==
    /\ pc[p] = "raised"
    /\ IF Owned(p)
       THEN /\ status' = [status EXCEPT ![job[p]] = "failed"]
            /\ Logged(job[p], "failed", attempt[job[p]])
       ELSE UNCHANGED <<status, log>>
    /\ Done(p)
    /\ UNCHANGED <<scope, attempt, owner, queue, artifact, expired, events, accepted>>

-----------------------------------------------------------------------------
(* Around it *)

\* the process dies: its open transaction is rolled back, its claim stays
Crash(p) ==
    /\ events < MaxEvents
    /\ events' = events + 1
    /\ pc[p] # "idle"
    /\ Done(p)
    /\ UNCHANGED <<rowVars, accepted>>

\* the dbt build replaces the mart
Refresh ==
    /\ events < MaxEvents
    /\ events' = events + 1
    /\ mart' \in Contents \ {mart}
    /\ UNCHANGED <<rowVars, files, procVars, accepted>>

Expire(k) ==
    /\ artifact[k] # None
    /\ expired' = expired \cup {k}
    /\ UNCHANGED <<status, scope, attempt, owner, queue, artifact, log>>
    /\ UNCHANGED <<files, mart, procVars, events, accepted>>

WorkerStep(p) ==
    \/ Claim(p)
    \/ ReadSource(p)
    \/ Store(p)
    \/ Commit(p)
    \/ Raise(p)
    \/ Fail(p)

Around ==
    \/ \E k \in Keys : Retry(k) \/ Expire(k)
    \/ \E p \in Procs : Crash(p)
    \/ Refresh

Next ==
    \/ \E k \in Keys, s \in Scopes : Request(k, s)
    \/ \E p \in Procs : WorkerStep(p)
    \/ Around

Spec == Init /\ [][Next]_vars

\* main() renders one job per invocation and is invoked again and again
FairSpec == Spec /\ \A p \in Procs : WF_vars(WorkerStep(p))

-----------------------------------------------------------------------------
(* Properties *)

\* Every variable has the type its table column or Python value has.
TypeOK ==
    /\ status \in [Keys -> {"none", "queued", "running", "succeeded", "failed"}]
    /\ scope \in [Keys -> Scopes]
    /\ attempt \in [Keys -> 0 .. MaxAttempts]
    /\ owner \in [Keys -> {WorkerId[p] : p \in Procs} \cup {None}]
    /\ queue \in Seq(Keys)
    /\ artifact \in [Keys -> Contents \cup {None}]
    /\ expired \subseteq Keys
    /\ log \subseteq Keys \X {"queued", "started", "succeeded", "failed", "retry_queued"} \X Nat
    /\ files \subseteq Keys \X Contents
    /\ mart \in Contents
    /\ pc \in [Procs -> {"idle", "claimed", "read", "stored", "raised"}]
    /\ job \in [Procs -> Keys \cup {None}]
    /\ data \in [Procs -> Contents]
    /\ events \in 0 .. MaxEvents
    /\ accepted \subseteq Keys \X Scopes

\* A process that is at work on a job owns it (claim_next_job gave the row to
\* it and to nobody else), although every process may carry the same
\* worker id: no two processes render the same job at once.
OneRunner ==
    \A p \in Procs : pc[p] # "idle" =>
        /\ Owned(p)
        /\ \A q \in Procs : pc[q] # "idle" /\ job[q] = job[p] => p = q

\* A job that says succeeded has an artifact row whose file is in the store
\* under that very content, and no other job has an artifact: the download
\* (authorizedArtifact, readAuthorizedArtifact) never fails its integrity
\* check, although the file is written outside the transaction.
SucceededIsStored ==
    \A k \in Keys :
        /\ status[k] = "succeeded" <=> artifact[k] # None
        /\ artifact[k] # None => <<k, artifact[k]>> \in files

\* The last event of a job, by attempt, is the one its status stands for:
\* report_job_event can be replayed to the row.
LogTellsState ==
    \A k \in Keys :
        LET Has(type, n) == <<k, type, n>> \in log
            n == attempt[k]
        IN  /\ status[k] # "none" <=> Has("queued", 0)
            /\ \A m \in 1 .. MaxAttempts : Has("started", m) <=> m <= n
            /\ \A m \in 1 .. MaxAttempts : m < n => Has("failed", m) /\ Has("retry_queued", m)
            /\ status[k] = "running" => ~Has("failed", n) /\ ~Has("succeeded", n)
            /\ status[k] = "failed" <=> n > 0 /\ Has("failed", n) /\ ~Has("retry_queued", n)
            /\ status[k] = "succeeded" <=> n > 0 /\ Has("succeeded", n)

\* Everyone who was answered with a job got one of exactly the scope asked
\* for: an idempotency key is never shared by two different reports.
AcceptedScope == \A r \in accepted : scope[r[1]] = r[2]

Transitions == INSTANCE ReportJobTransitions WITH
    Keys <- Keys, MaxAttempts <- MaxAttempts, status <- status, attempt <- attempt, scope <- scope

\* No update of report_job makes the trigger of 0032 raise: every step of the
\* system, crashes included, moves each row as the trigger allows.
NeverRaises == Transitions!Spec

\* The outcome of a claimed job becomes observable: "claim and terminal
\* outcome remain observable" (services/reports/worker.py:91).
ClaimedIsFinished ==
    \A k \in Keys : status[k] = "running" ~> status[k] \in {"succeeded", "failed"}
=============================================================================
