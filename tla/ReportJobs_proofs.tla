------------------------- MODULE ReportJobs_proofs -------------------------
(***************************************************************************)
(* Proofs about ReportJobs and, on top of it, ReportDelivery, for any      *)
(* number of jobs, worker processes, attempts, contents, schedules and     *)
(* slots.  Safety only: what happens eventually stays with TLC.            *)
(*                                                                         *)
(* The invariant of the queue is JobInv.  OneRunner is not inductive       *)
(* alone: a claim keeps it only because the head of the queue is a queued  *)
(* row that occurs once (QueueInv), and so is in nobody's hands.           *)
(* SucceededIsStored needs in addition that a process about to commit has  *)
(* stored what it will record (StoredInv).                                 *)
(*                                                                         *)
(* The schedules add steps that enqueue several jobs at once, so JobInv is *)
(* proved again for them, as part of DeliveryInv.                          *)
(***************************************************************************)
EXTENDS ReportDelivery, FiniteSetTheorems, SequenceTheorems, TLAPS

\* The queue holds queued rows, each once, and those have attempts left.
QueueInv ==
    /\ \A i \in 1 .. Len(queue) : status[queue[i]] = "queued"
    /\ \A i, j \in 1 .. Len(queue) : queue[i] = queue[j] => i = j
    /\ \A k \in Keys : status[k] \in {"none", "queued"} => attempt[k] < MaxAttempts

\* A process has a job in hand exactly while run_once works on one.
HandInv == \A p \in Procs : pc[p] = "idle" <=> job[p] = None

\* The file is in the store before the artifact row is committed.
StoredInv == \A p \in Procs : pc[p] = "stored" => <<job[p], data[p]>> \in files

JobInv == TypeOK /\ QueueInv /\ HandInv /\ OneRunner /\ StoredInv /\ SucceededIsStored

-----------------------------------------------------------------------------

\* The empty tables satisfy the invariant.
LEMMA InitJobs == Init => JobInv
<1> USE ReportAssumption
<1> SUFFICES ASSUME Init PROVE JobInv
  OBVIOUS
<1>1. TypeOK
  BY DEF Init, TypeOK
<1>2. QueueInv
  BY DEF Init, QueueInv
<1>3. HandInv /\ OneRunner /\ StoredInv
  BY DEF Init, HandInv, OneRunner, StoredInv
<1>4. SucceededIsStored
  BY DEF Init, SucceededIsStored
<1> QED BY <1>1, <1>2, <1>3, <1>4 DEF JobInv

\* insert or retry: a row that is in nobody's hands joins the queue.
LEMMA RequestStep ==
    ASSUME JobInv, NEW k \in Keys, NEW s \in Scopes, Request(k, s) \/ Retry(k)
    PROVE  JobInv'
<1> USE ReportAssumption DEF JobInv
<1>1. CASE Insert(k, s)
  <2> USE <1>1 DEF Insert, Logged, procVars
  <2>1. TypeOK'
    BY DEF TypeOK
  <2>2. QueueInv'
    BY DEF TypeOK, QueueInv
  <2>3. HandInv'
    BY DEF HandInv
  <2>4. OneRunner'
    BY DEF TypeOK, OneRunner, HandInv, Owned
  <2>5. StoredInv'
    BY DEF StoredInv
  <2>6. SucceededIsStored'
    BY DEF TypeOK, SucceededIsStored
  <2> QED BY <2>1, <2>2, <2>3, <2>4, <2>5, <2>6
<1>2. CASE Retry(k)
  <2> USE <1>2 DEF Retry, Retryable, Logged, procVars
  <2>1. TypeOK'
    BY DEF TypeOK
  <2>2. QueueInv'
    BY DEF TypeOK, QueueInv
  <2>3. HandInv'
    BY DEF HandInv
  <2>4. OneRunner'
    BY DEF TypeOK, OneRunner, HandInv, Owned
  <2>5. StoredInv'
    BY DEF StoredInv
  <2>6. SucceededIsStored'
    BY DEF TypeOK, SucceededIsStored
  <2> QED BY <2>1, <2>2, <2>3, <2>4, <2>5, <2>6
<1>3. CASE Rejoin(k, s)
  BY <1>3 DEF Rejoin, rowVars, procVars, TypeOK, QueueInv, HandInv, OneRunner, Owned,
              StoredInv, SucceededIsStored
<1>4. CASE Conflict(k, s)
  BY <1>4 DEF Conflict, vars, rowVars, procVars, TypeOK, QueueInv, HandInv, OneRunner, Owned,
              StoredInv, SucceededIsStored
<1> QED BY <1>1, <1>2, <1>3, <1>4 DEF Request

\* claim_next_job: the head of the queue is in nobody's hands.
LEMMA ClaimStep ==
    ASSUME JobInv, NEW p \in Procs, Claim(p)
    PROVE  JobInv'
<1> USE ReportAssumption DEF JobInv
<1> DEFINE k == Head(queue)
<1>1. /\ k \in Keys /\ queue # << >> /\ Tail(queue) \in Seq(Keys) /\ k # None
      /\ Len(queue) > 0 /\ k = queue[1]
      /\ Len(Tail(queue)) = Len(queue) - 1
      /\ \A i \in 1 .. Len(Tail(queue)) : Tail(queue)[i] = queue[i + 1] /\ i + 1 \in 1 .. Len(queue)
  BY DEF Claim, TypeOK
<1>2. status[k] = "queued" /\ attempt[k] < MaxAttempts
  BY <1>1 DEF QueueInv
<1>3. \A q \in Procs : job[q] # k
  BY <1>1, <1>2 DEF HandInv, OneRunner, Owned, TypeOK
<1>4. /\ status' = [status EXCEPT ![k] = "running"]
      /\ attempt' = [attempt EXCEPT ![k] = @ + 1]
      /\ owner' = [owner EXCEPT ![k] = WorkerId[p]]
      /\ log' = log \cup {<<k, "started", attempt[k] + 1>>}
      /\ job' = [job EXCEPT ![p] = k]
      /\ queue' = Tail(queue)
      /\ pc[p] = "idle" /\ pc' = [pc EXCEPT ![p] = "claimed"]
      /\ UNCHANGED <<scope, artifact, expired, files, mart, data, events, accepted>>
  BY DEF Claim, Logged, Goto
<1> HIDE DEF k
<1>5. TypeOK'
  <2>1. attempt[k] + 1 \in 0 .. MaxAttempts
    BY <1>1, <1>2 DEF TypeOK
  <2> QED BY <1>1, <1>4, <2>1 DEF TypeOK
<1>6. QueueInv'
  <2>0. Len(queue) \in Nat
    BY DEF TypeOK
  <2>1. ASSUME NEW i \in 1 .. Len(queue') PROVE status'[queue'[i]] = "queued"
    <3>1. i \in Nat /\ queue'[i] = queue[i + 1] /\ i + 1 \in 1 .. Len(queue) /\ i + 1 # 1
      BY <1>1, <1>4, <2>0
    <3>2. queue[i + 1] # k /\ queue[i + 1] \in Keys /\ status[queue[i + 1]] = "queued"
      BY <1>1, <2>0, <3>1 DEF QueueInv, TypeOK
    <3> QED BY <1>4, <3>1, <3>2 DEF TypeOK
  <2>2. ASSUME NEW i \in 1 .. Len(queue'), NEW j \in 1 .. Len(queue'), queue'[i] = queue'[j]
        PROVE  i = j
    <3>1. /\ i \in Nat /\ queue'[i] = queue[i + 1] /\ i + 1 \in 1 .. Len(queue)
          /\ j \in Nat /\ queue'[j] = queue[j + 1] /\ j + 1 \in 1 .. Len(queue)
      BY <1>1, <1>4, <2>0
    <3>2. i + 1 = j + 1
      BY <2>2, <3>1 DEF QueueInv
    <3> QED BY <3>1, <3>2
  <2>3. \A x \in Keys : status'[x] \in {"none", "queued"} => attempt'[x] < MaxAttempts
    BY <1>1, <1>4 DEF QueueInv, TypeOK
  <2> QED BY <2>1, <2>2, <2>3 DEF QueueInv
<1>7. HandInv' /\ OneRunner' /\ StoredInv'
  BY <1>1, <1>3, <1>4 DEF HandInv, OneRunner, Owned, StoredInv, TypeOK
<1>8. SucceededIsStored'
  BY <1>1, <1>2, <1>4 DEF SucceededIsStored, TypeOK
<1> QED BY <1>5, <1>6, <1>7, <1>8

\* The rest of run_once: the steps of a process with a job in hand.
LEMMA RunStep ==
    ASSUME JobInv, NEW p \in Procs,
           ReadSource(p) \/ Store(p) \/ Commit(p) \/ Raise(p) \/ Fail(p) \/ Crash(p)
    PROVE  JobInv'
<1> USE ReportAssumption DEF JobInv
<1>0. /\ pc[p] # "idle" /\ job[p] \in Keys /\ status[job[p]] = "running"
      /\ owner[job[p]] = WorkerId[p] /\ data[p] \in Contents
      /\ attempt[job[p]] \in Nat
  BY DEF ReadSource, Store, Commit, Raise, Fail, Crash, OneRunner, Owned, HandInv, TypeOK
<1>1. CASE ReadSource(p)
  <2> USE <1>0, <1>1 DEF ReadSource, Goto, rowVars
  <2>1. TypeOK'
    BY DEF TypeOK
  <2>2. QueueInv' /\ SucceededIsStored'
    BY DEF QueueInv, SucceededIsStored
  <2>3. HandInv' /\ OneRunner' /\ StoredInv'
    BY DEF HandInv, OneRunner, Owned, StoredInv, TypeOK
  <2> QED BY <2>1, <2>2, <2>3
<1>6. CASE Raise(p)
  <2> USE <1>0, <1>6 DEF Raise, Goto, rowVars
  <2>1. TypeOK'
    BY DEF TypeOK
  <2>2. QueueInv' /\ SucceededIsStored'
    BY DEF QueueInv, SucceededIsStored
  <2>3. HandInv' /\ OneRunner' /\ StoredInv'
    BY DEF HandInv, OneRunner, Owned, StoredInv, TypeOK
  <2> QED BY <2>1, <2>2, <2>3
<1>2. CASE Store(p)
  <2> USE <1>0, <1>2 DEF Store, Goto, rowVars
  <2>1. TypeOK'
    BY DEF TypeOK
  <2>2. QueueInv' /\ SucceededIsStored'
    BY DEF QueueInv, SucceededIsStored
  <2>3. HandInv' /\ OneRunner' /\ StoredInv'
    BY DEF HandInv, OneRunner, Owned, StoredInv, TypeOK
  <2> QED BY <2>1, <2>2, <2>3
<1>3. CASE Commit(p)
  <2> USE <1>0, <1>3 DEF Commit, Done, Goto, Logged
  <2>1. TypeOK'
    BY DEF TypeOK
  <2>2. QueueInv'
    BY DEF QueueInv, TypeOK
  <2>3. HandInv' /\ OneRunner' /\ StoredInv'
    BY DEF HandInv, OneRunner, Owned, StoredInv, TypeOK
  <2>4. SucceededIsStored'
    BY DEF SucceededIsStored, StoredInv, TypeOK
  <2> QED BY <2>1, <2>2, <2>3, <2>4
<1>4. CASE Fail(p)
  <2>1. /\ status' = [status EXCEPT ![job[p]] = "failed"]
        /\ log' = log \cup {<<job[p], "failed", attempt[job[p]]>>}
        /\ Done(p)
        /\ UNCHANGED <<scope, attempt, owner, queue, artifact, expired, events, accepted>>
    BY <1>0, <1>4 DEF Fail, Owned, Logged
  <2> USE <1>0, <2>1 DEF Done, Goto
  <2>2. TypeOK'
    BY DEF TypeOK
  <2>3. QueueInv'
    BY DEF QueueInv, TypeOK
  <2>4. HandInv' /\ OneRunner' /\ StoredInv'
    BY DEF HandInv, OneRunner, Owned, StoredInv, TypeOK
  <2>5. SucceededIsStored'
    BY DEF SucceededIsStored, TypeOK
  <2> QED BY <2>2, <2>3, <2>4, <2>5
<1>5. CASE Crash(p)
  <2> USE <1>0, <1>5 DEF Crash, Done, Goto, rowVars
  <2>1. TypeOK'
    BY DEF TypeOK
  <2>2. QueueInv' /\ SucceededIsStored'
    BY DEF QueueInv, SucceededIsStored
  <2>3. HandInv' /\ OneRunner' /\ StoredInv'
    BY DEF HandInv, OneRunner, Owned, StoredInv, TypeOK
  <2> QED BY <2>1, <2>2, <2>3
<1> QED BY <1>1, <1>2, <1>3, <1>4, <1>5, <1>6

\* Expiry and mart refreshes touch nothing the invariant is about.
LEMMA AroundStep ==
    ASSUME JobInv, Refresh \/ (\E k \in Keys : Expire(k)) \/ UNCHANGED vars
    PROVE  JobInv'
<1> USE ReportAssumption DEF JobInv
<1>1. CASE Refresh
  BY <1>1 DEF Refresh, rowVars, procVars, TypeOK, QueueInv, HandInv, OneRunner, Owned,
              StoredInv, SucceededIsStored
<1>2. ASSUME NEW k \in Keys, Expire(k) PROVE JobInv'
  BY <1>2 DEF Expire, procVars, TypeOK, QueueInv, HandInv, OneRunner, Owned,
              StoredInv, SucceededIsStored
<1>3. CASE UNCHANGED vars
  BY <1>3 DEF vars, rowVars, procVars, TypeOK, QueueInv, HandInv, OneRunner, Owned,
              StoredInv, SucceededIsStored
<1> QED BY <1>1, <1>2, <1>3

\* Every step keeps JobInv.
LEMMA JobStepInv == JobInv /\ [Next]_vars => JobInv'
<1> SUFFICES ASSUME JobInv, [Next]_vars PROVE JobInv'
  OBVIOUS
<1>1. ASSUME NEW k \in Keys, NEW s \in Scopes, Request(k, s) PROVE JobInv'
  BY <1>1, RequestStep
<1>2. ASSUME NEW k \in Keys, Retry(k) PROVE JobInv'
  <2>1. PICK s \in Scopes : TRUE
    BY DEF JobInv, TypeOK
  <2> QED BY <1>2, <2>1, RequestStep
<1>3. ASSUME NEW p \in Procs, WorkerStep(p) \/ Crash(p) PROVE JobInv'
  BY <1>3, ClaimStep, RunStep DEF WorkerStep
<1>4. ASSUME Refresh \/ (\E k \in Keys : Expire(k)) \/ UNCHANGED vars PROVE JobInv'
  BY <1>4, AroundStep
<1> QED BY <1>1, <1>2, <1>3, <1>4 DEF Next, Around

\* JobInv is an invariant of the specification.
LEMMA JobInvHolds == Spec => []JobInv
<1> QED BY InitJobs, JobStepInv, PTL DEF Spec

-----------------------------------------------------------------------------

\* Every reachable state is well typed; in particular no job ever has more
\* than max_attempts attempts.
THEOREM TypeCorrect == Spec => []TypeOK
<1>1. JobInv => TypeOK
  BY DEF JobInv
<1> QED BY <1>1, JobInvHolds, PTL

\* However many processes share a worker id, no two of them ever render the
\* same job, and whoever renders a job owns its row.
THEOREM OneRunnerHolds == Spec => []OneRunner
<1>1. JobInv => OneRunner
  BY DEF JobInv
<1> QED BY <1>1, JobInvHolds, PTL

\* Whatever crashes in between, exactly the succeeded jobs have an artifact,
\* and its file is in the store.
THEOREM SucceededIsStoredHolds == Spec => []SucceededIsStored
<1>1. JobInv => SucceededIsStored
  BY DEF JobInv
<1> QED BY <1>1, JobInvHolds, PTL

-----------------------------------------------------------------------------
(* What one step may do to the rows.  Every step of Next is one of these.   *)

\* Committed row changes of a step, with the log entry that goes with each.
RowStep(k) ==
    \/ /\ status[k] = "none" /\ status' = [status EXCEPT ![k] = "queued"]
       /\ attempt' = attempt /\ log' = log \cup {<<k, "queued", 0>>}
       /\ \A x \in Keys \ {k} : scope'[x] = scope[x]
    \/ /\ status[k] = "failed" /\ attempt[k] < MaxAttempts
       /\ status' = [status EXCEPT ![k] = "queued"]
       /\ attempt' = attempt /\ log' = log \cup {<<k, "retry_queued", attempt[k]>>}
       /\ scope' = scope
    \/ /\ status[k] = "queued" /\ status' = [status EXCEPT ![k] = "running"]
       /\ attempt' = [attempt EXCEPT ![k] = @ + 1]
       /\ log' = log \cup {<<k, "started", attempt[k] + 1>>}
       /\ scope' = scope
    \/ /\ status[k] = "running" /\ attempt' = attempt /\ scope' = scope
       /\ \E end \in {"succeeded", "failed"} :
              /\ status' = [status EXCEPT ![k] = end]
              /\ log' = log \cup {<<k, end, attempt[k]>>}

RowsSame == UNCHANGED <<status, attempt, log, scope>>

\* Every step either leaves the rows alone or moves one of them.
LEMMA RowSteps == JobInv /\ [Next]_vars => RowsSame \/ \E k \in Keys : RowStep(k)
<1> SUFFICES ASSUME JobInv, [Next]_vars PROVE RowsSame \/ \E k \in Keys : RowStep(k)
  OBVIOUS
<1> USE ReportAssumption DEF RowStep, RowsSame, JobInv
<1>1. ASSUME NEW k \in Keys, NEW s \in Scopes, Request(k, s)
      PROVE  RowsSame \/ RowStep(k)
  <2>1. CASE Insert(k, s)
    BY <2>1 DEF Insert, Logged, TypeOK
  <2>2. CASE Rejoin(k, s) \/ Conflict(k, s)
    BY <2>2 DEF Rejoin, Conflict, vars, rowVars
  <2> QED BY <1>1, <2>1, <2>2 DEF Request
<1>2. ASSUME NEW k \in Keys, Retry(k) PROVE RowStep(k)
  BY <1>2 DEF Retry, Retryable, Logged
<1>3. ASSUME NEW p \in Procs, Claim(p) PROVE \E k \in Keys : RowStep(k)
  <2>1. Head(queue) \in Keys /\ status[Head(queue)] = "queued"
    <3>1. queue \in Seq(Keys) /\ queue # << >>
      BY <1>3 DEF Claim, TypeOK
    <3>2. 1 \in 1 .. Len(queue) /\ Head(queue) = queue[1]
      BY <3>1
    <3> QED BY <3>1, <3>2 DEF QueueInv
  <2>2. RowStep(Head(queue))
    BY <1>3, <2>1 DEF Claim, Logged
  <2> QED BY <2>1, <2>2
<1>4. ASSUME NEW p \in Procs, ReadSource(p) \/ Store(p) \/ Raise(p) \/ Crash(p) PROVE RowsSame
  BY <1>4 DEF ReadSource, Store, Raise, Crash, rowVars
<1>5. ASSUME NEW p \in Procs, Commit(p) \/ Fail(p) PROVE \E k \in Keys : RowStep(k)
  <2>1. job[p] \in Keys /\ status[job[p]] = "running" /\ Owned(p)
    BY <1>5 DEF Commit, Fail, OneRunner, Owned, HandInv, TypeOK
  <2>2. RowStep(job[p])
    BY <1>5, <2>1 DEF Commit, Fail, Logged
  <2> QED BY <2>1, <2>2
<1>6. CASE Refresh \/ (\E k \in Keys : Expire(k)) \/ UNCHANGED vars
  BY <1>6 DEF Refresh, Expire, vars, rowVars
<1> QED BY <1>1, <1>2, <1>3, <1>4, <1>5, <1>6 DEF Next, Around, WorkerStep

\* The attempt counter and the log of one job agree with its status: besides
\* LogTellsState, no event is ahead of the counter, and a job that waits for
\* another attempt has logged the failure and the retry of the last one.
LogOf(k) ==
    /\ status[k] # "none" <=> <<k, "queued", 0>> \in log
    /\ status[k] = "none" => attempt[k] = 0
    /\ status[k] \in {"running", "succeeded", "failed"} => attempt[k] > 0
    /\ \A m \in 1 .. MaxAttempts : <<k, "started", m>> \in log <=> m <= attempt[k]
    /\ \A m \in 1 .. MaxAttempts : m < attempt[k] =>
           <<k, "failed", m>> \in log /\ <<k, "retry_queued", m>> \in log
    /\ \A m \in 1 .. MaxAttempts : attempt[k] < m =>
           /\ <<k, "failed", m>> \notin log
           /\ <<k, "succeeded", m>> \notin log
           /\ <<k, "retry_queued", m>> \notin log
    /\ attempt[k] > 0 =>
           /\ status[k] = "queued" =>
                  <<k, "failed", attempt[k]>> \in log /\ <<k, "retry_queued", attempt[k]>> \in log
           /\ status[k] = "running" => <<k, "failed", attempt[k]>> \notin log
           /\ status[k] \in {"running", "failed"} => <<k, "retry_queued", attempt[k]>> \notin log
           /\ status[k] = "failed" => <<k, "failed", attempt[k]>> \in log
           /\ status[k] = "succeeded" <=> <<k, "succeeded", attempt[k]>> \in log
           /\ status[k] = "succeeded" => <<k, "failed", attempt[k]>> \notin log

LogInv == \A k \in Keys : LogOf(k)

\* Each row change keeps the log in step with the row.
LEMMA LogStep == JobInv /\ JobInv' /\ LogInv /\ [Next]_vars => LogInv'
<1> SUFFICES ASSUME JobInv, JobInv', LogInv, [Next]_vars PROVE LogInv'
  OBVIOUS
<1> USE ReportAssumption
<1>1. CASE RowsSame
  BY <1>1 DEF RowsSame, LogInv, LogOf
<1>2. ASSUME NEW k \in Keys, RowStep(k) PROVE LogInv'
  <2>1. /\ status \in [Keys -> {"none", "queued", "running", "succeeded", "failed"}]
        /\ attempt \in [Keys -> 0 .. MaxAttempts]
        /\ attempt' \in [Keys -> 0 .. MaxAttempts]
        /\ attempt[k] \in Nat /\ LogOf(k)
    BY DEF JobInv, TypeOK, LogInv
  <2>2. ASSUME NEW x \in Keys, x # k PROVE LogOf(x)'
    <3>1. status'[x] = status[x] /\ attempt'[x] = attempt[x]
      BY <1>2, <2>1, <2>2 DEF RowStep
    <3>2. \A t, n : <<x, t, n>> \in log' <=> <<x, t, n>> \in log
      BY <1>2, <2>2 DEF RowStep
    <3>3. LogOf(x)
      BY DEF LogInv
    <3> QED BY <3>1, <3>2, <3>3 DEF LogOf
  <2>3. LogOf(k)'
    <3>1. CASE /\ status[k] = "none" /\ status'[k] = "queued"
               /\ attempt'[k] = attempt[k] /\ log' = log \cup {<<k, "queued", 0>>}
      BY <2>1, <3>1 DEF LogOf
    <3>2. CASE /\ status[k] = "failed" /\ status'[k] = "queued"
               /\ attempt'[k] = attempt[k] /\ log' = log \cup {<<k, "retry_queued", attempt[k]>>}
      BY <2>1, <3>2 DEF LogOf
    <3>3. CASE /\ status[k] = "queued" /\ status'[k] = "running"
               /\ attempt'[k] = attempt[k] + 1
               /\ log' = log \cup {<<k, "started", attempt[k] + 1>>}
      <4> DEFINE n == attempt[k]
      <4>1. n \in Nat /\ n + 1 \in 1 .. MaxAttempts /\ attempt'[k] = n + 1
        BY <2>1, <3>3
      <4>2. \A t, m : <<k, t, m>> \in log' <=> <<k, t, m>> \in log \/ (t = "started" /\ m = n + 1)
        BY <3>3
      <4>3. /\ status[k] = "queued" /\ status'[k] = "running" /\ <<k, "queued", 0>> \in log
            /\ \A m \in 1 .. MaxAttempts : <<k, "started", m>> \in log <=> m <= n
            /\ \A m \in 1 .. MaxAttempts : m < n => <<k, "failed", m>> \in log /\ <<k, "retry_queued", m>> \in log
            /\ \A m \in 1 .. MaxAttempts : n < m => /\ <<k, "failed", m>> \notin log
                                                    /\ <<k, "succeeded", m>> \notin log
                                                    /\ <<k, "retry_queued", m>> \notin log
            /\ n > 0 => <<k, "failed", n>> \in log /\ <<k, "retry_queued", n>> \in log
        BY <2>1, <3>3, <4>1 DEF LogOf
      <4> HIDE DEF n
      <4>4. \A m \in 1 .. MaxAttempts : <<k, "started", m>> \in log' <=> m <= n + 1
        BY <4>1, <4>2, <4>3
      <4>5. \A m \in 1 .. MaxAttempts : m < n + 1 =>
                <<k, "failed", m>> \in log' /\ <<k, "retry_queued", m>> \in log'
        <5> TAKE m \in 1 .. MaxAttempts
        <5>1. m < n + 1 => m < n \/ (m = n /\ n > 0)
          BY <4>1
        <5> QED BY <4>2, <4>3, <5>1
      <4>6. \A m \in 1 .. MaxAttempts : n < m => /\ <<k, "failed", m>> \notin log'
                                                 /\ <<k, "succeeded", m>> \notin log'
                                                 /\ <<k, "retry_queued", m>> \notin log'
        BY <4>2, <4>3
      <4>7. <<k, "queued", 0>> \in log'
        BY <4>2, <4>3
      <4> QED BY <4>1, <4>3, <4>4, <4>5, <4>6, <4>7 DEF LogOf
    <3>4. CASE /\ status[k] = "running" /\ status'[k] = "succeeded"
               /\ attempt'[k] = attempt[k] /\ log' = log \cup {<<k, "succeeded", attempt[k]>>}
      BY <2>1, <3>4 DEF LogOf
    <3>5. CASE /\ status[k] = "running" /\ status'[k] = "failed"
               /\ attempt'[k] = attempt[k] /\ log' = log \cup {<<k, "failed", attempt[k]>>}
      BY <2>1, <3>5 DEF LogOf
    <3> QED BY <1>2, <2>1, <3>1, <3>2, <3>3, <3>4, <3>5 DEF RowStep
  <2> QED BY <2>2, <2>3 DEF LogInv
<1> QED BY <1>1, <1>2, RowSteps

\* The tables are empty and so is the log.
LEMMA InitLog == Init => LogInv
<1> SUFFICES ASSUME Init, NEW k \in Keys PROVE LogOf(k)
  BY DEF LogInv
<1>1. status[k] = "none" /\ attempt[k] = 0 /\ log = {}
  BY DEF Init
<1> QED BY <1>1, ReportAssumption DEF LogOf

\* report_job_event can be replayed to the job's status and attempt count,
\* for any history of claims, failures, retries and crashes.
THEOREM LogTellsStateHolds == Spec => []LogTellsState
<1>1. JobInv /\ LogInv => LogTellsState
  <2> SUFFICES ASSUME JobInv, LogInv PROVE LogTellsState
    OBVIOUS
  <2> USE ReportAssumption
  <2>1. ASSUME NEW k \in Keys
        PROVE  LogOf(k) /\ attempt[k] \in 0 .. MaxAttempts /\ status[k] \in
               {"none", "queued", "running", "succeeded", "failed"}
    BY DEF LogInv, JobInv, TypeOK
  <2>2. ASSUME NEW k \in Keys
        PROVE  /\ status[k] = "failed" <=> /\ attempt[k] > 0 /\ <<k, "failed", attempt[k]>> \in log
                                           /\ <<k, "retry_queued", attempt[k]>> \notin log
               /\ status[k] = "succeeded" <=> attempt[k] > 0 /\ <<k, "succeeded", attempt[k]>> \in log
               /\ status[k] = "running" => /\ <<k, "failed", attempt[k]>> \notin log
                                           /\ <<k, "succeeded", attempt[k]>> \notin log
    <3>0. LogOf(k) /\ attempt[k] \in 0 .. MaxAttempts
          /\ status[k] \in {"none", "queued", "running", "succeeded", "failed"}
      BY <2>1
    <3>1. CASE status[k] \in {"none", "queued"}
      BY <3>0, <3>1 DEF LogOf
    <3>2. CASE status[k] \in {"running", "succeeded", "failed"}
      <4>1. attempt[k] > 0
        BY <3>0, <3>2 DEF LogOf
      <4> QED BY <3>0, <3>2, <4>1 DEF LogOf
    <3> QED BY <3>0, <3>1, <3>2
  <2>3. ASSUME NEW k \in Keys
        PROVE  /\ status[k] # "none" <=> <<k, "queued", 0>> \in log
               /\ \A m \in 1 .. MaxAttempts : <<k, "started", m>> \in log <=> m <= attempt[k]
               /\ \A m \in 1 .. MaxAttempts : m < attempt[k] =>
                      <<k, "failed", m>> \in log /\ <<k, "retry_queued", m>> \in log
    BY <2>1 DEF LogOf
  <2> QED BY <2>2, <2>3 DEF LogTellsState
<1> QED BY <1>1, InitLog, JobInvHolds, LogStep, PTL DEF Spec

\* Who was answered with a job has one.
AcceptInv == AcceptedScope /\ \A r \in accepted : status[r[1]] # "none"

\* A request gets an old row only when the scopes agree.
LEMMA AcceptStep == JobInv /\ AcceptInv /\ [Next]_vars => AcceptInv'
<1> SUFFICES ASSUME JobInv, AcceptInv, [Next]_vars PROVE AcceptInv'
  OBVIOUS
<1>0. status \in [Keys -> {"none", "queued", "running", "succeeded", "failed"}]
      /\ scope \in [Keys -> Scopes] /\ accepted \subseteq Keys \X Scopes
  BY DEF JobInv, TypeOK
<1>1. ASSUME NEW k \in Keys, NEW s \in Scopes, Request(k, s) PROVE AcceptInv'
  BY <1>0, <1>1 DEF Request, Insert, Rejoin, Conflict, vars, rowVars, AcceptInv, AcceptedScope
<1>2. CASE accepted' = accepted /\ scope' = scope
  <2>1. RowsSame \/ \E k \in Keys : RowStep(k)
    BY RowSteps
  <2>2. \A x \in Keys : status[x] # "none" => status'[x] # "none"
    BY <1>0, <2>1 DEF RowsSame, RowStep
  <2> QED BY <1>0, <1>2, <2>2 DEF AcceptInv, AcceptedScope
<1>3. (\E k \in Keys, s \in Scopes : Request(k, s)) \/ (accepted' = accepted /\ scope' = scope)
  BY DEF Next, WorkerStep, Around, Claim, ReadSource, Store, Commit, Raise, Fail, Retry,
         Expire, Crash, Refresh, vars, rowVars
<1> QED BY <1>1, <1>2, <1>3

\* A key, once given to a request, is never given to a request of another
\* scope.
THEOREM AcceptedScopeHolds == Spec => []AcceptedScope
<1>1. Init => AcceptInv
  BY DEF Init, AcceptInv, AcceptedScope
<1>2. AcceptInv => AcceptedScope
  BY DEF AcceptInv
<1> QED BY <1>1, <1>2, AcceptStep, JobInvHolds, PTL DEF Spec

\* Every row change is an edge of the trigger.
LEMMA TriggerStep ==
    JobInv /\ LogInv /\ [Next]_vars => [Transitions!Next]_<<status, attempt, scope>>
<1> SUFFICES ASSUME JobInv, LogInv, [Next]_vars
             PROVE  [Transitions!Next]_<<status, attempt, scope>>
  OBVIOUS
<1>0. /\ status \in [Keys -> {"none", "queued", "running", "succeeded", "failed"}]
      /\ attempt \in [Keys -> 0 .. MaxAttempts]
  BY DEF JobInv, TypeOK
<1>1. CASE RowsSame
  BY <1>1 DEF RowsSame
<1>2. ASSUME NEW k \in Keys, RowStep(k) PROVE Transitions!Next
  <2>1. Transitions!Insert(k) \/ Transitions!Update(k)
    BY <1>0, <1>2 DEF RowStep, LogInv, LogOf, Transitions!Insert, Transitions!Update, Transitions!Edge,
                      Transitions!AttemptRule, Transitions!JobStatus
  <2>2. \A x \in Keys \ {k} : Transitions!Same(x)
    BY <1>0, <1>2 DEF RowStep, Transitions!Same
  <2> QED BY <2>1, <2>2 DEF Transitions!Next
<1> QED BY <1>1, <1>2, RowSteps

\* Every step of requests, retries, workers and crashes is one the trigger of
\* 0032 lets pass.
THEOREM Refinement == Spec => NeverRaises
<1>1. Init => Transitions!Init
  BY DEF Init, Transitions!Init
<1> QED
  BY <1>1, TriggerStep, InitLog, JobInvHolds, LogStep, PTL DEF Spec, NeverRaises, Transitions!Spec

-----------------------------------------------------------------------------
(* ReportDelivery: the queue with schedules on top of it.                  *)

\* The delivery tables are well typed, and a schedule starts no later than it
\* has come.
SlotTypes ==
    /\ now \in 0 .. MaxSlot
    /\ nextRun \in [Schedules -> 0 .. MaxSlot + 1]
    /\ first \in [Schedules -> 0 .. MaxSlot + 1]
    /\ run \in [Runs -> RunStatus]
    /\ members \subseteq Schedules
    /\ notified \subseteq Runs
    /\ \A s \in Schedules : nextRun[s] > 0 => first[s] <= nextRun[s]

SlotInv == SlotTypes /\ NoSlotSkipped

DeliveryInv == JobInv /\ LogInv /\ AcceptInv /\ SlotInv /\ RunHasItsJob

LEMMA SlotsAreKeys ==
    /\ \A r \in Runs : r \in Keys /\ r[1] \in Schedules /\ r[2] \in 1 .. MaxSlot
    /\ \A r \in Runs : r = <<r[1], r[2]>>
    /\ \A s \in Schedules, n \in 1 .. MaxSlot : <<s, n>> \in Runs
BY DeliveryAssumption DEF Runs, Slots

LEMMA RunsFinite == ASSUME NEW K \in SUBSET Runs PROVE IsFiniteSet(K)
<1>1. IsFiniteSet(Slots)
  BY DeliveryAssumption, FS_Interval DEF Slots
<1>2. IsFiniteSet(Runs)
  BY <1>1, DeliveryAssumption, FS_Product DEF Runs
<1> QED BY <1>2, FS_Subset

\* The jobs of one transaction, in any order, are a sequence of queued rows.
LEMMA OrderOf ==
    ASSUME NEW fresh, IsFiniteSet(fresh), NEW q \in SetToSeqs(fresh)
    PROVE  /\ q \in Seq(fresh)
           /\ \A i \in 1 .. Len(q) : q[i] \in fresh
           /\ \A i, j \in 1 .. Len(q) : q[i] = q[j] => i = j
<1>1. Cardinality(fresh) \in Nat
  BY FS_CardinalityType
<1>2. /\ q \in [1 .. Cardinality(fresh) -> fresh]
      /\ \A i, j \in 1 .. Cardinality(fresh) : i # j => q[i] # q[j]
  BY DEF SetToSeqs
<1>3. q \in Seq(fresh) /\ Len(q) = Cardinality(fresh)
  BY <1>1, <1>2
<1> QED BY <1>1, <1>2, <1>3

\* Inserting the jobs of several slots keeps the queue in order.
LEMMA EnqueueKeeps ==
    ASSUME JobInv, NEW K \in SUBSET Runs, EnqueueJobs(K)
    PROVE  JobInv'
<1> USE ReportAssumption DEF JobInv
<1> DEFINE fresh == {k \in K : status[k] = "none"}
<1>1. PICK q \in SetToSeqs(fresh) : queue' = queue \o q
  BY DEF EnqueueJobs
<1>2. /\ status' = [k \in Keys |-> IF k \in fresh THEN "queued" ELSE status[k]]
      /\ scope' = [k \in Keys |-> IF k \in fresh THEN ScheduledScope ELSE scope[k]]
      /\ log' = log \cup (fresh \X {"queued"} \X {0})
      /\ accepted' = accepted \cup (K \X {ScheduledScope})
      /\ UNCHANGED <<attempt, owner, artifact, expired, files, mart, pc, job, data, events>>
  BY DEF EnqueueJobs, procVars
<1>3. fresh \in SUBSET Runs /\ fresh \subseteq Keys /\ \A k \in fresh : status[k] = "none"
  BY SlotsAreKeys
<1>4. /\ q \in Seq(fresh)
      /\ \A i \in 1 .. Len(q) : q[i] \in fresh
      /\ \A i, j \in 1 .. Len(q) : q[i] = q[j] => i = j
  BY <1>1, <1>3, RunsFinite, OrderOf
<1> HIDE DEF fresh
<1>5. q \in Seq(Keys) /\ queue \in Seq(Keys) /\ Len(q) \in Nat /\ Len(queue) \in Nat
  BY <1>3, <1>4, SeqMonotonic, LenProperties DEF TypeOK
<1>6. /\ queue' \in Seq(Keys) /\ Len(queue') = Len(queue) + Len(q)
      /\ \A i \in 1 .. Len(queue) + Len(q) :
             queue'[i] = IF i <= Len(queue) THEN queue[i] ELSE q[i - Len(queue)]
  BY <1>1, <1>5, ConcatProperties
<1>7. TypeOK'
  <2>1. log' \subseteq Keys \X {"queued", "started", "succeeded", "failed", "retry_queued"} \X Nat
    BY <1>2, <1>3 DEF TypeOK
  <2>2. accepted' \subseteq Keys \X Scopes
    BY <1>2, SlotsAreKeys, DeliveryAssumption DEF TypeOK
  <2>3. status' \in [Keys -> {"none", "queued", "running", "succeeded", "failed"}]
    BY <1>2 DEF TypeOK
  <2>4. scope' \in [Keys -> Scopes]
    BY <1>2, DeliveryAssumption DEF TypeOK
  <2> QED BY <1>2, <1>6, <2>1, <2>2, <2>3, <2>4 DEF TypeOK
<1>8. QueueInv'
  <2>1. \A i \in 1 .. Len(queue) : queue[i] \in Keys /\ status[queue[i]] = "queued" /\ queue[i] \notin fresh
    BY <1>3, <1>5 DEF QueueInv
  <2>2. \A i \in 1 .. Len(queue') :
          \/ i \in 1 .. Len(queue) /\ queue'[i] = queue[i]
          \/ i - Len(queue) \in 1 .. Len(q) /\ queue'[i] = q[i - Len(queue)]
    BY <1>5, <1>6
  <2>3. ASSUME NEW i \in 1 .. Len(queue') PROVE status'[queue'[i]] = "queued"
    BY <1>2, <1>3, <1>4, <2>1, <2>2
  <2>4. ASSUME NEW i \in 1 .. Len(queue'), NEW j \in 1 .. Len(queue'), queue'[i] = queue'[j]
        PROVE  i = j
    <3>1. i \in Int /\ j \in Int
      BY <1>5, <1>6
    <3>2. CASE i \in 1 .. Len(queue) /\ queue'[i] = queue[i]
      <4>1. queue'[j] \notin fresh
        BY <2>1, <2>4, <3>2
      <4>2. j \in 1 .. Len(queue) /\ queue'[j] = queue[j]
        BY <1>4, <2>2, <4>1
      <4> QED BY <2>4, <3>2, <4>2 DEF QueueInv
    <3>3. CASE i - Len(queue) \in 1 .. Len(q) /\ queue'[i] = q[i - Len(queue)]
      <4>1. queue'[j] \in fresh
        BY <1>4, <2>4, <3>3
      <4>2. j - Len(queue) \in 1 .. Len(q) /\ queue'[j] = q[j - Len(queue)]
        BY <2>1, <2>2, <4>1
      <4>3. i - Len(queue) = j - Len(queue)
        BY <1>4, <2>4, <3>3, <4>2
      <4> QED BY <1>5, <3>1, <4>3
    <3> QED BY <2>2, <3>2, <3>3
  <2>5. \A k \in Keys : status'[k] \in {"none", "queued"} => attempt'[k] < MaxAttempts
    BY <1>2, <1>3 DEF QueueInv
  <2> QED BY <2>3, <2>4, <2>5 DEF QueueInv
<1>9. HandInv' /\ StoredInv'
  BY <1>2 DEF HandInv, StoredInv
<1>10. OneRunner'
  BY <1>2, <1>3 DEF OneRunner, Owned, HandInv, TypeOK
<1>11. SucceededIsStored'
  BY <1>2, <1>3 DEF SucceededIsStored
<1> QED BY <1>7, <1>8, <1>9, <1>10, <1>11

\* The new rows are logged and accepted with the scope they have.
LEMMA EnqueueLogs ==
    ASSUME JobInv, LogInv, AcceptInv, NEW K \in SUBSET Runs, EnqueueJobs(K)
    PROVE  LogInv' /\ AcceptInv' /\ Transitions!Next
<1> DEFINE fresh == {k \in K : status[k] = "none"}
<1>1. /\ status' = [k \in Keys |-> IF k \in fresh THEN "queued" ELSE status[k]]
      /\ scope' = [k \in Keys |-> IF k \in fresh THEN ScheduledScope ELSE scope[k]]
      /\ log' = log \cup (fresh \X {"queued"} \X {0})
      /\ accepted' = accepted \cup (K \X {ScheduledScope})
      /\ attempt' = attempt
  BY DEF EnqueueJobs
<1>2. /\ fresh \subseteq Keys /\ \A k \in fresh : status[k] = "none"
      /\ \A k \in K : k \in Keys /\ (k \in fresh \/ scope[k] = ScheduledScope)
  BY SlotsAreKeys DEF EnqueueJobs, Acceptable
<1> HIDE DEF fresh
<1>3. ASSUME NEW k \in Keys, k \notin fresh PROVE LogOf(k)'
  <2>1. status'[k] = status[k] /\ attempt'[k] = attempt[k] /\ LogOf(k)
    BY <1>1, <1>3 DEF LogInv
  <2>2. \A t, n : <<k, t, n>> \in log' <=> <<k, t, n>> \in log
    BY <1>1, <1>3
  <2> QED BY <2>1, <2>2 DEF LogOf
<1>4. ASSUME NEW k \in Keys, k \in fresh PROVE LogOf(k)'
  <2>1. status'[k] = "queued" /\ status[k] = "none" /\ attempt'[k] = attempt[k] /\ LogOf(k)
    BY <1>1, <1>2, <1>4 DEF LogInv
  <2>2. attempt[k] = 0
    BY <2>1 DEF LogOf
  <2>3. \A t, n : <<k, t, n>> \in log' <=> <<k, t, n>> \in log \/ (t = "queued" /\ n = 0)
    BY <1>1, <1>4
  <2> QED BY <2>1, <2>2, <2>3 DEF LogOf
<1>5. AcceptInv'
  <2>1. ASSUME NEW r \in accepted' PROVE scope'[r[1]] = r[2] /\ status'[r[1]] # "none"
    <3>1. CASE r \in accepted
      <4>1. r[1] \in Keys /\ scope[r[1]] = r[2] /\ status[r[1]] # "none"
        BY <3>1 DEF AcceptInv, AcceptedScope, JobInv, TypeOK
      <4> QED BY <1>1, <1>2, <4>1
    <3>2. CASE r \in K \X {ScheduledScope}
      <4>1. r[1] \in K /\ r[2] = ScheduledScope
        BY <3>2
      <4>2. r[1] \in Keys /\ (r[1] \in fresh \/ status[r[1]] # "none")
        BY <4>1, SlotsAreKeys DEF fresh
      <4> QED BY <1>1, <1>2, <4>1, <4>2
    <3> QED BY <1>1, <3>1, <3>2
  <2> QED BY <2>1 DEF AcceptInv, AcceptedScope
<1>7. ASSUME NEW k \in Keys PROVE Transitions!Insert(k) \/ Transitions!Same(k)
  <2>1. CASE k \in fresh
    <3>1. status[k] = "none" /\ attempt[k] = 0
      BY <1>2, <2>1 DEF LogInv, LogOf
    <3> QED BY <1>1, <2>1, <3>1 DEF Transitions!Insert
  <2>2. CASE k \notin fresh
    BY <1>1, <2>2 DEF Transitions!Same
  <2> QED BY <2>1, <2>2
<1> QED BY <1>3, <1>4, <1>5, <1>7 DEF LogInv, Transitions!Next

\* Workers, retries and web requests never change what an existing job was
\* asked for, and a finished job stays finished.
LEMMA SlotJobs ==
    ASSUME JobInv, JobStep, NEW r \in Runs
    PROVE  /\ status[r] # "none" => scope'[r] = scope[r] /\ status'[r] # "none"
           /\ status[r] = "succeeded" => status'[r] = "succeeded"
<1>0. r \in Keys /\ status \in [Keys -> {"none", "queued", "running", "succeeded", "failed"}]
      /\ scope \in [Keys -> Scopes]
  BY SlotsAreKeys DEF JobInv, TypeOK
<1>1. ASSUME NEW k \in Keys, NEW s \in Scopes, Request(k, s), status[r] # "none"
      PROVE  scope'[r] = scope[r] /\ status'[r] = status[r]
  BY <1>0, <1>1 DEF Request, Insert, Rejoin, Conflict, vars, rowVars
<1>2. CASE (\E p \in Procs : WorkerStep(p)) \/ Around
  <2>1. scope' = scope
    BY <1>2 DEF WorkerStep, Around, Claim, ReadSource, Store, Commit, Raise, Fail, Retry,
                Expire, Crash, Refresh, rowVars
  <2>2. RowsSame \/ \E k \in Keys : RowStep(k)
    BY <1>2, RowSteps DEF Next
  <2>3. status[r] # "none" => status'[r] # "none"
    BY <1>0, <2>2 DEF RowsSame, RowStep
  <2>4. status[r] = "succeeded" => status'[r] = "succeeded"
    BY <1>0, <2>2 DEF RowsSame, RowStep
  <2> QED BY <2>1, <2>3, <2>4
<1> QED BY <1>1, <1>2 DEF JobStep

\* The next slot of every due schedule gets its run, and no other.
LEMMA EnqueueDueKeeps ==
    ASSUME DeliveryInv, EnqueueDue
    PROVE  DeliveryInv' /\ Transitions!Next
<1> USE DEF DeliveryInv, SlotInv
<1> DEFINE slot(s) == <<s, nextRun[s]>>
           wanted == {slot(s) : s \in DueSchedules \cap members}
           orphaned == {slot(s) : s \in DueSchedules \ members}
<1>1. /\ EnqueueJobs(wanted)
      /\ run' = [r \in Runs |-> IF run[r] # "none" THEN run[r]
                                ELSE IF r \in wanted THEN "artifact_pending"
                                ELSE IF r \in orphaned THEN "blocked_recipient"
                                ELSE "none"]
      /\ nextRun' = [s \in Schedules |-> IF s \in DueSchedules THEN nextRun[s] + 1 ELSE nextRun[s]]
      /\ UNCHANGED <<now, first, members, notified>>
  BY DEF EnqueueDue, Following, NextRun
<1>2. \A s \in DueSchedules : s \in Schedules /\ nextRun[s] \in 1 .. MaxSlot /\ <<s, nextRun[s]>> \in Runs
  <2>1. \A s \in DueSchedules : s \in Schedules /\ nextRun[s] \in 1 .. MaxSlot
    BY DeliveryAssumption DEF DueSchedules, SlotTypes
  <2> QED BY <2>1, SlotsAreKeys
<1>12. \A s \in DueSchedules : /\ nextRun[s] \in Nat /\ nextRun[s] > 0
                                /\ nextRun[s] + 1 \in 0 .. MaxSlot + 1 /\ nextRun[s] + 1 > 0
                                /\ first[s] \in Nat /\ first[s] <= nextRun[s] + 1
  <2> SUFFICES ASSUME NEW s \in DueSchedules
               PROVE  /\ nextRun[s] \in Nat /\ nextRun[s] > 0
                      /\ nextRun[s] + 1 \in 0 .. MaxSlot + 1 /\ nextRun[s] + 1 > 0
                      /\ first[s] \in Nat /\ first[s] <= nextRun[s] + 1
    OBVIOUS
  <2>1. nextRun[s] \in 1 .. MaxSlot /\ first[s] \in 0 .. MaxSlot + 1
    BY <1>2 DEF SlotTypes
  <2>2. first[s] <= nextRun[s]
    <3>1. \A x \in Schedules : nextRun[x] > 0 => first[x] <= nextRun[x]
      BY DEF SlotTypes
    <3>2. s \in Schedules
      BY <1>2
    <3>3. nextRun[s] > 0
      BY <2>1, DeliveryAssumption
    <3> QED BY <3>1, <3>2, <3>3
  <2> QED BY <2>1, <2>2, DeliveryAssumption
<1>3. wanted \in SUBSET Runs
  BY <1>2
<1>4. ASSUME NEW r \in Runs
      PROVE  r \in wanted \/ r \in orphaned <=> r[1] \in DueSchedules /\ r[2] = nextRun[r[1]]
  <2>1. r = <<r[1], r[2]>>
    BY SlotsAreKeys
  <2>2. \A s : r = slot(s) <=> r[1] = s /\ r[2] = nextRun[s]
    BY <2>1
  <2>3. /\ r \in wanted <=> \E s \in DueSchedules \cap members : r = slot(s)
        /\ r \in orphaned <=> \E s \in DueSchedules \ members : r = slot(s)
    OBVIOUS
  <2> HIDE DEF slot, wanted, orphaned
  <2> QED BY <2>2, <2>3
<1> HIDE DEF wanted, orphaned
<1>5. JobInv'
  BY <1>1, <1>3, EnqueueKeeps
<1>6. LogInv' /\ AcceptInv' /\ Transitions!Next
  BY <1>1, <1>3, EnqueueLogs
<1>7. SlotTypes'
  <2>1. nextRun' \in [Schedules -> 0 .. MaxSlot + 1]
    BY <1>1, <1>12 DEF SlotTypes
  <2>2. run' \in [Runs -> RunStatus]
    BY <1>1 DEF SlotTypes, RunStatus
  <2>3. ASSUME NEW s \in Schedules, nextRun'[s] > 0 PROVE first'[s] <= nextRun'[s]
    <3>1. CASE s \in DueSchedules
      BY <1>1, <1>12, <3>1
    <3>2. CASE s \notin DueSchedules
      BY <1>1, <2>3, <3>2 DEF SlotTypes
    <3> QED BY <3>1, <3>2
  <2> QED BY <1>1, <2>1, <2>2, <2>3 DEF SlotTypes
<1>8. NoSlotSkipped'
  <2> SUFFICES ASSUME NEW r \in Runs
               PROVE  run'[r] # "none" <=>
                        0 < nextRun'[r[1]] /\ first'[r[1]] <= r[2] /\ r[2] < nextRun'[r[1]]
    BY DEF NoSlotSkipped
  <2>1. /\ r[1] \in Schedules /\ r[2] \in 1 .. MaxSlot /\ r[2] \in Int
        /\ nextRun[r[1]] \in Int /\ first[r[1]] \in Int
        /\ run[r] # "none" <=> 0 < nextRun[r[1]] /\ first[r[1]] <= r[2] /\ r[2] < nextRun[r[1]]
        /\ nextRun[r[1]] > 0 => first[r[1]] <= nextRun[r[1]]
    BY SlotsAreKeys, DeliveryAssumption DEF NoSlotSkipped, SlotTypes
  <2>2. run'[r] # "none" <=> run[r] # "none" \/ (r[1] \in DueSchedules /\ r[2] = nextRun[r[1]])
    BY <1>1, <1>4
  <2>3. CASE r[1] \in DueSchedules
    <3>1. nextRun'[r[1]] = nextRun[r[1]] + 1 /\ first'[r[1]] = first[r[1]] /\ nextRun[r[1]] > 0
      BY <1>1, <1>12, <2>1, <2>3
    <3> QED BY <2>1, <2>2, <2>3, <3>1
  <2>4. CASE r[1] \notin DueSchedules
    <3>1. nextRun'[r[1]] = nextRun[r[1]] /\ first'[r[1]] = first[r[1]]
      BY <1>1, <2>1, <2>4
    <3> QED BY <2>1, <2>2, <2>4, <3>1
  <2> QED BY <2>3, <2>4
<1>9. RunHasItsJob'
  <2> SUFFICES ASSUME NEW r \in Runs
               PROVE  /\ run'[r] \in {"artifact_pending", "routed", "blocked_expired"} =>
                            status'[r] # "none" /\ scope'[r] = ScheduledScope
                      /\ run'[r] \in {"routed", "blocked_expired"} => status'[r] = "succeeded"
                      /\ run'[r] = "routed" <=> r \in notified'
    BY DEF RunHasItsJob
  <2>1. r \in Keys
    BY SlotsAreKeys
  <2>2. /\ status[r] # "none" => status'[r] = status[r] /\ scope'[r] = scope[r]
        /\ r \in wanted => status'[r] # "none"
    BY <1>1, <2>1 DEF EnqueueJobs
  <2>3. run'[r] = run[r] \/ (run[r] = "none" /\ run'[r] = "artifact_pending" /\ r \in wanted)
          \/ (run[r] = "none" /\ run'[r] = "blocked_recipient")
    BY <1>1
  <2>4. /\ run[r] \in {"artifact_pending", "routed", "blocked_expired"} =>
              status[r] # "none" /\ scope[r] = ScheduledScope
        /\ run[r] \in {"routed", "blocked_expired"} => status[r] = "succeeded"
        /\ run[r] = "routed" <=> r \in notified'
    BY <1>1 DEF RunHasItsJob
  <2>5. r \in wanted => scope'[r] = ScheduledScope
    BY <1>1, <2>1 DEF EnqueueJobs, Acceptable
  <2> QED BY <2>2, <2>3, <2>4, <2>5
<1> QED BY <1>5, <1>6, <1>7, <1>8, <1>9

\* A finished run is routed, or it is blocked because its recipient left or its
\* report has expired.
LEMMA RouteKeeps ==
    ASSUME DeliveryInv, NEW r \in Runs, RouteCompleted(r)
    PROVE  DeliveryInv' /\ UNCHANGED vars
<1> USE DEF DeliveryInv, SlotInv
<1>1. /\ UNCHANGED <<vars, now, nextRun, first, members>>
      /\ run[r] = "artifact_pending" /\ status[r] = "succeeded"
      /\ \/ run' = [run EXCEPT ![r] = "routed"] /\ notified' = notified \cup {r}
         \/ run' = [run EXCEPT ![r] = "blocked_recipient"] /\ notified' = notified
         \/ run' = [run EXCEPT ![r] = "blocked_expired"] /\ notified' = notified
  BY DEF RouteCompleted
<1>2. /\ status' = status /\ scope' = scope /\ attempt' = attempt /\ log' = log
      /\ accepted' = accepted
  BY <1>1 DEF vars, rowVars
<1>3. JobInv'
  BY <1>1, AroundStep
<1>4. LogInv' /\ AcceptInv'
  BY <1>2 DEF LogInv, LogOf, AcceptInv, AcceptedScope
<1>5. SlotTypes'
  BY <1>1 DEF SlotTypes, RunStatus
<1>6. NoSlotSkipped'
  <2>1. \A x \in Runs : run'[x] # "none" <=> run[x] # "none"
    BY <1>1 DEF SlotTypes
  <2> QED BY <1>1, <2>1 DEF NoSlotSkipped
<1>7. RunHasItsJob'
  BY <1>1, <1>2 DEF SlotTypes, RunHasItsJob
<1> QED BY <1>1, <1>3, <1>4, <1>5, <1>6, <1>7

\* Schedules are created for the future, and nobody else touches slots or jobs.
LEMMA PlanKeeps ==
    ASSUME DeliveryInv, NEW s \in Schedules, CreateSchedule(s) \/ Membership(s) \/ Tick
    PROVE  DeliveryInv' /\ UNCHANGED <<status, attempt, scope>>
<1> USE DEF DeliveryInv, SlotInv
<1>1. /\ UNCHANGED <<rowVars, files, mart, procVars, accepted, run, notified>>
      /\ events' = events \/ (events < MaxEvents /\ events' = events + 1)
  BY DEF CreateSchedule, Membership, Tick, vars
<1>2. /\ status' = status /\ scope' = scope /\ attempt' = attempt /\ log' = log
      /\ accepted' = accepted /\ owner' = owner /\ queue' = queue /\ artifact' = artifact
      /\ expired' = expired /\ files' = files /\ mart' = mart /\ pc' = pc /\ job' = job /\ data' = data
  BY <1>1 DEF rowVars, procVars
<1>3. JobInv'
  <2>1. events' \in 0 .. MaxEvents
    BY <1>1, ReportAssumption DEF JobInv, TypeOK
  <2>2. TypeOK'
    BY <1>2, <2>1 DEF JobInv, TypeOK
  <2> QED BY <1>2, <2>2 DEF JobInv, QueueInv, HandInv, OneRunner, Owned, StoredInv, SucceededIsStored
<1>4. LogInv' /\ AcceptInv'
  BY <1>2 DEF LogInv, LogOf, AcceptInv, AcceptedScope
<1>5. RunHasItsJob'
  BY <1>1, <1>2 DEF RunHasItsJob
<1>6. CASE CreateSchedule(s)
  <2>1. /\ nextRun[s] = 0 /\ nextRun' = [nextRun EXCEPT ![s] = now + 1]
        /\ first' = [first EXCEPT ![s] = now + 1] /\ UNCHANGED <<now, members, run, notified>>
    BY <1>6 DEF CreateSchedule, NextRun
  <2>2. now + 1 \in 0 .. MaxSlot + 1 /\ now + 1 \in Int
    BY DeliveryAssumption DEF SlotTypes
  <2>3. SlotTypes'
    BY <2>1, <2>2 DEF SlotTypes
  <2>4. ASSUME NEW r \in Runs
        PROVE  run'[r] # "none" <=>
                 0 < nextRun'[r[1]] /\ first'[r[1]] <= r[2] /\ r[2] < nextRun'[r[1]]
    <3>1. /\ r[1] \in Schedules /\ r[2] \in Int
          /\ run[r] # "none" <=> 0 < nextRun[r[1]] /\ first[r[1]] <= r[2] /\ r[2] < nextRun[r[1]]
      BY SlotsAreKeys DEF NoSlotSkipped
    <3>2. CASE r[1] = s
      <4>1. nextRun'[r[1]] = now + 1 /\ first'[r[1]] = now + 1 /\ nextRun[r[1]] = 0
        BY <2>1, <3>2 DEF SlotTypes
      <4> QED BY <2>1, <2>2, <3>1, <4>1
    <3>3. CASE r[1] # s
      BY <2>1, <3>1, <3>3 DEF SlotTypes
    <3> QED BY <3>2, <3>3
  <2> QED BY <1>2, <1>3, <1>4, <1>5, <2>3, <2>4 DEF NoSlotSkipped
<1>7. CASE Membership(s) \/ Tick
  <2>1. UNCHANGED <<nextRun, first, run, notified>>
    BY <1>7 DEF Membership, Tick
  <2>2. members' \subseteq Schedules
    BY <1>7 DEF Membership, Tick, SlotTypes
  <2>3. now' \in 0 .. MaxSlot
    BY <1>7, DeliveryAssumption DEF Membership, Tick, SlotTypes
  <2>4. SlotTypes'
    BY <2>1, <2>2, <2>3 DEF SlotTypes
  <2>5. NoSlotSkipped'
    BY <2>1 DEF NoSlotSkipped
  <2> QED BY <1>2, <1>3, <1>4, <1>5, <2>4, <2>5
<1> QED BY <1>6, <1>7

LEMMA DeliveryStepKeeps ==
    DeliveryInv /\ [DeliveryNext]_allVars =>
        DeliveryInv' /\ [Transitions!Next]_<<status, attempt, scope>>
<1> SUFFICES ASSUME DeliveryInv, [DeliveryNext]_allVars
             PROVE  DeliveryInv' /\ [Transitions!Next]_<<status, attempt, scope>>
  OBVIOUS
<1>1. ASSUME NEW s \in Schedules, CreateSchedule(s) \/ Membership(s) \/ Tick
      PROVE  DeliveryInv' /\ UNCHANGED <<status, attempt, scope>>
  BY <1>1, PlanKeeps
<1>2. CASE EnqueueDue
  BY <1>2, EnqueueDueKeeps
<1>3. ASSUME NEW r \in Runs, RouteCompleted(r)
      PROVE  DeliveryInv' /\ UNCHANGED <<status, attempt, scope>>
  BY <1>3, RouteKeeps DEF vars, rowVars
<1>4. CASE Tick
  <2>1. /\ UNCHANGED <<vars, nextRun, first, run, members, notified>>
        /\ now' \in 0 .. MaxSlot
    BY <1>4, DeliveryAssumption DEF Tick, DeliveryInv, SlotInv, SlotTypes
  <2>2. JobInv'
    BY <2>1, AroundStep DEF DeliveryInv
  <2>3. /\ status' = status /\ scope' = scope /\ attempt' = attempt /\ log' = log
        /\ accepted' = accepted
    BY <2>1 DEF vars, rowVars
  <2>4. LogInv' /\ AcceptInv' /\ RunHasItsJob'
    BY <2>1, <2>3 DEF DeliveryInv, LogInv, LogOf, AcceptInv, AcceptedScope, RunHasItsJob
  <2>5. SlotInv'
    BY <2>1 DEF DeliveryInv, SlotInv, SlotTypes, NoSlotSkipped
  <2> QED BY <2>2, <2>3, <2>4, <2>5 DEF DeliveryInv
<1>5. CASE JobStep
  <2>1. [Next]_vars /\ UNCHANGED deliveryVars
    BY <1>5 DEF JobStep, Next
  <2>2. JobInv' /\ LogInv' /\ AcceptInv' /\ [Transitions!Next]_<<status, attempt, scope>>
    BY <2>1, JobStepInv, LogStep, AcceptStep, TriggerStep DEF DeliveryInv
  <2>3. /\ now' = now /\ nextRun' = nextRun /\ first' = first /\ run' = run
        /\ members' = members /\ notified' = notified
    BY <2>1 DEF deliveryVars
  <2>4. SlotInv'
    BY <2>3 DEF DeliveryInv, SlotInv, SlotTypes, NoSlotSkipped
  <2>5. ASSUME NEW r \in Runs
        PROVE  /\ status[r] # "none" => scope'[r] = scope[r] /\ status'[r] # "none"
               /\ status[r] = "succeeded" => status'[r] = "succeeded"
    BY <1>5, SlotJobs DEF DeliveryInv
  <2>6. RunHasItsJob'
    BY <2>3, <2>5 DEF DeliveryInv, RunHasItsJob
  <2> QED BY <2>2, <2>4, <2>6 DEF DeliveryInv
<1>6. CASE UNCHANGED allVars
  <2>1. UNCHANGED vars /\ UNCHANGED deliveryVars
    BY <1>6 DEF allVars
  <2>2. /\ now' = now /\ nextRun' = nextRun /\ first' = first /\ run' = run
        /\ members' = members /\ notified' = notified
    BY <2>1 DEF deliveryVars
  <2>3. /\ status' = status /\ scope' = scope /\ attempt' = attempt /\ log' = log
        /\ accepted' = accepted
    BY <2>1 DEF vars, rowVars
  <2>4. JobInv'
    BY <2>1, AroundStep DEF DeliveryInv
  <2>5. LogInv' /\ AcceptInv' /\ RunHasItsJob'
    BY <2>2, <2>3 DEF DeliveryInv, LogInv, LogOf, AcceptInv, AcceptedScope, RunHasItsJob
  <2>6. SlotInv'
    BY <2>2 DEF DeliveryInv, SlotInv, SlotTypes, NoSlotSkipped
  <2> QED BY <2>3, <2>4, <2>5, <2>6 DEF DeliveryInv
<1> QED BY <1>1, <1>2, <1>3, <1>4, <1>5, <1>6 DEF DeliveryNext, DeliveryStep

LEMMA InitDelivery == DeliveryInit => DeliveryInv
<1> SUFFICES ASSUME DeliveryInit PROVE DeliveryInv
  OBVIOUS
<1>1. Init
  BY DEF DeliveryInit
<1>2. JobInv /\ LogInv
  BY <1>1, InitJobs, InitLog
<1>3. AcceptInv /\ \A k \in Keys : status[k] = "none"
  BY <1>1 DEF Init, AcceptInv, AcceptedScope
<1>4. SlotTypes
  BY DeliveryAssumption DEF DeliveryInit, SlotTypes, RunStatus
<1>6. ASSUME NEW r \in Runs
      PROVE  run[r] = "none" /\ r \notin notified /\ nextRun[r[1]] = 0
  BY SlotsAreKeys DEF DeliveryInit
<1>7. NoSlotSkipped /\ RunHasItsJob
  BY <1>6 DEF NoSlotSkipped, RunHasItsJob
<1> QED BY <1>2, <1>3, <1>4, <1>7 DEF DeliveryInv, SlotInv

LEMMA DeliveryInvHolds == DeliverySpec => []DeliveryInv
BY InitDelivery, DeliveryStepKeeps, PTL DEF DeliverySpec

\* The delivery tables and the queue below them are well typed.
THEOREM DeliveryTypeCorrect == DeliverySpec => []DeliveryTypeOK
<1>1. DeliveryInv => DeliveryTypeOK
  BY DEF DeliveryInv, JobInv, SlotInv, SlotTypes, DeliveryTypeOK
<1> QED BY <1>1, DeliveryInvHolds, PTL

\* From the creation of a schedule on, exactly the slots before next_run_at
\* have a delivery run, however late enqueue_due is called.
THEOREM NoSlotSkippedHolds == DeliverySpec => []NoSlotSkipped
<1>1. DeliveryInv => NoSlotSkipped
  BY DEF DeliveryInv, SlotInv
<1> QED BY <1>1, DeliveryInvHolds, PTL

\* A run that is not blocked has a job of its schedule's scope, and the routed
\* runs are those whose recipient was told.
THEOREM RunHasItsJobHolds == DeliverySpec => []RunHasItsJob
<1>1. DeliveryInv => RunHasItsJob
  BY DEF DeliveryInv
<1> QED BY <1>1, DeliveryInvHolds, PTL

\* What the job queue promises it keeps under schedules that enqueue several
\* jobs in one transaction: one runner per job, files behind every success,
\* one scope per key.
THEOREM QueueUnderSchedules ==
    DeliverySpec => [](OneRunner /\ SucceededIsStored /\ AcceptedScope)
<1>1. DeliveryInv => OneRunner /\ SucceededIsStored /\ AcceptedScope
  BY DEF DeliveryInv, JobInv, AcceptInv
<1> QED BY <1>1, DeliveryInvHolds, PTL

\* The trigger of 0032 lets every step of queue and schedules pass.
THEOREM DeliveryRefinement == DeliverySpec => NeverRaises
<1>1. DeliveryInit => Transitions!Init
  BY DEF DeliveryInit, Init, Transitions!Init
<1> QED
  BY <1>1, DeliveryInvHolds, DeliveryStepKeeps, PTL DEF DeliverySpec, NeverRaises, Transitions!Spec

\* At the moment the recipient is told (route_completed), the recipient is a
\* member and the report has its artifact row, unexpired, and its file.
THEOREM NotifiedIsDownloadableHolds == DeliverySpec => NotifiedIsDownloadable
<1> DEFINE Told == \A r \in notified' \ notified :
                       /\ r[1] \in members
                       /\ r \notin expired
                       /\ artifact[r] # None /\ <<r, artifact[r]>> \in files
<1>1. DeliveryInv /\ [DeliveryNext]_allVars => [Told]_allVars
  <2> SUFFICES ASSUME DeliveryInv, DeliveryNext, NEW r \in notified' \ notified
               PROVE  /\ r[1] \in members
                      /\ r \notin expired
                      /\ artifact[r] # None /\ <<r, artifact[r]>> \in files
    OBVIOUS
  <2>1. PICK x \in Runs : RouteCompleted(x)
    <3>1. notified' # notified
      OBVIOUS
    <3> QED
      BY <3>1 DEF DeliveryNext, DeliveryStep, CreateSchedule, Membership, EnqueueDue, Tick,
                  JobStep, deliveryVars
  <2>2. x = r /\ r[1] \in members /\ r \notin expired /\ status[r] = "succeeded"
    BY <2>1 DEF RouteCompleted
  <2>3. artifact[r] # None /\ <<r, artifact[r]>> \in files
    BY <2>1, <2>2, SlotsAreKeys DEF DeliveryInv, JobInv, SucceededIsStored
  <2> QED BY <2>2, <2>3
<1> QED BY <1>1, DeliveryInvHolds, PTL DEF DeliverySpec, NotifiedIsDownloadable
=============================================================================
