------------------------------ MODULE Copilot ------------------------------
(***************************************************************************)
(* The two ways the copilot reaches something outside of itself:           *)
(*                                                                         *)
(*   services/copilot/llm/gateway.py     call: budget, retries, fallback   *)
(*   services/copilot/llm/providers.py   prices, local providers           *)
(*   services/copilot/runner.py          run_sql on the read-only role     *)
(*   services/copilot/audit.py, sql_guard.py                               *)
(*                                                                         *)
(* Both are called by processes that share the tables llm_call and         *)
(* audit_log, and every database call and every HTTP request is a step.    *)
(* An HTTP request ends in an answer that can be parsed ("ok") or not      *)
(* ("garbled"), in a status the code retries ("busy"), one it never falls  *)
(* back on ("rejected", 401 and the like), another one of 500 or more      *)
(* ("down"), or in no status at all ("network"; a missing key too).  Money *)
(* is counted in small units; a provider charges for every answer it gives.*)
(***************************************************************************)
EXTENDS Naturals, Sequences

CONSTANTS
    Providers,
    Local,          \* the ones that are local
    Price,          \* estimate of one call; 0 with no price: see Unpriced
    Unpriced,       \* providers whose model has no known price
    AllowUnpriced,  \* LLM_ALLOW_UNPRICED
    Charge,         \* what an answer really costs, at most the estimate
    Fallbacks,      \* possible values of LLM_FALLBACK_PROVIDERS, repetitions skipped
    Budget,         \* LLM_MONTHLY_BUDGET
    MaxAttempts,    \* MAX_ATTEMPTS_PER_PROVIDER
    Callers,        \* processes using gateway.call
    MaxCalls,       \* bound on calls
    Queries,        \* questions put to run_sql: features sql_guard looks at
    ReadableTables, \* ALLOWED_PUBLIC_TABLES and the copilot views
    DefaultLimit, MaxLimit, \* of sql_guard
    MaxRows,        \* MAX_ROWS of runner
    Askers,         \* processes using run_sql
    MaxOutages      \* bound: failing writes of llm_call and audit_log

ASSUME CopilotAssumption ==
    /\ Local \subseteq Providers /\ Unpriced \subseteq Providers \ Local
    /\ Price \in [Providers -> Nat] /\ Charge \in [Providers -> Nat]
    /\ \A p \in Providers : p \notin Unpriced => Charge[p] <= Price[p]
    /\ \A f \in Fallbacks :
         f \in Seq(Providers) /\ \A i, j \in DOMAIN f : f[i] = f[j] => i = j
    /\ MaxAttempts \in Nat \ {0}
    /\ {Budget, MaxCalls, DefaultLimit, MaxLimit, MaxRows, MaxOutages} \subseteq Nat
    /\ AllowUnpriced \in BOOLEAN
    /\ \A q \in Queries : {q.limit, q.matches} \subseteq Nat

VARIABLES
    fallbacks,  \* LLM_FALLBACK_PROVIDERS
    pc, chain, at, n,   \* gateway call: step, providers, index, attempt_no
    sends,      \* HTTP requests of the call in hand: provider and result
    rows,       \* llm_call rows of the call in hand
    spent,      \* v_llm_spend_this_month
    calls,
    step, query, closed,    \* run_sql: step, its query, _Outcome.closed
    told,       \* how the request ends for the caller
    answer,     \* rows returned, whether marked as truncated
    audit,      \* audit_log rows of the request in hand, in order
    outages

llmVars == <<pc, chain, at, n, sends, rows, spent, calls>>
sqlVars == <<step, query, closed, told, answer, audit>>
vars == <<fallbacks, llmVars, sqlVars, outages>>

NoAnswer == [rows |-> 0, truncated |-> FALSE]

Init ==
    /\ fallbacks \in Fallbacks
    /\ pc = [c \in Callers |-> "idle"]
    /\ chain = [c \in Callers |-> <<>>]
    /\ at = [c \in Callers |-> 0]
    /\ n = [c \in Callers |-> 0]
    /\ sends = [c \in Callers |-> <<>>]
    /\ rows = [c \in Callers |-> <<>>]
    /\ spent = 0 /\ calls = 0
    /\ step = [a \in Askers |-> "idle"]
    /\ query \in [Askers -> Queries]
    /\ closed = [a \in Askers |-> FALSE]
    /\ told = [a \in Askers |-> "failed"]
    /\ answer = [a \in Askers |-> NoAnswer]
    /\ audit = [a \in Askers |-> <<>>]
    /\ outages = 0

\* a write that is lost, while the bound lasts
Outage == outages < MaxOutages /\ outages' = outages + 1

-----------------------------------------------------------------------------
(* gateway.call.                                                           *)

\* the fallbacks that are not in the chain already
Others(primary) ==
    IF \E i \in DOMAIN fallbacks : fallbacks[i] = primary
    THEN LET i == CHOOSE j \in DOMAIN fallbacks : fallbacks[j] = primary
         IN  SubSeq(fallbacks, 1, i - 1) \o SubSeq(fallbacks, i + 1, Len(fallbacks))
    ELSE fallbacks

\* mutant: the remote fallbacks of a local provider are tried like any other
FallbackChain_NoLocalRule(primary) == <<primary>> \o Others(primary)

\* fallback_chain; the empty sequence stands for the LlmError
FallbackChain(primary) ==
    IF primary \in Local /\ Others(primary) # <<>> THEN <<>> ELSE <<primary>> \o Others(primary)

StartCall(c) ==
    /\ pc[c] = "idle" /\ calls < MaxCalls
    /\ calls' = calls + 1
    /\ \E primary \in Providers :
         /\ chain' = [chain EXCEPT ![c] = FallbackChain(primary)]
         /\ pc' = [pc EXCEPT ![c] = IF FallbackChain(primary) = <<>> THEN "idle" ELSE "budget"]
    /\ at' = [at EXCEPT ![c] = 1]
    /\ n' = [n EXCEPT ![c] = 1]
    /\ sends' = [sends EXCEPT ![c] = <<>>]
    /\ rows' = [rows EXCEPT ![c] = <<>>]
    /\ UNCHANGED <<fallbacks, spent, sqlVars, outages>>

\* estimate_cost, for a provider with a price or when none is needed
Estimate(p) == IF p \in Unpriced THEN 0 ELSE Price[p]

\* check_budget; zero means switched off
WithinBudget(p) == Budget > 0 /\ spent + Estimate(p) <= Budget

\* Unpriced and BudgetExceeded are raised out of both loops
CheckBudget(c) ==
    /\ pc[c] = "budget"
    /\ LET p == chain[c][at[c]]
       IN  pc' = [pc EXCEPT ![c] =
               IF (p \in Unpriced => AllowUnpriced) /\ WithinBudget(p) THEN "send" ELSE "idle"]
    /\ UNCHANGED <<fallbacks, chain, at, n, sends, rows, spent, calls, sqlVars, outages>>

RetryAgain(c) == n[c] < MaxAttempts

\* What follows an attempt without an answer.  A status of the never-fallback
\* set is raised inside of the try, where the generic handler catches it, asks
\* should_fallback without the status, and goes on as after a network error.
\* "down" is not retried, the others are.
AfterFailure(c, result) ==
    IF RetryAgain(c) /\ result # "down"
    THEN /\ n' = [n EXCEPT ![c] = @ + 1]
         /\ UNCHANGED <<pc, at>>
    ELSE /\ n' = [n EXCEPT ![c] = 1]
         /\ IF at[c] < Len(chain[c])
            THEN at' = [at EXCEPT ![c] = @ + 1] /\ pc' = [pc EXCEPT ![c] = "budget"]
            ELSE UNCHANGED at /\ pc' = [pc EXCEPT ![c] = "idle"]

\* mutant: a row is written for the last attempt at a provider only
Recorded_Last(c, result) == result # "ok" /\ ~RetryAgain(c)

\* The finally block: attempts that did not succeed.
Recorded(c, result) == result # "ok"

\* cost_usd of a row: set after the answer was parsed, so none of those has it
RowCost(c, result) == IF result = "ok" THEN Charge[chain[c][at[c]]] ELSE 0

\* record: a write that fails is only printed
Record(c, result) ==
    IF ~Recorded(c, result) THEN UNCHANGED <<rows, spent, outages>>
    ELSE \/ /\ rows' = [rows EXCEPT ![c] = Append(@, <<chain[c][at[c]], result>>)]
            /\ spent' = spent + RowCost(c, result)
            /\ UNCHANGED outages
         \/ Outage /\ UNCHANGED <<rows, spent>>

Send(c) ==
    /\ pc[c] = "send"
    /\ LET p == chain[c][at[c]]
       IN  \E result \in {"ok", "garbled", "busy", "rejected", "down", "network"} :
             /\ sends' = [sends EXCEPT ![c] = Append(@, <<p, result>>)]
             /\ IF result = "ok" THEN pc' = [pc EXCEPT ![c] = "idle"] /\ UNCHANGED <<at, n>>
                                 ELSE AfterFailure(c, result)
             /\ Record(c, result)
    /\ UNCHANGED <<fallbacks, chain, calls, sqlVars>>

-----------------------------------------------------------------------------
(* run_sql.                                                                *)

\* enforce_limit; 0 is a query without one
EnforceLimit(q) ==
    IF q.limit = 0 THEN DefaultLimit ELSE IF q.limit > MaxLimit THEN MaxLimit ELSE q.limit

\* rows the statement that is executed would return
Yield(q) == IF q.matches < EnforceLimit(q) THEN q.matches ELSE EnforceLimit(q)

\* sql_guard.validate: one plain select over readable tables
Validate(q) == q.plain /\ q.tables # {} /\ q.tables \subseteq ReadableTables

\* an insert into audit_log
Insert(a, row) == audit' = [audit EXCEPT ![a] = Append(@, row)]

\* one that raises: it did not land, or only the answer to its commit was lost
Lost(a, row) == Outage /\ (UNCHANGED audit \/ Insert(a, row))

Goto(a, s) == step' = [step EXCEPT ![a] = s]
Tell(a, what) == told' = [told EXCEPT ![a] = what]
OtherSql == <<fallbacks, llmVars>>

\* audited: record_request; if it fails nothing else happens
RecordRequest(a) ==
    /\ step[a] \in {"idle", "ended"}
    /\ query' \in {[query EXCEPT ![a] = q] : q \in Queries}
    /\ closed' = [closed EXCEPT ![a] = FALSE]
    /\ answer' = [answer EXCEPT ![a] = NoAnswer]
    /\ Tell(a, "failed")
    /\ \/ audit' = [audit EXCEPT ![a] = <<"request">>] /\ Goto(a, "guard") /\ UNCHANGED outages
       \/ audit' \in {[audit EXCEPT ![a] = log] : log \in {<<>>, <<"request">>}} /\ Goto(a, "ended") /\ Outage
    /\ UNCHANGED OtherSql

\* refuse_unknown: a refusal without a request before it
RefuseUnknown(a) ==
    /\ step[a] \in {"idle", "ended"} /\ Goto(a, "ended")
    /\ \/ audit' = [audit EXCEPT ![a] = <<"refused">>] /\ Tell(a, "unknown") /\ UNCHANGED outages
       \/ audit' \in {[audit EXCEPT ![a] = log] : log \in {<<>>, <<"refused">>}} /\ Tell(a, "failed") /\ Outage
    /\ answer' = [answer EXCEPT ![a] = NoAnswer]
    /\ UNCHANGED <<OtherSql, query, closed>>

\* mutant: the row is written and the outcome stays open
Outcome_StaysOpen(a, row) == Insert(a, row) /\ UNCHANGED <<closed, outages>>

\* _Outcome.result and refused: the row, then closed
Outcome(a, row) == Insert(a, row) /\ closed' = [closed EXCEPT ![a] = TRUE] /\ UNCHANGED outages

\* run_sql: a statement the guard refuses is recorded and never executed, and
\* CopilotRefusal goes through the except and finally clauses of audited
Guard(a) ==
    /\ step[a] = "guard"
    /\ IF Validate(query[a])
       THEN Goto(a, "run") /\ UNCHANGED <<audit, closed, told, outages>>
       ELSE /\ Goto(a, "except")
            /\ \/ Outcome(a, "refused") /\ Tell(a, "refused")
               \/ Lost(a, "refused") /\ UNCHANGED <<closed, told>>
    /\ UNCHANGED <<OtherSql, query, answer>>

\* boot_check: the connected role can read nothing that it should not
BootCheck(a) ==
    /\ step[a] = "run"
    /\ Goto(a, "query") \/ Goto(a, "except")
    /\ UNCHANGED <<OtherSql, query, closed, told, answer, audit, outages>>

\* fetchmany(MAX_ROWS + 1)
Fetch(yield) == IF yield > MaxRows THEN MaxRows + 1 ELSE yield

\* set_tenant and the query, in one transaction that is rolled back
Execute(a) ==
    /\ step[a] = "query"
    /\ \/ LET fetched == Fetch(Yield(query[a]))
          IN  /\ answer' = [answer EXCEPT ![a] =
                     [rows |-> IF fetched > MaxRows THEN MaxRows ELSE fetched,
                      truncated |-> fetched > MaxRows]]
              /\ Goto(a, "result")
       \/ Goto(a, "except") /\ UNCHANGED answer
    /\ UNCHANGED <<OtherSql, query, closed, told, audit, outages>>

\* outcome.result; the answer is returned once its row is written
RecordResult(a) ==
    /\ step[a] = "result"
    /\ \/ Outcome(a, "result") /\ Tell(a, "answered") /\ Goto(a, "finally")
       \/ Lost(a, "result") /\ Goto(a, "except") /\ UNCHANGED <<closed, told>>
    /\ UNCHANGED <<OtherSql, query, answer>>

\* the except clause of audited: an exception of the body or of its recording
RecordError(a) ==
    /\ step[a] = "except" /\ Goto(a, "finally")
    /\ IF closed[a] THEN UNCHANGED <<audit, closed, outages>>
       ELSE Outcome(a, "error") \/ (Lost(a, "error") /\ UNCHANGED closed)
    /\ UNCHANGED <<OtherSql, query, told, answer>>

\* its finally clause: record_result with source "incomplete"
Finally(a) ==
    /\ step[a] = "finally" /\ Goto(a, "ended")
    /\ IF closed[a] THEN UNCHANGED <<audit, closed, outages>>
       ELSE Outcome(a, "incomplete") \/ (Lost(a, "incomplete") /\ UNCHANGED closed)
    /\ UNCHANGED <<OtherSql, query, told, answer>>

Ask(a) == Guard(a) \/ BootCheck(a) \/ Execute(a) \/ RecordResult(a) \/ RecordError(a) \/ Finally(a)

Next ==
    \/ \E c \in Callers : StartCall(c) \/ CheckBudget(c) \/ Send(c)
    \/ \E a \in Askers : RecordRequest(a) \/ RefuseUnknown(a) \/ Ask(a)

Spec == Init /\ [][Next]_vars

-----------------------------------------------------------------------------
(* Properties.                                                             *)

\* Types; an attempt number never passes MAX_ATTEMPTS_PER_PROVIDER, and there
\* is an answer only after the query was executed.
TypeOK ==
    /\ \A c \in Callers : n[c] \in 0 .. MaxAttempts /\ at[c] \in 0 .. Len(chain[c]) + 1
    /\ \A a \in Askers : answer[a] # NoAnswer => step[a] \in {"result", "except", "finally", "ended"}
    /\ spent \in Nat /\ outages \in 0 .. MaxOutages

\* A tenant who chose local inference is never sent to a remote provider,
\* whatever the fallback list says and however the local one fails
\* (fallback_chain).
LocalStaysLocal ==
    \A c \in Callers : sends[c] # <<>> /\ sends[c][1][1] \in Local =>
        \A i \in DOMAIN sends[c] : sends[c][i][1] \in Local

\* the attempts of the call in hand that failed: an answer ends the call
Failed(c) ==
    LET last == Len(sends[c])
    IN  IF last > 0 /\ sends[c][last][2] = "ok" THEN SubSeq(sends[c], 1, last - 1) ELSE sends[c]

\* The ledger has the attempts of a call one by one and in order, up to the one
\* that was answered, less the writes that were lost ("a budget fed only by
\* successes under-counts").
FailuresAreRecorded ==
    \A c \in Callers :
        /\ Len(Failed(c)) <= Len(rows[c]) + outages
        /\ outages = 0 => rows[c] = Failed(c)

\* what the log of a request should hold, by what the caller was told
Log == [answered |-> <<"request", "result">>, refused |-> <<"request", "refused">>,
        unknown |-> <<"refused">>, failed |-> <<"request", "error">>]

\* The log of a request is the one that goes with what the caller was told:
\* the request and one ending.  When writes of the log raise, this may fail for
\* a request that the caller was told to have failed and for no other: an
\* answer, or a refusal, is given only with its row, and with no other row.
OneEnding ==
    \A a \in Askers : step[a] = "ended" /\ (told[a] # "failed" \/ outages = 0) =>
        audit[a] = Log[told[a]]

\* An answer with fewer rows than the executed statement yields is marked.
TruncationIsMarked ==
    \A a \in Askers : step[a] = "ended" /\ told[a] = "answered" =>
        /\ answer[a].rows <= MaxRows
        /\ answer[a].rows < Yield(query[a]) => answer[a].truncated

\* "a 401 being hidden by falling back": after a rejection no other provider
\* is called (gateway.py, "what is deliberately impossible here").
RejectionIsNotHidden ==
    \A c \in Callers : \A i, j \in DOMAIN sends[c] :
        i < j /\ sends[c][i][2] = "rejected" => sends[c][j][1] = sends[c][i][1]

\* The ledger has every request of a call, the one that was answered too:
\* "write one llm_call row per attempt, in a finally block" (gateway.py).
EveryAttemptIsRecorded ==
    \A c \in Callers : outages = 0 => rows[c] = sends[c]

\* What follows for the ceiling: whatever has been spent, check_budget decides as in a
\* month in which nothing was.
BudgetForgets ==
    \A p \in Providers : WithinBudget(p) <=> Budget > 0 /\ Estimate(p) <= Budget

\* One call is charged a bounded number of times at least: at most
\* MAX_ATTEMPTS_PER_PROVIDER requests for each provider of its chain (the two
\* loops of call, the inner of which starts anew for every provider).
CallIsBounded ==
    \A c \in Callers : Len(sends[c]) <= Len(chain[c]) * MaxAttempts
=============================================================================
