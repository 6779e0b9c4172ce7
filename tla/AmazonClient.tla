---------------------------- MODULE AmazonClient ----------------------------
(***************************************************************************)
(* One process fetching reports from Amazon:                               *)
(*                                                                         *)
(*   services/ingest/clients/ads_api.py, sp_api.py   tokens, calls         *)
(*   services/ingest/clients/rate_limit.py           buckets, backoff      *)
(*                                                                         *)
(* A run works through reports: create, poll until done, get the document, *)
(* download.  The first three are endpoints and go through _call, which    *)
(* takes one token of the endpoint's bucket and then sends up to           *)
(* MAX_ATTEMPTS requests.  The two clients share this code line by line;   *)
(* Ads has no bucket (Paced = {}) and needs no document.                   *)
(*                                                                         *)
(* Time is in ticks.  A bucket counts in parts of a token: Rate parts are  *)
(* added per tick, Unit parts make a token.  A sleep is over when its tick *)
(* has come; the fraction the code adds to a backoff is left out.          *)
(* Amazon may rotate the refresh token whenever it is used.  The buckets   *)
(* live in the memory of the process: a new one starts with full ones.     *)
(***************************************************************************)
EXTENDS Integers

CONSTANTS
    Paced,          \* endpoints with a published limit
    Documents,      \* whether a report's document is asked for (SP-API)
    NonRetryable,   \* NON_RETRYABLE_ENDPOINTS
    Rate, Unit,     \* parts added per tick, parts of a token
    Burst,          \* tokens a bucket can hold
    SleepCap,       \* longest sleep of acquire
    MaxAttempts,    \* MAX_ATTEMPTS
    BackoffCap,     \* longest backoff
    RetryAfter,     \* values of the header Retry-After
    PollWait,       \* sleep between two polls
    Timeout,        \* timeout_s of wait_for_report
    Persists,       \* whether the pipeline saves a rotated token at its end
    LastStart,      \* bound: when the last run starts
    MaxRuns         \* bound on the number of runs

Endpoints == {"create", "get", "document"}

ASSUME ClientAssumption ==
    /\ Paced \subseteq Endpoints /\ NonRetryable \subseteq Endpoints
    /\ {Rate, Unit, Burst, MaxAttempts, PollWait, SleepCap, BackoffCap} \subseteq Nat \ {0}
    /\ RetryAfter \subseteq Nat \ {0}
    /\ {Timeout, LastStart, MaxRuns} \subseteq Nat
    /\ {Persists, Documents} \subseteq BOOLEAN

VARIABLES
    now,
    stage,      \* of the report: idle, an endpoint, poll_wait, download
    phase,      \* of the call: acquire, send
    attempt,
    wake,       \* when the current sleep ends
    deadline,   \* of wait_for_report
    tokens, filled,     \* each bucket: parts, and when it was last filled
    access,     \* the access token: none, valid, or revoked by Amazon
    held, stored, newest,  \* refresh token of the process, the vault, Amazon
    created,    \* reports the current create call has made Amazon create
    outcome,    \* of the run: none, ok, raised
    runs,
    lost,       \* history: the newest refresh token is nowhere but at Amazon
    load, loaded    \* history: what each endpoint has been granted, drained
                    \* at the rate, and when that was last added to

callVars  == <<stage, phase, attempt, wake, deadline, created, outcome, runs, lost>>
tokenVars == <<access, held, stored, newest>>
vars == <<now, callVars, tokens, filled, tokenVars, load, loaded>>

Init ==
    /\ now = 0 /\ stage = "idle" /\ phase = "acquire" /\ attempt = 0
    /\ wake = 0 /\ deadline = 0
    /\ tokens = [e \in Paced |-> Burst * Unit] /\ filled = [e \in Paced |-> 0]
    /\ access = "none" /\ held = 0 /\ stored = 0 /\ newest = 0
    /\ created = 0 /\ outcome = "none" /\ runs = 0 /\ lost = FALSE
    /\ load = [e \in Paced |-> 0] /\ loaded = [e \in Paced |-> 0]

Awake == now >= wake
Least(a, b) == IF a <= b THEN a ELSE b

-----------------------------------------------------------------------------
(* Steps of a report.  Call starts a _call, Finish ends the run.           *)

Call(e) == stage' = e /\ phase' = "acquire" /\ attempt' = 0

\* a process creates its buckets full; nothing has been granted to it yet
NewProcess ==
    /\ tokens' = [e \in Paced |-> Burst * Unit] /\ filled' = [e \in Paced |-> now]
    /\ load' = [e \in Paced |-> 0] /\ loaded' = [e \in Paced |-> now]

\* run of a pipeline: a client with the stored refresh token, no access token;
\* in a process of its own (main) or in that of the scheduler, which replays one
\* dataset after the other
StartRun ==
    /\ stage = "idle" /\ runs < MaxRuns /\ now <= LastStart
    /\ runs' = runs + 1
    /\ access' = "none" /\ held' = stored
    /\ Call("create")
    /\ created' = 0 /\ outcome' = "none"
    /\ NewProcess \/ UNCHANGED <<tokens, filled, load, loaded>>
    /\ UNCHANGED <<now, wake, deadline, stored, newest, lost>>

\* The report is loaded or has failed, which run_requests notes; the run is
\* over and saves the refresh token it holds, if the pipeline does so.
Finish(result) ==
    /\ stage' = "idle" /\ phase' = "acquire" /\ attempt' = 0
    /\ outcome' = result
    /\ stored' = IF Persists THEN held ELSE stored

\* the process dies, or its transaction cannot be committed
Die ==
    /\ stage # "idle"
    /\ stage' = "idle" /\ phase' = "acquire" /\ attempt' = 0
    /\ lost' = (lost \/ held # stored)
    /\ NewProcess
    /\ UNCHANGED <<now, wake, deadline, tokenVars, created, outcome, runs>>

\* mutant: nothing is raised when the time is over
PollAgain_NoTimeout ==
    /\ stage = "poll_wait" /\ Awake /\ now < deadline
    /\ Call("get")
    /\ UNCHANGED <<now, wake, deadline, tokens, filled, tokenVars, created, outcome, runs, lost,
                   load, loaded>>

\* wait_for_report: the loop looks at the clock before every poll
PollAgain ==
    /\ stage = "poll_wait" /\ Awake
    /\ \/ now < deadline /\ Call("get") /\ UNCHANGED <<outcome, stored>>
       \/ now >= deadline /\ Finish("raised")
    /\ UNCHANGED <<now, wake, deadline, tokens, filled, access, held, newest, created, runs, lost,
                   load, loaded>>

\* download_report is a plain request, outside _call
Download ==
    /\ stage = "download" /\ Awake
    /\ \E result \in {"ok", "raised"} : Finish(result)
    /\ UNCHANGED <<now, wake, deadline, tokens, filled, access, held, newest, created, runs, lost,
                   load, loaded>>

\* what follows a request that returned
Returned ==
    \/ /\ stage = "create"
       /\ stage' = "poll_wait" /\ phase' = "acquire" /\ attempt' = 0
       /\ deadline' = now' + Timeout
       /\ UNCHANGED <<wake, outcome, stored>>
    \/ /\ stage = "get"         \* still processing: sleep and look again
       /\ stage' = "poll_wait" /\ phase' = "acquire" /\ attempt' = 0
       /\ wake' = now' + PollWait
       /\ UNCHANGED <<deadline, outcome, stored>>
    \/ /\ stage = "get"         \* finished
       /\ Call(IF Documents THEN "document" ELSE "download")
       /\ UNCHANGED <<wake, deadline, outcome, stored>>
    \/ /\ stage \in {"get", "document"}  \* failed report, or no location in it
       /\ Finish("raised")
       /\ UNCHANGED <<wake, deadline>>
    \/ /\ stage = "document"
       /\ Call("download")
       /\ UNCHANGED <<wake, deadline, outcome, stored>>

-----------------------------------------------------------------------------
(* TokenBucket.acquire.                                                    *)

\* mutant: the bucket is not capped at its burst
Filled_Uncapped(e) == tokens[e] + (now - filled[e]) * Rate

Filled(e) == Least(Burst * Unit, tokens[e] + (now - filled[e]) * Rate)

\* The worst stretch of grants up to now: how many parts more than the rate
\* allows were granted over it.
Drained(e) ==
    LET gone == (now - loaded[e]) * Rate
    IN  IF load[e] > gone THEN load[e] - gone ELSE 0

CeilDiv(a, b) == (a + b - 1) \div b

Acquire ==
    /\ stage \in Endpoints /\ phase = "acquire" /\ Awake
    /\ \/ /\ stage \notin Paced
          /\ phase' = "send"
          /\ UNCHANGED <<wake, tokens, filled, load, loaded>>
       \/ /\ stage \in Paced /\ Filled(stage) >= Unit
          /\ tokens' = [tokens EXCEPT ![stage] = Filled(stage) - Unit]
          /\ filled' = [filled EXCEPT ![stage] = now]
          /\ load' = [load EXCEPT ![stage] = Unit + Drained(stage)]
          /\ loaded' = [loaded EXCEPT ![stage] = now]
          /\ phase' = "send"
          /\ UNCHANGED wake
       \/ /\ stage \in Paced /\ Filled(stage) < Unit
          /\ tokens' = [tokens EXCEPT ![stage] = Filled(stage)]
          /\ filled' = [filled EXCEPT ![stage] = now]
          /\ wake' = now + Least(SleepCap, CeilDiv(Unit - Filled(stage), Rate))
          /\ UNCHANGED <<phase, load, loaded>>
    /\ UNCHANGED <<now, stage, attempt, deadline, tokenVars, created, outcome, runs, lost>>

-----------------------------------------------------------------------------
(* _call: one attempt.                                                     *)

Backoff == Least(2 ^ attempt, BackoffCap)

\* the attempt failed in a way that is tried again, after a sleep
Again(sleep) ==
    /\ wake' = now' + sleep
    /\ \/ /\ attempt + 1 < MaxAttempts
          /\ attempt' = attempt + 1
          /\ UNCHANGED <<stage, phase, outcome, stored>>
       \/ attempt + 1 = MaxAttempts /\ Finish("raised")
    /\ UNCHANGED deadline

Raise == Finish("raised") /\ UNCHANGED <<wake, deadline>>

\* mutant: report creation is retried like the poll
TransportError_Retried == Again(Backoff)

\* a transport error, in the request or in the refresh before it
TransportError == IF stage \in NonRetryable THEN Raise ELSE Again(Backoff)

ReadyToSend == stage \in Endpoints /\ phase = "send" /\ Awake

\* what Amazon does with the refresh token it is sent
Rotation == newest' = newest \/ (newest < MaxRuns /\ newest' = newest + 1)

\* mutant: the new refresh token in the answer is not kept
Answered_Dropped ==
    /\ access' = "valid"
    /\ Rotation
    /\ lost' = (lost /\ newest' = newest)
    /\ UNCHANGED held

\* the answer has an access token, and the refresh token if there is a new one
Answered ==
    /\ access' = "valid"
    /\ Rotation
    /\ IF newest' = newest THEN UNCHANGED <<held, lost>>
                           ELSE held' = newest' /\ lost' = FALSE

\* the answer does not arrive, or is an error or of no use: what Amazon has
\* done by then is unknown
Unanswered ==
    /\ TransportError \/ Raise             \* httpx.HTTPError, AdsAuthError
    /\ Rotation
    /\ lost' = (lost \/ newest' # newest)
    /\ UNCHANGED <<access, held, created, runs>>

\* access_token: without a current one, _refresh_access_token asks for it
Refresh ==
    /\ ReadyToSend /\ access = "none"
    /\ now' = now
    /\ \/ Answered /\ UNCHANGED <<stage, phase, attempt, wake, deadline, created, outcome, runs, stored>>
       \/ Unanswered
    /\ UNCHANGED <<tokens, filled, load, loaded>>

Effect(happened) == created' = created + IF happened /\ stage = "create" THEN 1 ELSE 0

\* _request_once with a token, which takes some time, and what _call does
\* with the answer
Send ==
    /\ ReadyToSend /\ access # "none"
    /\ now' \in {now, now + 1}
    /\ \/ /\ access = "revoked"                              \* 401
          /\ Effect(FALSE)
          /\ IF attempt = 0 THEN Again(0) /\ access' = "none"
                            ELSE Raise /\ UNCHANGED access
       \/ /\ access = "valid" /\ UNCHANGED access
          /\ \/ Effect(TRUE) /\ Returned                     \* 2xx
             \/ Effect(FALSE) /\ Raise                       \* other 4xx
             \/ /\ Effect(FALSE)                             \* 429
                /\ IF stage \in NonRetryable THEN Raise
                   ELSE \E s \in RetryAfter \union {Backoff} : Again(s)
             \/ \E h \in BOOLEAN : Effect(h) /\ TransportError   \* lost, or 5xx
    /\ UNCHANGED <<tokens, filled, held, newest, runs, lost, load, loaded>>

\* Amazon ends the access token before its time
Revoke ==
    /\ access = "valid"
    /\ access' = "revoked"
    /\ UNCHANGED <<now, callVars, tokens, filled, held, stored, newest, load, loaded>>

\* time passes for a process that sleeps or is not started; the access
\* token may reach its expiry meanwhile
Tick ==
    /\ ~Awake \/ (stage = "idle" /\ now < LastStart)
    /\ now' = now + 1
    /\ access' \in {access, IF access = "valid" THEN "none" ELSE access}
    /\ UNCHANGED <<callVars, tokens, filled, held, stored, newest, load, loaded>>

Step == StartRun \/ PollAgain \/ Download \/ Acquire \/ Refresh \/ Send

Next == Step \/ Revoke \/ Die \/ Tick

Spec == Init /\ [][Next]_vars

FairSpec == Spec /\ WF_vars(Step) /\ WF_vars(Tick)

-----------------------------------------------------------------------------
(* Properties.                                                             *)

\* Types; the attempts of a call stay below MAX_ATTEMPTS, whatever mixture of
\* 401, 429, 5xx and transport errors uses them up (_call).
TypeOK ==
    /\ now \in Nat /\ wake \in Int /\ deadline \in Nat
    /\ stage \in Endpoints \union {"idle", "poll_wait", "download"}
    /\ phase \in {"acquire", "send"}
    /\ attempt \in 0 .. (MaxAttempts - 1)
    /\ tokens \in [Paced -> Nat] /\ filled \in [Paced -> Nat]
    /\ access \in {"none", "valid", "revoked"}
    /\ held \in Nat /\ stored \in Nat /\ newest \in Nat
    /\ created \in Nat /\ outcome \in {"none", "ok", "raised"} /\ runs \in Nat /\ lost \in BOOLEAN
    /\ load \in [Paced -> Nat] /\ loaded \in [Paced -> Nat]

\* TokenBucket.acquire grants no more than its rate and burst allow, over
\* any stretch of a process's life and however long it slept in between: no
\* stretch of grants exceeds what the rate adds while it lasts by more than
\* one burst.  Over a restart the bound does not hold: the new process starts
\* with a full bucket.
GrantsConform == \A e \in Paced : load[e] <= Burst * Unit

\* One call of create_report makes Amazon create at most one report, whatever
\* answers are lost: "Retry the poll and the download, not the creation".
CreatedOnce == created <= 1

\* Between two runs the vault holds the newest token, unless the answer that
\* carried it never arrived or the process that had it died before the save
\* (run, persist_rotated_refresh_token); the next rotation that arrives mends
\* that.  Failed reports and failed runs lose none.
RotatedIsStored == stage = "idle" /\ ~lost => stored = newest

\* Every run ends: no call sleeps or polls for ever.
RunEnds == []<>(stage = "idle")

-----------------------------------------------------------------------------
(* What a comment says, and the code does not do.                          *)

\* vault.py:8: "Amazon rotates refresh tokens, always persist the newest one".
NewestIsStored == stage = "idle" => stored = newest
=============================================================================
