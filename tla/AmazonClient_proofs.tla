------------------------- MODULE AmazonClient_proofs -------------------------
(***************************************************************************)
(* Proofs about AmazonClient, for any rates, bursts, attempts, timeouts    *)
(* and number of runs.                                                     *)
(***************************************************************************)
EXTENDS AmazonClient, TLAPS

Capacity == Burst * Unit

\* A bucket was last filled between the last grant and now, and what it holds
\* and what is left of the grants, drained up to then, fit into one burst.
BucketInv ==
    \A e \in Paced :
        /\ loaded[e] <= filled[e] /\ filled[e] <= now
        /\ tokens[e] <= Capacity /\ load[e] <= Capacity
        /\ tokens[e] + load[e] - (filled[e] - loaded[e]) * Rate <= Capacity

LEMMA Constants ==
    /\ Rate \in Nat \ {0} /\ Unit \in Nat \ {0} /\ Burst \in Nat \ {0}
    /\ Capacity \in Nat /\ MaxAttempts \in Nat \ {0} /\ PollWait \in Nat
    /\ SleepCap \in Nat /\ BackoffCap \in Nat /\ Timeout \in Nat
    /\ RetryAfter \subseteq Nat /\ Paced \subseteq Endpoints
    /\ Persists \in BOOLEAN /\ Documents \in BOOLEAN
BY ClientAssumption DEF Capacity

\* TokenBucket.acquire fills a bucket to at most its burst and by no more than
\* the rate adds.
LEMMA FilledBounds ==
    ASSUME TypeOK, BucketInv, NEW e \in Paced
    PROVE  /\ Filled(e) \in Nat /\ Filled(e) <= Capacity
           /\ Filled(e) <= tokens[e] + (now - filled[e]) * Rate
           /\ (now - filled[e]) * Rate \in Nat
<1>1. /\ tokens[e] \in Nat /\ filled[e] \in Nat /\ now \in Nat /\ filled[e] <= now
      /\ now - filled[e] \in Nat
  BY DEF TypeOK, BucketInv
<1>2. (now - filled[e]) * Rate \in Nat
  BY <1>1, Constants
<1> QED
  BY <1>1, <1>2, Constants DEF Filled, Least, Capacity

\* What the grants weigh after draining, next to what the bucket then holds.
LEMMA DrainedBounds ==
    ASSUME TypeOK, BucketInv, NEW e \in Paced
    PROVE  /\ Drained(e) \in Nat
           /\ Filled(e) + Drained(e) <= Capacity
           /\ Filled(e) + load[e] - (now - loaded[e]) * Rate <= Capacity
<1>1. /\ tokens[e] \in Nat /\ filled[e] \in Nat /\ loaded[e] \in Nat /\ load[e] \in Nat
      /\ now \in Nat /\ filled[e] <= now /\ loaded[e] <= filled[e]
      /\ tokens[e] + load[e] - (filled[e] - loaded[e]) * Rate <= Capacity
  BY DEF TypeOK, BucketInv
<1>2. (now - loaded[e]) * Rate = (now - filled[e]) * Rate + (filled[e] - loaded[e]) * Rate
  BY <1>1, Constants
<1>3. (now - loaded[e]) * Rate \in Int /\ (filled[e] - loaded[e]) * Rate \in Int
  BY <1>1, Constants
<1>4. Filled(e) + load[e] - (now - loaded[e]) * Rate <= Capacity
  BY <1>1, <1>2, <1>3, FilledBounds, Constants
<1> QED
  BY <1>1, <1>3, <1>4, FilledBounds, Constants DEF Drained

\* A sleep of the code is a number of ticks.
LEMMA Sleeps ==
    ASSUME TypeOK, BucketInv
    PROVE  /\ Backoff \in Int
           /\ \A e \in Paced : Least(SleepCap, CeilDiv(Unit - Filled(e), Rate)) \in Int
<1>1. 2 ^ attempt \in Int
  BY Constants DEF TypeOK
<1>2. ASSUME NEW e \in Paced PROVE Least(SleepCap, CeilDiv(Unit - Filled(e), Rate)) \in Int
  <2>1. Unit - Filled(e) + Rate - 1 \in Int
    BY FilledBounds, Constants
  <2> QED
    BY <2>1, Constants DEF Least, CeilDiv
<1> QED
  BY <1>1, <1>2, Constants DEF Backoff, Least

-----------------------------------------------------------------------------
(* Types and buckets.                                                      *)

\* What a step of the report may do to the call: the parts of TypeOK that
\* Call, Finish, Again and Returned determine together.
CallType ==
    /\ wake \in Int /\ deadline \in Nat
    /\ stage \in Endpoints \union {"idle", "poll_wait", "download"}
    /\ phase \in {"acquire", "send"}
    /\ attempt \in 0 .. (MaxAttempts - 1)
    /\ outcome \in {"none", "ok", "raised"}
    /\ stored \in Nat

\* The end of a run leaves the call well typed.
LEMMA FinishType ==
    ASSUME TypeOK, NEW r \in {"ok", "raised"}, Finish(r), wake' \in Int, deadline' \in Nat
    PROVE  CallType'
BY Constants DEF TypeOK, Finish, CallType

\* So does another attempt.
LEMMA AgainType ==
    ASSUME TypeOK, now' \in Nat, NEW s \in Int, Again(s)
    PROVE  CallType'
<1>1. wake' \in Int /\ deadline' \in Nat
  BY DEF Again, TypeOK
<1>2. CASE attempt + 1 < MaxAttempts /\ attempt' = attempt + 1
           /\ UNCHANGED <<stage, phase, outcome, stored>>
  BY <1>1, <1>2, Constants DEF TypeOK, CallType
<1>3. CASE Finish("raised")
  BY <1>1, <1>3, FinishType
<1> QED
  BY <1>2, <1>3 DEF Again

LEMMA RaiseType ==
    ASSUME TypeOK, Raise
    PROVE  CallType'
BY FinishType DEF Raise, TypeOK

LEMMA TransportErrorType ==
    ASSUME TypeOK, BucketInv, now' \in Nat, TransportError
    PROVE  CallType'
BY RaiseType, AgainType, Sleeps DEF TransportError

\* And so does a request that returned.
LEMMA ReturnedType ==
    ASSUME TypeOK, now' \in Nat, Returned
    PROVE  CallType'
<1>1. 0 \in 0 .. (MaxAttempts - 1)
  BY Constants
<1>2. CASE Finish("raised") /\ UNCHANGED <<wake, deadline>>
  BY <1>2, FinishType DEF TypeOK
<1>3. CASE /\ stage' \in Endpoints \union {"poll_wait", "download"}
           /\ phase' = "acquire" /\ attempt' = 0
           /\ wake' = wake \/ wake' = now' + PollWait
           /\ deadline' = deadline \/ deadline' = now' + Timeout
           /\ UNCHANGED <<outcome, stored>>
  <2>1. wake' \in Int /\ deadline' \in Nat
    BY <1>3, Constants DEF TypeOK
  <2>2. outcome' \in {"none", "ok", "raised"} /\ stored' \in Nat
    BY <1>3 DEF TypeOK
  <2> QED
    BY <1>1, <1>3, <2>1, <2>2 DEF CallType
<1> QED
  BY <1>2, <1>3, Constants DEF Returned, Call, Endpoints

\* Everything but Acquire leaves the buckets alone, and time does not run back.
LEMMA BucketsKept ==
    ASSUME TypeOK, BucketInv, now' \in Nat, now' >= now, UNCHANGED <<tokens, filled, load, loaded>>
    PROVE  BucketInv'
<1> SUFFICES ASSUME NEW e \in Paced
             PROVE  /\ loaded[e] <= filled[e] /\ filled[e] <= now'
                    /\ tokens[e] <= Capacity /\ load[e] <= Capacity
                    /\ tokens[e] + load[e] - (filled[e] - loaded[e]) * Rate <= Capacity
  BY DEF BucketInv, Capacity
<1>1. filled[e] \in Nat /\ now \in Nat
  BY DEF TypeOK
<1> QED
  BY <1>1 DEF BucketInv

ClientInv == TypeOK /\ BucketInv

LEMMA InitClientInv == Init => ClientInv
<1> SUFFICES ASSUME Init PROVE TypeOK /\ BucketInv
  BY DEF ClientInv
<1>1. TypeOK
  <2>1. lost \in BOOLEAN
    BY Zenon DEF Init
  <2>2. tokens \in [Paced -> Nat] /\ 0 \in 0 .. (MaxAttempts - 1)
    BY Constants DEF Init, Capacity
  <2> QED
    BY <2>1, <2>2 DEF Init, TypeOK
<1>2. ASSUME NEW e \in Paced
      PROVE  /\ loaded[e] = 0 /\ filled[e] = 0 /\ now = 0
             /\ tokens[e] = Capacity /\ load[e] = 0 /\ (0 - 0) * Rate = 0
  BY Constants DEF Init, Capacity
<1> QED
  BY <1>1, <1>2, Constants DEF BucketInv

\* A grant, or the sleep before it, keeps bucket and drained grants within one
\* burst.
LEMMA AcquireInv ==
    ASSUME ClientInv, Acquire
    PROVE  ClientInv'
<1> USE DEF ClientInv
<1>1. CASE stage \notin Paced /\ phase' = "send" /\ UNCHANGED <<wake, tokens, filled, load, loaded>>
  <2>1. TypeOK'
    BY <1>1 DEF TypeOK, Acquire, tokenVars
  <2>2. now' \in Nat /\ now' >= now
    BY DEF TypeOK, Acquire
  <2> QED
    BY <1>1, <2>1, <2>2, BucketsKept
<1>2. CASE /\ stage \in Paced /\ Filled(stage) >= Unit
           /\ tokens' = [tokens EXCEPT ![stage] = Filled(stage) - Unit]
           /\ filled' = [filled EXCEPT ![stage] = now]
           /\ load' = [load EXCEPT ![stage] = Unit + Drained(stage)]
           /\ loaded' = [loaded EXCEPT ![stage] = now]
           /\ phase' = "send" /\ UNCHANGED wake
  <2>1. /\ Filled(stage) - Unit \in Nat /\ Unit + Drained(stage) \in Nat
        /\ Filled(stage) - Unit <= Capacity /\ Unit + Drained(stage) <= Capacity
        /\ Filled(stage) - Unit + (Unit + Drained(stage)) <= Capacity
    BY <1>2, FilledBounds, DrainedBounds, Constants
  <2>2. TypeOK'
    BY <1>2, <2>1 DEF TypeOK, Acquire, tokenVars
  <2>3. ASSUME NEW e \in Paced
        PROVE  /\ loaded'[e] <= filled'[e] /\ filled'[e] <= now'
               /\ tokens'[e] <= Capacity /\ load'[e] <= Capacity
               /\ tokens'[e] + load'[e] - (filled'[e] - loaded'[e]) * Rate <= Capacity
    <3>1. CASE e = stage
      <4>1. tokens'[e] = Filled(e) - Unit /\ filled'[e] = now /\ load'[e] = Unit + Drained(e)
            /\ loaded'[e] = now /\ now' = now /\ now \in Nat
        BY <1>2, <3>1 DEF TypeOK, Acquire
      <4>2. (now - now) * Rate = 0
        BY <4>1, Constants
      <4> QED
        BY <2>1, <3>1, <4>1, <4>2, Constants
    <3>2. CASE e # stage
      BY <1>2, <3>2 DEF TypeOK, BucketInv, Acquire
    <3> QED
      BY <3>1, <3>2
  <2> QED
    BY <2>2, <2>3 DEF BucketInv, Capacity
<1>3. CASE /\ stage \in Paced /\ Filled(stage) < Unit
           /\ tokens' = [tokens EXCEPT ![stage] = Filled(stage)]
           /\ filled' = [filled EXCEPT ![stage] = now]
           /\ wake' = now + Least(SleepCap, CeilDiv(Unit - Filled(stage), Rate))
           /\ UNCHANGED <<phase, load, loaded>>
  <2>1. Filled(stage) \in Nat /\ Filled(stage) <= Capacity
    BY <1>3, FilledBounds
  <2>2. wake' \in Int
    BY <1>3, Sleeps DEF TypeOK
  <2>3. TypeOK'
    BY <1>3, <2>1, <2>2 DEF TypeOK, Acquire, tokenVars
  <2>4. ASSUME NEW e \in Paced
        PROVE  /\ loaded'[e] <= filled'[e] /\ filled'[e] <= now'
               /\ tokens'[e] <= Capacity /\ load'[e] <= Capacity
               /\ tokens'[e] + load'[e] - (filled'[e] - loaded'[e]) * Rate <= Capacity
    <3>1. CASE e = stage
      <4>1. /\ tokens'[e] = Filled(e) /\ filled'[e] = now /\ load'[e] = load[e]
            /\ loaded'[e] = loaded[e] /\ now' = now /\ now \in Nat
            /\ loaded[e] \in Nat /\ filled[e] \in Nat
            /\ loaded[e] <= filled[e] /\ filled[e] <= now /\ load[e] <= Capacity
        BY <1>3, <3>1 DEF TypeOK, Acquire, BucketInv
      <4> QED
        BY <2>1, <3>1, <4>1, DrainedBounds
    <3>2. CASE e # stage
      BY <1>3, <3>2 DEF TypeOK, BucketInv, Acquire
    <3> QED
      BY <3>1, <3>2
  <2> QED
    BY <2>3, <2>4 DEF BucketInv, Capacity
<1> QED
  BY <1>1, <1>2, <1>3 DEF Acquire

\* A new process starts with full buckets and no grants.
LEMMA NewProcessInv ==
    ASSUME TypeOK, NewProcess, now' = now
    PROVE  /\ BucketInv'
           /\ tokens' \in [Paced -> Nat] /\ filled' \in [Paced -> Nat]
           /\ load' \in [Paced -> Nat] /\ loaded' \in [Paced -> Nat]
<1>1. now \in Nat
  BY DEF TypeOK
<1>2. ASSUME NEW e \in Paced
      PROVE  /\ loaded'[e] = now /\ filled'[e] = now /\ now' = now
             /\ tokens'[e] = Capacity /\ load'[e] = 0 /\ (now - now) * Rate = 0
  BY <1>1, Constants DEF NewProcess, Capacity
<1>3. ASSUME NEW e \in Paced
      PROVE  /\ loaded'[e] <= filled'[e] /\ filled'[e] <= now'
             /\ tokens'[e] <= Capacity /\ load'[e] <= Capacity
             /\ tokens'[e] + load'[e] - (filled'[e] - loaded'[e]) * Rate <= Capacity
  <2>1. (filled'[e] - loaded'[e]) * Rate = 0
    BY <1>2
  <2>2. /\ loaded'[e] = now /\ filled'[e] = now /\ now' = now
        /\ tokens'[e] = Capacity /\ load'[e] = 0 /\ Capacity \in Nat
    BY <1>2, Constants
  <2> QED
    BY <1>1, <2>1, <2>2
<1>4. BucketInv'
  BY <1>3 DEF BucketInv, Capacity
<1> QED
  BY <1>1, <1>4, Constants DEF NewProcess, Capacity

\* The steps that end a _call, poll, or answer a request.
LEMMA StepInv ==
    ASSUME ClientInv, StartRun \/ PollAgain \/ Download \/ Refresh \/ Send
    PROVE  ClientInv'
<1> USE DEF ClientInv
<1>1. now' \in Nat /\ now' >= now
  <2>1. now' = now \/ now' = now + 1
    <3>1. CASE StartRun \/ PollAgain \/ Download \/ Refresh
      BY <3>1 DEF StartRun, PollAgain, Download, Refresh
    <3>2. CASE Send
      BY <3>2 DEF Send
    <3> QED
      BY <3>1, <3>2
  <2> QED
    BY <2>1 DEF TypeOK
<1>2. /\ BucketInv'
      /\ tokens' \in [Paced -> Nat] /\ filled' \in [Paced -> Nat]
      /\ load' \in [Paced -> Nat] /\ loaded' \in [Paced -> Nat]
  <2>1. CASE UNCHANGED <<tokens, filled, load, loaded>>
    BY <1>1, <2>1, BucketsKept DEF TypeOK
  <2>2. CASE StartRun /\ NewProcess
    BY <2>2, NewProcessInv DEF StartRun
  <2> QED
    BY <2>1, <2>2 DEF StartRun, PollAgain, Download, Refresh, Send
<1>3. CallType'
  <2>1. CASE StartRun
    BY <2>1, Constants DEF StartRun, Call, TypeOK, CallType, Endpoints
  <2>2. CASE PollAgain
    <3>1. CASE Call("get") /\ UNCHANGED <<outcome, stored>>
      BY <2>2, <3>1, Constants DEF PollAgain, Call, TypeOK, CallType, Endpoints
    <3>2. CASE Finish("raised")
      BY <2>2, <3>2, FinishType DEF PollAgain, TypeOK
    <3> QED
      BY <2>2, <3>1, <3>2 DEF PollAgain
  <2>3. CASE Download
    BY <2>3, FinishType DEF Download, TypeOK
  <2>4. CASE Refresh
    <3>1. CASE UNCHANGED <<stage, phase, attempt, wake, deadline, created, outcome, runs, stored>>
      BY <3>1 DEF TypeOK, CallType
    <3>2. CASE TransportError
      BY <1>1, <3>2, TransportErrorType
    <3>3. CASE Raise
      BY <3>3, RaiseType
    <3> QED
      BY <2>4, <3>1, <3>2, <3>3 DEF Refresh, Unanswered
  <2>5. CASE Send
    <3>1. CASE Again(0)
      BY <1>1, <3>1, AgainType
    <3>2. CASE Raise
      BY <3>2, RaiseType
    <3>3. CASE Returned
      BY <1>1, <3>3, ReturnedType
    <3>4. CASE \E s \in RetryAfter \union {Backoff} : Again(s)
      BY <1>1, <3>4, AgainType, Sleeps, Constants
    <3>5. CASE TransportError
      BY <1>1, <3>5, TransportErrorType
    <3> QED
      BY <2>5, <3>1, <3>2, <3>3, <3>4, <3>5 DEF Send
  <2> QED
    BY <2>1, <2>2, <2>3, <2>4, <2>5
<1>4. /\ access' \in {"none", "valid", "revoked"} /\ held' \in Nat /\ newest' \in Nat
      /\ created' \in Nat /\ runs' \in Nat
  <2>1. CASE Refresh
    BY <2>1 DEF TypeOK, Refresh, Answered, Unanswered, Rotation
  <2>2. CASE StartRun \/ PollAgain \/ Download \/ Send
    BY <2>2 DEF TypeOK, StartRun, PollAgain, Download, Send, Effect
  <2> QED
    BY <2>1, <2>2
<1>5. lost' \in BOOLEAN
  <2>1. CASE Refresh
    <3>1. CASE Answered
      BY <3>1, Zenon DEF TypeOK, Answered
    <3>2. CASE Unanswered
      BY <3>2, Zenon DEF TypeOK, Unanswered
    <3> QED
      BY <2>1, <3>1, <3>2, Zenon DEF Refresh
  <2>2. CASE StartRun \/ PollAgain \/ Download \/ Send
    BY <2>2, Zenon DEF TypeOK, StartRun, PollAgain, Download, Send
  <2> QED
    BY <2>1, <2>2
<1> QED
  BY <1>1, <1>2, <1>3, <1>4, <1>5 DEF TypeOK, CallType

LEMMA NextClientInv == ClientInv /\ [Next]_vars => ClientInv'
<1> SUFFICES ASSUME ClientInv, [Next]_vars PROVE ClientInv'
  OBVIOUS
<1> USE DEF ClientInv
<1>1. CASE Acquire
  BY <1>1, AcquireInv
<1>2. CASE StartRun \/ PollAgain \/ Download \/ Refresh \/ Send
  BY <1>2, StepInv
<1>3. CASE Revoke
  <2>1. TypeOK'
    BY <1>3 DEF Revoke, TypeOK, callVars
  <2> QED
    BY <1>3, <2>1, BucketsKept DEF Revoke, TypeOK
<1>4. CASE Die
  <2>1. now' = now /\ NewProcess
    BY <1>4 DEF Die
  <2>2. lost' \in BOOLEAN
    BY <1>4, Zenon DEF Die
  <2>3. TypeOK'
    BY <1>4, <2>1, <2>2, NewProcessInv, Constants DEF Die, TypeOK, tokenVars
  <2> QED
    BY <2>1, <2>3, NewProcessInv
<1>5. CASE Tick
  <2>1. TypeOK'
    BY <1>5 DEF Tick, TypeOK, callVars
  <2> QED
    BY <1>5, <2>1, BucketsKept DEF Tick, TypeOK
<1>6. CASE UNCHANGED vars
  <2>1. TypeOK'
    BY <1>6 DEF vars, callVars, tokenVars, TypeOK
  <2> QED
    BY <1>6, <2>1, BucketsKept DEF vars, TypeOK
<1> QED
  BY <1>1, <1>2, <1>3, <1>4, <1>5, <1>6 DEF Next, Step

\* Every reachable state is well typed; in particular the attempts of a call
\* stay below MAX_ATTEMPTS, whatever mixture of answers uses them up.
THEOREM TypeCorrect == Spec => []TypeOK
<1>1. ClientInv => TypeOK
  BY DEF ClientInv
<1> QED
  BY <1>1, InitClientInv, NextClientInv, PTL DEF Spec

\* Every bucket of a process grants no more than its rate and burst allow over
\* any stretch of that process's life, for any rate, burst and sleep.
THEOREM GrantsConformHolds == Spec => []GrantsConform
<1>1. ClientInv => GrantsConform
  BY DEF ClientInv, BucketInv, GrantsConform, Capacity
<1> QED
  BY <1>1, InitClientInv, NextClientInv, PTL DEF Spec

-----------------------------------------------------------------------------
(* Creation of reports.                                                    *)

\* While create_report is still trying, Amazon has created nothing yet.
CreateInv == created \in 0 .. 1 /\ (stage = "create" => created = 0)

\* Once an answer may have been lost the call is over.
LEMMA SendCreateInv ==
    ASSUME "create" \in NonRetryable, CreateInv, Send
    PROVE  CreateInv'
<1>1. CASE Effect(FALSE)
  <2>1. created' = created
    BY <1>1 DEF Effect, CreateInv
  <2>2. stage' = "create" => stage = "create"
    BY DEF Send, Again, Raise, Finish, Returned, Call, TransportError
  <2> QED
    BY <2>1, <2>2 DEF CreateInv
<1>2. CASE Effect(TRUE) /\ Returned
  <2>1. created' \in 0 .. 1
    BY <1>2 DEF Effect, CreateInv
  <2>2. stage' # "create"
    BY <1>2 DEF Returned, Finish, Call
  <2> QED
    BY <2>1, <2>2 DEF CreateInv
<1>3. CASE Effect(TRUE) /\ TransportError
  <2>1. CASE stage = "create"
    <3>1. stage' = "idle"
      BY <1>3, <2>1 DEF TransportError, Raise, Finish
    <3>2. created' = 1
      BY <1>3, <2>1 DEF Effect, CreateInv
    <3> QED
      BY <3>1, <3>2 DEF CreateInv
  <2>2. CASE stage # "create"
    <3>1. created' = created /\ stage' # "create"
      BY <1>3, <2>2 DEF Effect, CreateInv, TransportError, Raise, Finish, Again
    <3> QED
      BY <3>1 DEF CreateInv
  <2> QED
    BY <2>1, <2>2
<1> QED
  BY <1>1, <1>2, <1>3 DEF Send

LEMMA NextCreateInv ==
    ASSUME "create" \in NonRetryable, CreateInv, [Next]_vars
    PROVE  CreateInv'
<1>1. CASE StartRun
  BY <1>1 DEF StartRun, CreateInv
<1>2. CASE Send
  BY <1>2, SendCreateInv
<1>3. CASE PollAgain \/ Download
  BY <1>3 DEF PollAgain, Download, Call, Finish, CreateInv
<1>4. CASE Refresh
  BY <1>4 DEF Refresh, Unanswered, TransportError, Again, Raise, Finish, CreateInv
<1>5. CASE Acquire
  BY <1>5 DEF Acquire, CreateInv
<1>6. CASE Revoke \/ Die \/ Tick \/ UNCHANGED vars
  BY <1>6 DEF Revoke, Die, Tick, vars, callVars, CreateInv
<1> QED
  BY <1>1, <1>2, <1>3, <1>4, <1>5, <1>6 DEF Next, Step

\* As long as creation is among NON_RETRYABLE_ENDPOINTS, one call of
\* create_report makes Amazon create at most one report.
THEOREM CreatedOnceHolds ==
    ASSUME "create" \in NonRetryable
    PROVE  Spec => []CreatedOnce
<1>1. Init => CreateInv
  BY DEF Init, CreateInv
<1>2. CreateInv /\ [Next]_vars => CreateInv'
  BY NextCreateInv
<1>3. CreateInv => CreatedOnce
  BY DEF CreateInv, CreatedOnce
<1> QED
  BY <1>1, <1>2, <1>3, PTL DEF Spec

-----------------------------------------------------------------------------
(* Rotation of the refresh token.                                          *)

\* Unless the newest token is lost, a run holds it and the vault has it between
\* runs.
TokenInv ==
    /\ lost \in BOOLEAN
    /\ ~lost => /\ stage = "idle" => stored = newest
                /\ stage # "idle" => held = newest

LEMMA NextTokenInv ==
    ASSUME Persists, TokenInv, [Next]_vars
    PROVE  TokenInv'
<1>1. CASE StartRun
  BY <1>1 DEF StartRun, Call, TokenInv
<1>2. CASE Send
  <2>1. stage # "idle" /\ UNCHANGED <<held, newest, lost>>
    BY <1>2 DEF Send, ReadyToSend, Endpoints
  <2>2. stage' = "idle" => stored' = held
    BY <1>2, <2>1 DEF Send, Returned, Raise, Finish, Again, TransportError, Call
  <2> QED
    BY <2>1, <2>2 DEF TokenInv
<1>3. CASE PollAgain \/ Download
  BY <1>3 DEF PollAgain, Download, Call, Finish, TokenInv
<1>4. CASE Refresh
  <2>1. stage # "idle"
    BY <1>4 DEF Refresh, ReadyToSend, Endpoints
  <2>2. CASE Answered /\ stage' = stage /\ stored' = stored
    BY <2>1, <2>2 DEF Answered, TokenInv
  <2>3. CASE Unanswered
    <3>1. stage' = "idle" => stored' = held
      BY <2>1, <2>3 DEF Unanswered, TransportError, Again, Raise, Finish
    <3>2. held' = held /\ lost' \in BOOLEAN /\ (~lost' => ~lost /\ newest' = newest)
      BY <2>3 DEF Unanswered, TokenInv
    <3> QED
      BY <2>1, <3>1, <3>2 DEF TokenInv
  <2> QED
    BY <1>4, <2>2, <2>3 DEF Refresh
<1>5. CASE Acquire
  BY <1>5 DEF Acquire, tokenVars, TokenInv
<1>6. CASE Die
  <2>1. /\ stage # "idle" /\ stage' = "idle" /\ stored' = stored /\ newest' = newest
        /\ lost' \in BOOLEAN /\ (~lost' => ~lost /\ held = stored)
    BY <1>6 DEF Die, tokenVars, TokenInv
  <2> QED
    BY <2>1 DEF TokenInv
<1>7. CASE Revoke \/ Tick \/ UNCHANGED vars
  BY <1>7 DEF Revoke, Tick, vars, callVars, tokenVars, TokenInv
<1> QED
  BY <1>1, <1>2, <1>3, <1>4, <1>5, <1>6, <1>7 DEF Next, Step

\* A pipeline that saves the token at its end, as the sales pipeline does and
\* the Ads pipeline does not, leaves the newest one in the vault after every
\* run, also one that failed, also after the runs and the crashes before it,
\* unless the token was lost on the way or with its process, and from the next
\* rotation that arrives again.
THEOREM RotatedIsStoredHolds ==
    ASSUME Persists
    PROVE  Spec => []RotatedIsStored
<1>1. Init => TokenInv
  BY DEF Init, TokenInv
<1>2. TokenInv /\ [Next]_vars => TokenInv'
  BY NextTokenInv
<1>3. TokenInv => RotatedIsStored
  BY DEF TokenInv, RotatedIsStored
<1> QED
  BY <1>1, <1>2, <1>3, PTL DEF Spec

=============================================================================
