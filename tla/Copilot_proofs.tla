--------------------------- MODULE Copilot_proofs ---------------------------
(***************************************************************************)
(* Theorems about the copilot, for any number of callers, askers,          *)
(* providers, fallback lists and questions, and any number of lost writes. *)
(***************************************************************************)
EXTENDS Copilot, SequenceTheorems, TLAPS

-----------------------------------------------------------------------------
(* gateway.call.                                                           *)

Results == {"ok", "garbled", "busy", "rejected", "down", "network"}

\* What a caller at work has: a provider of a chain that holds at least one,
\* and an attempt that it may make.
InHand(c) ==
    pc[c] # "idle" => at[c] \in 1 .. Len(chain[c]) /\ n[c] \in 1 .. MaxAttempts

GatewayTypes ==
    /\ fallbacks \in Fallbacks
    /\ pc \in [Callers -> {"idle", "budget", "send"}]
    /\ chain \in [Callers -> Seq(Providers)]
    /\ at \in [Callers -> Nat] /\ n \in [Callers -> Nat]
    /\ sends \in [Callers -> Seq(Providers \X Results)]
    /\ rows \in [Callers -> Seq(Providers \X Results)]
    /\ spent \in Nat /\ outages \in 0 .. MaxOutages
    /\ \A c \in Callers : InHand(c)
    /\ \A c \in Callers : n[c] \in 0 .. MaxAttempts /\ at[c] \in 0 .. Len(chain[c]) + 1

\* A chain that begins with a local provider has nothing else; every request
\* goes to a provider of the chain, the first one to its head.
ChainInv(c) ==
    /\ chain[c] # <<>> /\ chain[c][1] \in Local => Len(chain[c]) = 1
    /\ pc[c] # "idle" /\ sends[c] = <<>> => at[c] = 1
    /\ \A i \in DOMAIN sends[c] : \E j \in DOMAIN chain[c] : sends[c][i][1] = chain[c][j]
    /\ sends[c] # <<>> => sends[c][1][1] = chain[c][1]

\* A caller that is still at work has had no answer.
RecordInv(c) ==
    /\ pc[c] # "idle" /\ sends[c] # <<>> => sends[c][Len(sends[c])][2] # "ok"
    /\ Len(Failed(c)) <= Len(rows[c]) + outages
    /\ outages = 0 => rows[c] = Failed(c)

GatewayInv == GatewayTypes /\ \A c \in Callers : ChainInv(c) /\ RecordInv(c)

LEMMA Constants ==
    /\ MaxAttempts \in Nat \ {0} /\ MaxOutages \in Nat /\ Local \subseteq Providers
    /\ Price \in [Providers -> Nat] /\ Charge \in [Providers -> Nat]
    /\ \A f \in Fallbacks : f \in Seq(Providers)
BY CopilotAssumption

\* fallback_chain returns the error, the primary provider alone, or, for a
\* remote provider, the primary followed by others.
LEMMA ChainOf ==
    ASSUME fallbacks \in Fallbacks, NEW primary \in Providers
    PROVE  /\ FallbackChain(primary) \in Seq(Providers)
           /\ FallbackChain(primary) # <<>> => FallbackChain(primary)[1] = primary
           /\ primary \in Local /\ FallbackChain(primary) # <<>> => Len(FallbackChain(primary)) = 1
<1>1. Others(primary) \in Seq(Providers)
  <2>1. fallbacks \in Seq(Providers)
    BY Constants
  <2>2. CASE \E i \in DOMAIN fallbacks : fallbacks[i] = primary
    <3>1. PICK i \in DOMAIN fallbacks :
            Others(primary) = SubSeq(fallbacks, 1, i - 1) \o SubSeq(fallbacks, i + 1, Len(fallbacks))
      BY <2>2, Zenon DEF Others
    <3>2. i \in 1 .. Len(fallbacks)
      BY <2>1, <3>1
    <3>3. /\ SubSeq(fallbacks, 1, i - 1) \in Seq(Providers)
          /\ SubSeq(fallbacks, i + 1, Len(fallbacks)) \in Seq(Providers)
      BY <2>1, <3>2, SubSeqProperties
    <3> QED
      BY <3>1, <3>3, ConcatProperties
  <2>3. CASE ~ \E i \in DOMAIN fallbacks : fallbacks[i] = primary
    BY <2>1, <2>3 DEF Others
  <2> QED
    BY <2>2, <2>3
<1>2. <<primary>> \in Seq(Providers) /\ Len(<<primary>>) = 1 /\ <<primary>>[1] = primary
  OBVIOUS
<1>3. /\ <<primary>> \o Others(primary) \in Seq(Providers)
      /\ Len(<<primary>> \o Others(primary)) = 1 + Len(Others(primary))
      /\ (<<primary>> \o Others(primary))[1] = primary
  BY <1>1, <1>2, ConcatProperties
<1>4. CASE primary \in Local /\ Others(primary) # <<>>
  BY <1>4 DEF FallbackChain
<1>5. CASE primary \in Local /\ Others(primary) = <<>>
  BY <1>3, <1>5 DEF FallbackChain
<1>6. CASE primary \notin Local
  BY <1>3, <1>6 DEF FallbackChain
<1> QED
  BY <1>4, <1>5, <1>6

\* Nothing about a caller changes with the steps of the others; a write that
\* somebody else lost only makes the ledger's allowance larger.
LEMMA OthersKeep ==
    ASSUME GatewayTypes, NEW d \in Callers, ChainInv(d), RecordInv(d),
           pc'[d] = pc[d], chain'[d] = chain[d], at'[d] = at[d],
           sends'[d] = sends[d], rows'[d] = rows[d],
           outages' = outages \/ outages' = outages + 1
    PROVE  ChainInv(d)' /\ RecordInv(d)'
<1>1. ChainInv(d)'
  BY DEF ChainInv
<1>2. Failed(d)' = Failed(d)
  BY DEF Failed
<1>3. outages \in Nat
  BY Constants DEF GatewayTypes
<1>4. Failed(d) \in Seq(Providers \X Results)
  BY DEF GatewayTypes, Failed
<1>5. Len(Failed(d)) \in Nat /\ Len(rows[d]) \in Nat
  BY <1>4 DEF GatewayTypes
<1> QED
  BY <1>1, <1>2, <1>3, <1>5 DEF RecordInv

LEMMA Slack == ASSUME NEW k \in Nat PROVE 0 <= 0 + k
OBVIOUS

LEMMA InitGatewayInv == Init => GatewayInv
<1> SUFFICES ASSUME Init PROVE GatewayInv
  OBVIOUS
<1>1. GatewayTypes
  BY Constants DEF Init, GatewayTypes, InHand
<1>2. ASSUME NEW c \in Callers PROVE ChainInv(c) /\ RecordInv(c)
  <2>1. sends[c] = <<>> /\ chain[c] = <<>> /\ rows[c] = <<>> /\ pc[c] = "idle" /\ outages = 0
    BY DEF Init
  <2>2. Failed(c) = <<>>
    BY <2>1 DEF Failed
  <2> QED
    BY <2>1, <2>2 DEF ChainInv, RecordInv
<1> QED
  BY <1>1, <1>2 DEF GatewayInv

LEMMA StartKeeps ==
    ASSUME GatewayInv, NEW c \in Callers, StartCall(c)
    PROVE  GatewayInv'
<1> USE DEF GatewayInv
<1>1. PICK primary \in Providers :
        /\ chain' = [chain EXCEPT ![c] = FallbackChain(primary)]
        /\ pc' = [pc EXCEPT ![c] = IF FallbackChain(primary) = <<>> THEN "idle" ELSE "budget"]
  BY DEF StartCall
<1>2. /\ FallbackChain(primary) \in Seq(Providers)
      /\ FallbackChain(primary) # <<>> => FallbackChain(primary)[1] = primary
      /\ primary \in Local /\ FallbackChain(primary) # <<>> => Len(FallbackChain(primary)) = 1
  BY ChainOf DEF GatewayTypes
<1>3. /\ at' = [at EXCEPT ![c] = 1] /\ n' = [n EXCEPT ![c] = 1]
      /\ sends' = [sends EXCEPT ![c] = <<>>] /\ rows' = [rows EXCEPT ![c] = <<>>]
      /\ UNCHANGED <<fallbacks, spent, outages>>
  BY DEF StartCall
<1>4. GatewayTypes'
  <2>1. InHand(c)' /\ n'[c] \in 0 .. MaxAttempts /\ at'[c] \in 0 .. Len(chain'[c]) + 1
    <3>1. /\ chain'[c] = FallbackChain(primary) /\ at'[c] = 1 /\ n'[c] = 1
          /\ FallbackChain(primary) = <<>> => pc'[c] = "idle"
      BY <1>1, <1>3 DEF GatewayTypes
    <3>2. Len(chain'[c]) \in Nat /\ (FallbackChain(primary) # <<>> => Len(chain'[c]) # 0)
      BY <1>2, <3>1, EmptySeq
    <3>3. 1 \in 1 .. MaxAttempts /\ 1 \in 0 .. MaxAttempts
      BY Constants
    <3>4. 1 \in 0 .. Len(chain'[c]) + 1 /\ (Len(chain'[c]) # 0 => 1 \in 1 .. Len(chain'[c]))
      BY <3>2
    <3> QED
      BY <3>1, <3>2, <3>3, <3>4, Zenon DEF InHand
  <2>2. \A d \in Callers \ {c} :
          InHand(d)' /\ n'[d] \in 0 .. MaxAttempts /\ at'[d] \in 0 .. Len(chain'[d]) + 1
    BY <1>1, <1>3 DEF GatewayTypes, InHand
  <2>3. /\ pc' \in [Callers -> {"idle", "budget", "send"}] /\ chain' \in [Callers -> Seq(Providers)]
        /\ at' \in [Callers -> Nat] /\ n' \in [Callers -> Nat]
    BY <1>1, <1>2, <1>3 DEF GatewayTypes
  <2>4. /\ sends' \in [Callers -> Seq(Providers \X Results)]
        /\ rows' \in [Callers -> Seq(Providers \X Results)]
    <3>1. <<>> \in Seq(Providers \X Results)
      OBVIOUS
    <3> QED
      BY <1>3, <3>1 DEF GatewayTypes
  <2> QED
    BY <1>3, <2>1, <2>2, <2>3, <2>4 DEF GatewayTypes
<1>5. ASSUME NEW d \in Callers PROVE ChainInv(d)' /\ RecordInv(d)'
  <2>1. CASE d = c
    <3>1. /\ sends'[c] = <<>> /\ rows'[c] = <<>> /\ at'[c] = 1
          /\ chain'[c] = FallbackChain(primary)
      BY <1>1, <1>3 DEF GatewayTypes
    <3>2. DOMAIN sends'[c] = {}
      BY <3>1
    <3>3. ChainInv(c)'
      BY <1>2, <3>1, <3>2 DEF ChainInv
    <3>4. Failed(c)' = <<>>
      BY <3>1 DEF Failed
    <3>5. outages' \in Nat
      BY <1>3, Constants DEF GatewayTypes
    <3>6. Len(Failed(c)') = 0 /\ Len(rows'[c]) = 0
      BY <3>1, <3>4, EmptySeq
    <3>7. Len(Failed(c)') <= Len(rows'[c]) + outages'
      <4>1. 0 <= 0 + outages'
        BY <3>5, Slack
      <4> QED
        BY <3>6, <4>1, Zenon
    <3>8. RecordInv(c)'
      BY <3>1, <3>4, <3>7, Zenon DEF RecordInv
    <3> QED
      BY <2>1, <3>3, <3>8
  <2>2. CASE d # c
    BY <1>1, <1>3, <2>2, OthersKeep DEF GatewayTypes
  <2> QED
    BY <2>1, <2>2
<1> QED
  BY <1>4, <1>5

LEMMA CheckKeeps ==
    ASSUME GatewayInv, NEW c \in Callers, CheckBudget(c)
    PROVE  GatewayInv'
<1> USE DEF GatewayInv
<1>1. /\ pc[c] = "budget"
      /\ pc' = [pc EXCEPT ![c] = "send"] \/ pc' = [pc EXCEPT ![c] = "idle"]
      /\ UNCHANGED <<fallbacks, chain, at, n, sends, rows, spent, outages>>
  BY DEF CheckBudget
<1>2. GatewayTypes'
  BY <1>1 DEF GatewayTypes, InHand
<1>3. \A d \in Callers : pc'[d] # "idle" => pc[d] # "idle"
  BY <1>1 DEF GatewayTypes
<1>4. ASSUME NEW d \in Callers PROVE ChainInv(d)' /\ RecordInv(d)'
  <2>1. ChainInv(d)'
    BY <1>1, <1>3 DEF ChainInv
  <2>2. Failed(d)' = Failed(d)
    BY <1>1 DEF Failed
  <2> QED
    BY <1>1, <1>3, <2>1, <2>2 DEF RecordInv
<1> QED
  BY <1>2, <1>4

\* The request is sent, its result known, and it is on record or lost.
LEMMA SendKeeps ==
    ASSUME GatewayInv, NEW c \in Callers, Send(c)
    PROVE  GatewayInv'
<1> USE DEF GatewayInv
<1> DEFINE p == chain[c][at[c]]
           s == sends[c]
<1>1. /\ pc[c] = "send" /\ c \in Callers /\ at[c] \in 1 .. Len(chain[c]) /\ n[c] \in 1 .. MaxAttempts
      /\ chain[c] \in Seq(Providers) /\ p \in Providers
      /\ s \in Seq(Providers \X Results) /\ rows[c] \in Seq(Providers \X Results)
  <2>1. pc[c] = "send" /\ InHand(c)
    BY DEF Send, GatewayTypes
  <2>2. /\ chain[c] \in Seq(Providers) /\ s \in Seq(Providers \X Results)
        /\ rows[c] \in Seq(Providers \X Results)
    BY DEF GatewayTypes
  <2>3. at[c] \in 1 .. Len(chain[c]) /\ n[c] \in 1 .. MaxAttempts
    BY <2>1 DEF InHand
  <2> QED
    BY <2>1, <2>2, <2>3, ElementOfSeq
<1>2. PICK result \in Results :
        /\ sends' = [sends EXCEPT ![c] = Append(@, <<p, result>>)]
        /\ IF result = "ok" THEN pc' = [pc EXCEPT ![c] = "idle"] /\ UNCHANGED <<at, n>>
                            ELSE AfterFailure(c, result)
        /\ Record(c, result)
  BY DEF Send, Results
<1>3. UNCHANGED <<fallbacks, chain, calls>>
  BY DEF Send
<1>4. /\ s' = Append(s, <<p, result>>) /\ <<p, result>> \in Providers \X Results
      /\ s' \in Seq(Providers \X Results) /\ Len(s') = Len(s) + 1
      /\ \A i \in 1 .. Len(s) : s'[i] = s[i]
      /\ s'[Len(s) + 1] = <<p, result>>
  <2>1. <<p, result>> \in Providers \X Results
    BY <1>1, <1>2
  <2>2. s' = Append(s, <<p, result>>)
    BY <1>2 DEF GatewayTypes
  <2> QED
    BY <1>1, <2>1, <2>2, AppendProperties
<1>5. \/ result = "ok" /\ UNCHANGED <<rows, spent, outages>>
      \/ /\ result # "ok" /\ UNCHANGED <<spent, outages>>
         /\ rows' = [rows EXCEPT ![c] = Append(@, <<p, result>>)]
      \/ /\ result # "ok" /\ UNCHANGED <<rows, spent>>
         /\ outages < MaxOutages /\ outages' = outages + 1
  <2>1. Record(c, result)
    BY <1>2
  <2>2. CASE result = "ok"
    BY <2>1, <2>2, Zenon DEF Record, Recorded
  <2>3. CASE result # "ok"
    <3>1. spent \in Nat /\ RowCost(c, result) = 0
      BY <2>3 DEF GatewayTypes, RowCost
    <3>2. \/ /\ rows' = [rows EXCEPT ![c] = Append(@, <<p, result>>)]
             /\ spent' = spent + RowCost(c, result) /\ UNCHANGED outages
          \/ Outage /\ UNCHANGED <<rows, spent>>
      BY <2>1, <2>3, Zenon DEF Record, Recorded
    <3> QED
      BY <2>3, <3>1, <3>2 DEF Outage
  <2> QED
    BY <2>2, <2>3
<1>6. /\ pc' \in [Callers -> {"idle", "budget", "send"}]
      /\ at' \in [Callers -> Nat] /\ n' \in [Callers -> Nat]
      /\ InHand(c)' /\ n'[c] \in 0 .. MaxAttempts /\ at'[c] \in 0 .. Len(chain[c]) + 1
      /\ \A d \in Callers \ {c} : pc'[d] = pc[d] /\ at'[d] = at[d] /\ n'[d] = n[d]
      /\ result = "ok" => pc'[c] = "idle"
  <2>1. CASE result = "ok"
    <3>1. pc' = [pc EXCEPT ![c] = "idle"] /\ at' = at /\ n' = n
      BY <1>2, <2>1
    <3> QED
      BY <1>1, <3>1 DEF GatewayTypes, InHand
  <2>2. CASE result # "ok" /\ RetryAgain(c) /\ result # "down"
    <3>1. n' = [n EXCEPT ![c] = n[c] + 1] /\ pc' = pc /\ at' = at /\ n[c] < MaxAttempts
      BY <1>2, <2>2 DEF AfterFailure, RetryAgain
    <3>2. n'[c] = n[c] + 1 /\ at'[c] = at[c] /\ pc'[c] = "send" /\ chain'[c] = chain[c]
      BY <1>1, <1>3, <3>1 DEF GatewayTypes
    <3>3. n[c] + 1 \in 1 .. MaxAttempts /\ n[c] + 1 \in Nat
      <4>1. n[c] \in 1 .. MaxAttempts /\ n[c] < MaxAttempts /\ MaxAttempts \in Nat
        BY <1>1, <3>1, Constants
      <4> QED
        BY <4>1
    <3>4. at[c] \in 0 .. Len(chain[c]) + 1
      BY <1>1
    <3>5. InHand(c)' /\ n'[c] \in 0 .. MaxAttempts /\ at'[c] \in 0 .. Len(chain[c]) + 1
      <4>1. \A x \in 1 .. MaxAttempts : x \in 0 .. MaxAttempts
        BY Constants
      <4> QED
        BY <1>1, <3>2, <3>3, <3>4, <4>1, Zenon DEF InHand
    <3> QED
      BY <2>2, <3>1, <3>3, <3>5 DEF GatewayTypes
  <2>3. CASE result # "ok" /\ ~(RetryAgain(c) /\ result # "down")
    <3>1. /\ n' = [n EXCEPT ![c] = 1]
          /\ IF at[c] < Len(chain[c])
             THEN at' = [at EXCEPT ![c] = @ + 1] /\ pc' = [pc EXCEPT ![c] = "budget"]
             ELSE UNCHANGED at /\ pc' = [pc EXCEPT ![c] = "idle"]
      BY <1>2, <2>3 DEF AfterFailure
    <3>2. CASE at[c] < Len(chain[c])
      <4>1. at' = [at EXCEPT ![c] = at[c] + 1] /\ pc' = [pc EXCEPT ![c] = "budget"]
        BY <3>1, <3>2
      <4>2. at[c] + 1 \in 1 .. Len(chain[c]) /\ at[c] + 1 \in Nat
        BY <1>1, <3>2
      <4>3. pc'[c] = "budget" /\ at'[c] = at[c] + 1 /\ n'[c] = 1 /\ chain'[c] = chain[c]
        BY <1>1, <1>3, <3>1, <4>1 DEF GatewayTypes
      <4>4. InHand(c)' /\ n'[c] \in 0 .. MaxAttempts /\ at'[c] \in 0 .. Len(chain[c]) + 1
        <5>1. 1 \in 1 .. MaxAttempts /\ 1 \in 0 .. MaxAttempts
          BY Constants
        <5>2. at[c] + 1 \in 0 .. Len(chain[c]) + 1
          BY <1>1, <4>2
        <5> QED
          BY <4>2, <4>3, <5>1, <5>2, Zenon DEF InHand
      <4> QED
        BY <2>3, <3>1, <4>1, <4>2, <4>4 DEF GatewayTypes
    <3>3. CASE ~(at[c] < Len(chain[c]))
      <4>1. at' = at /\ pc' = [pc EXCEPT ![c] = "idle"]
        BY <3>1, <3>3
      <4>2. pc'[c] = "idle" /\ n'[c] = 1
        BY <3>1, <4>1 DEF GatewayTypes
      <4>3. InHand(c)' /\ n'[c] \in 0 .. MaxAttempts /\ at'[c] \in 0 .. Len(chain[c]) + 1
        BY <4>1, <4>2, Constants DEF GatewayTypes, InHand
      <4> QED
        BY <2>3, <3>1, <4>1, <4>3 DEF GatewayTypes
    <3> QED
      BY <3>2, <3>3
  <2> QED
    BY <2>1, <2>2, <2>3
<1>7. GatewayTypes'
  <2>1. \A d \in Callers :
          InHand(d)' /\ n'[d] \in 0 .. MaxAttempts /\ at'[d] \in 0 .. Len(chain'[d]) + 1
    BY <1>3, <1>6 DEF GatewayTypes, InHand
  <2>2. sends' \in [Callers -> Seq(Providers \X Results)]
    BY <1>2, <1>4 DEF GatewayTypes
  <2>3. rows' \in [Callers -> Seq(Providers \X Results)]
    <3>1. Append(rows[c], <<p, result>>) \in Seq(Providers \X Results)
      BY <1>1, <1>4, AppendProperties
    <3>2. CASE rows' = rows
      BY <3>2 DEF GatewayTypes
    <3>3. CASE rows' = [rows EXCEPT ![c] = Append(@, <<p, result>>)]
      BY <3>1, <3>3 DEF GatewayTypes
    <3> QED
      BY <1>5, <3>2, <3>3
  <2>4. spent' \in Nat /\ outages' \in 0 .. MaxOutages
    <3>1. MaxOutages \in Nat /\ outages \in 0 .. MaxOutages /\ spent \in Nat
      BY Constants DEF GatewayTypes
    <3>2. spent' = spent /\ (outages' = outages \/ (outages < MaxOutages /\ outages' = outages + 1))
      BY <1>5
    <3> QED
      BY <3>1, <3>2
  <2> QED
    BY <1>3, <1>6, <2>1, <2>2, <2>3, <2>4 DEF GatewayTypes
<1>8. ChainInv(c)'
  <2>1. chain'[c] = chain[c]
    BY <1>3
  <2>2. DOMAIN s' = 1 .. Len(s) + 1 /\ DOMAIN s = 1 .. Len(s) /\ s' # <<>>
    <3>1. Len(s) \in Nat /\ DOMAIN s = 1 .. Len(s) /\ DOMAIN s' = 1 .. Len(s')
      BY <1>1, <1>4
    <3>2. DOMAIN s' = 1 .. Len(s) + 1
      BY <1>4, <3>1
    <3>3. Len(s) + 1 # 0
      BY <3>1
    <3>4. s' # <<>>
      BY <1>4, <3>3, EmptySeq
    <3> QED
      BY <3>1, <3>2, <3>4
  <2>3. ASSUME NEW i \in DOMAIN s' PROVE \E j \in DOMAIN chain[c] : s'[i][1] = chain[c][j]
    <3>1. CASE i \in 1 .. Len(s)
      BY <1>4, <2>2, <3>1 DEF ChainInv
    <3>2. CASE i = Len(s) + 1
      BY <1>1, <1>4, <3>2
    <3>3. Len(s) \in Nat
      BY <1>1
    <3>4. i \in 1 .. Len(s) \/ i = Len(s) + 1
      BY <2>2, <3>3
    <3> QED
      BY <3>1, <3>2, <3>4
  <2>4. s'[1][1] = chain[c][1]
    <3>1. CASE s = <<>>
      <4>1. at[c] = 1 /\ Len(s) = 0
        BY <1>1, <3>1 DEF ChainInv
      <4> QED
        BY <1>4, <4>1
    <3>2. CASE s # <<>>
      <4>1. 1 \in 1 .. Len(s) /\ s[1][1] = chain[c][1]
        BY <1>1, <3>2, EmptySeq DEF ChainInv
      <4> QED
        BY <1>4, <4>1
    <3> QED
      BY <3>1, <3>2
  <2> QED
    BY <2>1, <2>2, <2>3, <2>4 DEF ChainInv
<1>9. RecordInv(c)'
  <2>1. Failed(c) = s
    <3>1. CASE s = <<>>
      BY <3>1, EmptySeq DEF Failed
    <3>2. CASE s # <<>>
      BY <1>1, <3>2 DEF Failed, RecordInv
    <3> QED
      BY <3>1, <3>2
  <2>2. Failed(c)' = IF result = "ok" THEN s ELSE s'
    <3>1. CASE result = "ok"
      <4>1. Failed(c)' = SubSeq(s', 1, Len(s))
        BY <1>1, <1>4, <3>1 DEF Failed
      <4>2. SubSeq(s', 1, Len(s)) = s
        <5>1. /\ SubSeq(s', 1, Len(s)) \in Seq(Providers \X Results)
              /\ Len(SubSeq(s', 1, Len(s))) = Len(s)
              /\ \A i \in 1 .. Len(s) : SubSeq(s', 1, Len(s))[i] = s'[i]
          <6>1. \A i \in 1 .. Len(s) : s'[i] \in Providers \X Results
            BY <1>1, <1>4
          <6>2. Len(s) \in Nat
            BY <1>1
          <6> QED
            BY <6>1, <6>2, SubSeqProperties
        <5> QED
          BY <1>1, <1>4, <5>1, SeqEqual
      <4> QED
        BY <3>1, <4>1, <4>2
    <3>2. CASE result # "ok"
      BY <1>1, <1>4, <3>2 DEF Failed
    <3> QED
      BY <3>1, <3>2
  <2>3. /\ pc'[c] # "idle" => result # "ok"
        /\ s'[Len(s')][2] = result
    BY <1>1, <1>4, <1>6
  <2>4. /\ Len(s) \in Nat /\ Len(rows[c]) \in Nat /\ outages \in Nat
        /\ Len(s) <= Len(rows[c]) + outages /\ (outages = 0 => rows[c] = s)
    <3>1. Len(s) \in Nat /\ Len(rows[c]) \in Nat
      BY <1>1
    <3>2. outages \in Nat
      BY Constants DEF GatewayTypes
    <3> QED
      BY <2>1, <3>1, <3>2 DEF RecordInv
  <2>5. CASE result = "ok" /\ UNCHANGED <<rows, outages>>
    BY <2>2, <2>3, <2>4, <2>5 DEF RecordInv
  <2>6. CASE /\ result # "ok" /\ outages' = outages
             /\ rows' = [rows EXCEPT ![c] = Append(@, <<p, result>>)]
    <3>1. rows'[c] = Append(rows[c], <<p, result>>) /\ Len(rows'[c]) = Len(rows[c]) + 1
      BY <1>1, <1>4, <2>6, AppendProperties DEF GatewayTypes
    <3>2. Failed(c)' = s' /\ Len(Failed(c)') = Len(s) + 1
      BY <1>4, <2>2, <2>6
    <3>3. Len(Failed(c)') <= Len(rows'[c]) + outages'
      BY <2>4, <2>6, <3>1, <3>2
    <3>4. outages' = 0 => rows'[c] = Failed(c)'
      BY <1>4, <2>4, <2>6, <3>1, <3>2
    <3> QED
      BY <2>3, <3>3, <3>4 DEF RecordInv
  <2>7. CASE /\ result # "ok" /\ outages' = outages + 1 /\ rows' = rows
    <3>1. Failed(c)' = s' /\ Len(Failed(c)') = Len(s) + 1
      BY <1>4, <2>2, <2>7
    <3>2. Len(s) + 1 <= Len(rows[c]) + (outages + 1) /\ outages + 1 # 0
      <4> DEFINE l == Len(s)
                 r == Len(rows[c])
      <4>1. l \in Nat /\ r \in Nat /\ outages \in Nat /\ l <= r + outages
        BY <2>4
      <4> HIDE DEF l, r
      <4>2. l + 1 <= r + (outages + 1) /\ outages + 1 # 0
        BY <4>1
      <4> QED
        BY <4>2 DEF l, r
    <3>3. Len(Failed(c)') <= Len(rows'[c]) + outages' /\ outages' # 0
      BY <2>7, <3>1, <3>2, Zenon
    <3> QED
      BY <2>3, <3>3 DEF RecordInv
  <2> QED
    BY <1>5, <2>5, <2>6, <2>7
<1>10. ASSUME NEW d \in Callers, d # c PROVE ChainInv(d)' /\ RecordInv(d)'
  <2>1. /\ pc'[d] = pc[d] /\ chain'[d] = chain[d] /\ at'[d] = at[d]
        /\ sends'[d] = sends[d]
    BY <1>2, <1>3, <1>6, <1>10 DEF GatewayTypes
  <2>2. rows'[d] = rows[d] /\ (outages' = outages \/ outages' = outages + 1)
    BY <1>5, <1>10 DEF GatewayTypes
  <2> QED
    BY <2>1, <2>2, OthersKeep
<1> QED
  BY <1>7, <1>8, <1>9, <1>10

-----------------------------------------------------------------------------
(* run_sql.                                                                *)

\* A request that has no ending yet, and one of which a write may have raised.
Open(a) == audit[a] = <<"request">> /\ closed[a] = FALSE /\ told[a] = "failed"
Pending(a) == closed[a] = FALSE /\ told[a] = "failed" /\ (audit[a] = <<"request">> \/ outages # 0)

\* The log goes with what the caller was told, or the caller was told a failure
\* and a write has raised.
Matches(a) == audit[a] = Log[told[a]] \/ (told[a] = "failed" /\ outages # 0)

\* Where the request is tells what its log holds.  Only a refusal reaches the
\* except clause with its ending written, and only a write that raised leaves a
\* request open for the finally clause.
EndingInv(a) ==
    /\ step[a] \in {"guard", "run", "query", "result"} => Open(a)
    /\ step[a] = "except" =>
         Pending(a) \/ (closed[a] = TRUE /\ told[a] = "refused" /\ audit[a] = Log["refused"])
    /\ step[a] = "finally" => Matches(a) /\ (closed[a] # TRUE => told[a] = "failed" /\ outages # 0)
    /\ step[a] = "ended" => Matches(a)

\* An answer is there once the query was executed, and says when it was cut.
AnswerInv(a) ==
    /\ answer[a] # NoAnswer => step[a] \in {"result", "except", "finally", "ended"}
    /\ step[a] = "result" \/ told[a] = "answered" =>
         /\ answer[a].rows <= MaxRows
         /\ answer[a].rows < Yield(query[a]) => answer[a].truncated

SqlTypes ==
    /\ step \in [Askers -> {"idle", "guard", "run", "query", "result", "except", "finally", "ended"}]
    /\ query \in [Askers -> Queries]
    /\ told \in [Askers -> {"answered", "refused", "unknown", "failed"}]
    /\ closed = [a \in Askers |-> closed[a]]
    /\ answer = [a \in Askers |-> answer[a]]
    /\ audit = [a \in Askers |-> audit[a]]
    /\ outages \in 0 .. MaxOutages

SqlInv == SqlTypes /\ \A a \in Askers : EndingInv(a) /\ AnswerInv(a)

LEMMA InitSqlInv == Init => SqlInv
<1> SUFFICES ASSUME Init PROVE SqlInv
  OBVIOUS
<1>1. SqlTypes
  BY Constants DEF Init, SqlTypes
<1>2. ASSUME NEW a \in Askers PROVE EndingInv(a) /\ AnswerInv(a)
  BY DEF Init, EndingInv, AnswerInv
<1> QED
  BY <1>1, <1>2 DEF SqlInv

\* The requests of the others only see that writes were lost.
LEMMA OtherAskersKeep ==
    ASSUME SqlTypes, NEW b \in Askers, EndingInv(b), AnswerInv(b),
           step'[b] = step[b], query'[b] = query[b], closed'[b] = closed[b],
           told'[b] = told[b], answer'[b] = answer[b], audit'[b] = audit[b],
           outages' = outages \/ outages' = outages + 1
    PROVE  EndingInv(b)' /\ AnswerInv(b)'
<1>1. outages # 0 => outages' # 0
  BY Constants DEF SqlTypes
<1>2. EndingInv(b)'
  BY <1>1 DEF EndingInv, Open, Pending, Matches
<1>3. AnswerInv(b)'
  BY DEF AnswerInv, Yield, EnforceLimit
<1> QED
  BY <1>2, <1>3

LEMMA SecondRow == ASSUME NEW r PROVE Append(<<"request">>, r) = <<"request", r>>
<1> DEFINE S == {"request", r}
           one == <<"request">>
           two == <<"request", r>>
<1>1. one \in Seq(S) /\ Len(one) = 1 /\ one[1] = "request"
  OBVIOUS
<1>2. two \in Seq(S) /\ Len(two) = 2 /\ two[1] = "request" /\ two[2] = r
  OBVIOUS
<1>3. r \in S
  OBVIOUS
<1>4. /\ Append(one, r) \in Seq(S) /\ Len(Append(one, r)) = Len(one) + 1
      /\ \A i \in 1 .. Len(one) : Append(one, r)[i] = one[i]
      /\ Append(one, r)[Len(one) + 1] = r
  BY <1>1, <1>3, AppendProperties
<1> HIDE DEF S, one, two
<1>5. \A i \in 1 .. 2 : Append(one, r)[i] = two[i]
  BY <1>1, <1>2, <1>4
<1>6. Append(one, r) = two
  BY <1>1, <1>2, <1>4, <1>5, SeqEqual
<1> QED
  BY <1>6 DEF one, two

\* What a step of asker a leaves alone, and how writes are lost.
SqlStep(a) ==
    /\ \A b \in Askers \ {a} :
         /\ step'[b] = step[b] /\ query'[b] = query[b] /\ closed'[b] = closed[b]
         /\ told'[b] = told[b] /\ answer'[b] = answer[b] /\ audit'[b] = audit[b]
    /\ outages' = outages \/ (outages < MaxOutages /\ outages' = outages + 1)

LEMMA SqlStepKeeps ==
    ASSUME SqlInv, NEW a \in Askers, SqlStep(a), SqlTypes', EndingInv(a)', AnswerInv(a)'
    PROVE  SqlInv'
<1>1. ASSUME NEW b \in Askers, b # a PROVE EndingInv(b)' /\ AnswerInv(b)'
  BY <1>1, OtherAskersKeep DEF SqlStep, SqlInv
<1> QED
  BY <1>1 DEF SqlInv

LEMMA OutageStep ==
    ASSUME SqlTypes, outages' = outages \/ (outages < MaxOutages /\ outages' = outages + 1)
    PROVE  outages' \in 0 .. MaxOutages /\ (outages # 0 \/ outages' # outages => outages' # 0)
BY Constants DEF SqlTypes

\* A request begins with an empty answer, and with its row or not at all.
LEMMA RequestKeeps ==
    ASSUME SqlInv, NEW a \in Askers, RecordRequest(a)
    PROVE  SqlInv'
<1>1. /\ closed' = [closed EXCEPT ![a] = FALSE] /\ answer' = [answer EXCEPT ![a] = NoAnswer]
      /\ told' = [told EXCEPT ![a] = "failed"]
  BY DEF RecordRequest, Tell
<1>2. PICK q \in Queries : query' = [query EXCEPT ![a] = q]
  BY DEF RecordRequest
<1>3. \/ /\ audit' = [audit EXCEPT ![a] = <<"request">>] /\ step' = [step EXCEPT ![a] = "guard"]
         /\ outages' = outages
      \/ /\ \E log \in {<<>>, <<"request">>} : audit' = [audit EXCEPT ![a] = log]
         /\ step' = [step EXCEPT ![a] = "ended"]
         /\ outages < MaxOutages /\ outages' = outages + 1
  BY DEF RecordRequest, Goto, Outage
<1>4. SqlTypes /\ (outages' # outages => outages' # 0) /\ outages' \in 0 .. MaxOutages
  BY <1>3, OutageStep DEF SqlInv
<1>5. SqlTypes'
  BY <1>1, <1>2, <1>3, <1>4 DEF SqlTypes
<1>6. /\ closed'[a] = FALSE /\ answer'[a] = NoAnswer /\ told'[a] = "failed"
      /\ \/ audit'[a] = <<"request">> /\ step'[a] = "guard"
         \/ step'[a] = "ended" /\ outages' # 0
  BY <1>1, <1>3, <1>4, Constants DEF SqlTypes
<1>7. EndingInv(a)'
  BY <1>6 DEF EndingInv, Open, Matches
<1>8. AnswerInv(a)'
  BY <1>6 DEF AnswerInv
<1>9. SqlStep(a)
  BY <1>1, <1>2, <1>3, <1>4 DEF SqlTypes, SqlStep
<1> QED
  BY <1>5, <1>7, <1>8, <1>9, SqlStepKeeps

LEMMA UnknownKeeps ==
    ASSUME SqlInv, NEW a \in Askers, RefuseUnknown(a)
    PROVE  SqlInv'
<1>1. /\ answer' = [answer EXCEPT ![a] = NoAnswer] /\ query' = query /\ closed' = closed
      /\ step' = [step EXCEPT ![a] = "ended"]
  BY DEF RefuseUnknown, Goto
<1>2. \/ /\ audit' = [audit EXCEPT ![a] = <<"refused">>] /\ told' = [told EXCEPT ![a] = "unknown"]
         /\ outages' = outages
      \/ /\ \E log \in {<<>>, <<"refused">>} : audit' = [audit EXCEPT ![a] = log]
         /\ told' = [told EXCEPT ![a] = "failed"]
         /\ outages < MaxOutages /\ outages' = outages + 1
  BY DEF RefuseUnknown, Tell, Outage
<1>3. SqlTypes /\ (outages' # outages => outages' # 0) /\ outages' \in 0 .. MaxOutages
  BY <1>2, OutageStep DEF SqlInv
<1>4. SqlTypes'
  BY <1>1, <1>2, <1>3 DEF SqlTypes
<1>5. /\ answer'[a] = NoAnswer /\ step'[a] = "ended"
      /\ \/ audit'[a] = <<"refused">> /\ told'[a] = "unknown"
         \/ told'[a] = "failed" /\ outages' # 0
  BY <1>1, <1>2, <1>3, Constants DEF SqlTypes
<1>6. EndingInv(a)'
  BY <1>5 DEF EndingInv, Matches, Log
<1>7. AnswerInv(a)'
  BY <1>5 DEF AnswerInv
<1>8. SqlStep(a)
  BY <1>1, <1>2, <1>3 DEF SqlTypes, SqlStep
<1> QED
  BY <1>4, <1>6, <1>7, <1>8, SqlStepKeeps

\* A statement that the guard refuses gets its ending before the except clause.
LEMMA GuardKeeps ==
    ASSUME SqlInv, NEW a \in Askers, Guard(a)
    PROVE  SqlInv'
<1>1. step[a] = "guard" /\ answer' = answer /\ query' = query
  BY DEF Guard
<1>2. \/ /\ step' = [step EXCEPT ![a] = "run"] /\ UNCHANGED <<audit, closed, told, outages>>
      \/ /\ step' = [step EXCEPT ![a] = "except"] /\ told' = [told EXCEPT ![a] = "refused"]
         /\ audit' = [audit EXCEPT ![a] = Append(@, "refused")]
         /\ closed' = [closed EXCEPT ![a] = TRUE] /\ outages' = outages
      \/ /\ step' = [step EXCEPT ![a] = "except"] /\ UNCHANGED <<closed, told>>
         /\ audit' = audit \/ audit' = [audit EXCEPT ![a] = Append(@, "refused")]
         /\ outages < MaxOutages /\ outages' = outages + 1
  BY DEF Guard, Goto, Tell, Outcome, Insert, Lost, Outage
<1>3. SqlTypes /\ outages' \in 0 .. MaxOutages /\ (outages' # outages => outages' # 0) /\ Open(a) /\ answer[a] = NoAnswer
  BY <1>1, <1>2, OutageStep DEF SqlInv, EndingInv, AnswerInv
<1>4. SqlTypes'
  BY <1>1, <1>2, <1>3 DEF SqlTypes
<1>5. /\ answer'[a] = NoAnswer
      /\ \/ step'[a] = "run" /\ Open(a)'
         \/ step'[a] = "except" /\ Pending(a)'
         \/ /\ step'[a] = "except" /\ told'[a] = "refused" /\ closed'[a] = TRUE
            /\ audit'[a] = <<"request", "refused">>
  <2>1. CASE step' = [step EXCEPT ![a] = "run"] /\ UNCHANGED <<audit, closed, told, outages>>
    BY <1>1, <1>3, <2>1 DEF SqlTypes, Open
  <2>2. CASE /\ step' = [step EXCEPT ![a] = "except"] /\ told' = [told EXCEPT ![a] = "refused"]
             /\ audit' = [audit EXCEPT ![a] = Append(@, "refused")]
             /\ closed' = [closed EXCEPT ![a] = TRUE]
    BY <1>1, <1>3, <2>2, SecondRow DEF SqlTypes, Open
  <2>3. CASE /\ step' = [step EXCEPT ![a] = "except"] /\ UNCHANGED <<closed, told>>
             /\ outages < MaxOutages /\ outages' = outages + 1
    <3>1. outages' # 0
      BY <1>3, <2>3, Constants DEF SqlTypes
    <3> QED
      BY <1>1, <1>3, <2>3, <3>1 DEF SqlTypes, Open, Pending
  <2> QED
    BY <1>2, <2>1, <2>2, <2>3
<1>6. EndingInv(a)'
  BY <1>5 DEF EndingInv, Log
<1>7. AnswerInv(a)'
  BY <1>5 DEF AnswerInv, Open, Pending
<1>8. SqlStep(a)
  BY <1>1, <1>2, <1>3 DEF SqlTypes, SqlStep
<1> QED
  BY <1>4, <1>6, <1>7, <1>8, SqlStepKeeps

LEMMA BootKeeps ==
    ASSUME SqlInv, NEW a \in Askers, BootCheck(a)
    PROVE  SqlInv'
<1>1. /\ step[a] = "run" /\ UNCHANGED <<query, closed, told, answer, audit, outages>>
      /\ step' = [step EXCEPT ![a] = "query"] \/ step' = [step EXCEPT ![a] = "except"]
  BY DEF BootCheck, Goto
<1>2. SqlTypes /\ Open(a) /\ answer[a] = NoAnswer
  BY <1>1 DEF SqlInv, EndingInv, AnswerInv
<1>3. SqlTypes'
  BY <1>1, <1>2 DEF SqlTypes
<1>4. (step'[a] = "query" \/ step'[a] = "except") /\ Open(a)' /\ answer'[a] = NoAnswer
  BY <1>1, <1>2 DEF SqlTypes, Open
<1>5. EndingInv(a)'
  BY <1>4 DEF EndingInv, Open, Pending
<1>6. AnswerInv(a)'
  BY <1>4 DEF AnswerInv, Open
<1>7. SqlStep(a)
  BY <1>1, <1>2 DEF SqlTypes, SqlStep
<1> QED
  BY <1>3, <1>5, <1>6, <1>7, SqlStepKeeps

LEMMA FetchTells ==
    ASSUME NEW yield \in Nat
    PROVE  LET fetched == Fetch(yield)
               got == IF fetched > MaxRows THEN MaxRows ELSE fetched
           IN  got <= MaxRows /\ (got < yield => (fetched > MaxRows) = TRUE)
BY CopilotAssumption DEF Fetch

LEMMA YieldType == ASSUME NEW q \in Queries PROVE Yield(q) \in Nat
BY CopilotAssumption DEF Yield, EnforceLimit

\* The answer is cut at MAX_ROWS, and then says so.
LEMMA ExecuteKeeps ==
    ASSUME SqlInv, NEW a \in Askers, Execute(a)
    PROVE  SqlInv'
<1> DEFINE fetched == Fetch(Yield(query[a]))
           got == [rows |-> IF fetched > MaxRows THEN MaxRows ELSE fetched,
                   truncated |-> fetched > MaxRows]
<1>1. /\ step[a] = "query" /\ UNCHANGED <<query, closed, told, audit, outages>>
      /\ \/ step' = [step EXCEPT ![a] = "result"] /\ answer' = [answer EXCEPT ![a] = got]
         \/ step' = [step EXCEPT ![a] = "except"] /\ answer' = answer
  BY DEF Execute, Goto
<1>2. SqlTypes /\ Open(a) /\ answer[a] = NoAnswer
  BY <1>1 DEF SqlInv, EndingInv, AnswerInv
<1>3. SqlTypes'
  BY <1>1, <1>2 DEF SqlTypes
<1>4. /\ Open(a)' /\ query'[a] = query[a]
      /\ \/ step'[a] = "result" /\ answer'[a] = got
         \/ step'[a] = "except" /\ answer'[a] = NoAnswer
  BY <1>1, <1>2 DEF SqlTypes, Open
<1>5. EndingInv(a)'
  BY <1>4 DEF EndingInv, Open, Pending
<1>6. got.rows <= MaxRows /\ (got.rows < Yield(query[a]) => got.truncated = TRUE)
  <2>1. Yield(query[a]) \in Nat
    BY <1>2, YieldType DEF SqlTypes
  <2>2. got.rows = (IF fetched > MaxRows THEN MaxRows ELSE fetched) /\ got.truncated = (fetched > MaxRows)
    OBVIOUS
  <2> HIDE DEF got
  <2> QED
    BY <2>1, <2>2, FetchTells
<1>7. AnswerInv(a)'
  <2>1. Yield(query[a])' = Yield(query[a])
    BY <1>4 DEF Yield, EnforceLimit
  <2>2. CASE step'[a] = "result" /\ answer'[a] = got
    <3> HIDE DEF got
    <3> QED
      BY <1>6, <2>1, <2>2 DEF AnswerInv
  <2>3. CASE step'[a] = "except" /\ answer'[a] = NoAnswer
    BY <1>4, <2>3 DEF AnswerInv, Open
  <2> QED
    BY <1>4, <2>2, <2>3
<1>8. SqlStep(a)
  BY <1>1, <1>2 DEF SqlTypes, SqlStep
<1> QED
  BY <1>3, <1>5, <1>7, <1>8, SqlStepKeeps

\* The caller has the answer only with its row.
LEMMA ResultKeeps ==
    ASSUME SqlInv, NEW a \in Askers, RecordResult(a)
    PROVE  SqlInv'
<1>1. step[a] = "result" /\ answer' = answer /\ query' = query
  BY DEF RecordResult
<1>2. \/ /\ step' = [step EXCEPT ![a] = "finally"] /\ told' = [told EXCEPT ![a] = "answered"]
         /\ audit' = [audit EXCEPT ![a] = Append(@, "result")]
         /\ closed' = [closed EXCEPT ![a] = TRUE] /\ outages' = outages
      \/ /\ step' = [step EXCEPT ![a] = "except"] /\ UNCHANGED <<closed, told>>
         /\ audit' = audit \/ audit' = [audit EXCEPT ![a] = Append(@, "result")]
         /\ outages < MaxOutages /\ outages' = outages + 1
  BY DEF RecordResult, Goto, Tell, Outcome, Insert, Lost, Outage
<1>3. SqlTypes /\ outages' \in 0 .. MaxOutages /\ Open(a) /\ AnswerInv(a)
  BY <1>1, <1>2, OutageStep DEF SqlInv, EndingInv
<1>4. SqlTypes'
  BY <1>1, <1>2, <1>3 DEF SqlTypes
<1>5. /\ answer'[a] = answer[a] /\ query'[a] = query[a]
      /\ \/ step'[a] = "except" /\ Pending(a)'
         \/ /\ step'[a] = "finally" /\ told'[a] = "answered" /\ closed'[a] = TRUE
            /\ audit'[a] = <<"request", "result">>
  <2>1. outages' # outages => outages' # 0
    BY <1>2, OutageStep DEF SqlInv
  <2>2. CASE /\ step' = [step EXCEPT ![a] = "finally"] /\ told' = [told EXCEPT ![a] = "answered"]
             /\ audit' = [audit EXCEPT ![a] = Append(@, "result")]
             /\ closed' = [closed EXCEPT ![a] = TRUE]
    BY <1>1, <1>3, <2>2, SecondRow DEF SqlTypes, Open
  <2>3. CASE /\ step' = [step EXCEPT ![a] = "except"] /\ UNCHANGED <<closed, told>>
             /\ outages < MaxOutages /\ outages' = outages + 1
    <3>1. outages' # 0
      BY <1>3, <2>1, <2>3, Constants DEF SqlTypes
    <3> QED
      BY <1>1, <1>3, <2>3, <3>1 DEF SqlTypes, Open, Pending
  <2> QED
    BY <1>2, <2>2, <2>3
<1>6. EndingInv(a)'
  <2>1. Log["answered"] = <<"request", "result">>
    BY DEF Log
  <2> QED
    BY <1>5, <2>1 DEF EndingInv, Matches
<1>7. AnswerInv(a)'
  BY <1>1, <1>3, <1>5 DEF AnswerInv, Yield, EnforceLimit, Pending
<1>8. SqlStep(a)
  BY <1>1, <1>2, <1>3 DEF SqlTypes, SqlStep
<1> QED
  BY <1>4, <1>6, <1>7, <1>8, SqlStepKeeps

LEMMA ErrorKeeps ==
    ASSUME SqlInv, NEW a \in Askers, RecordError(a)
    PROVE  SqlInv'
<1>1. /\ step[a] = "except" /\ step' = [step EXCEPT ![a] = "finally"]
      /\ UNCHANGED <<query, told, answer>>
  BY DEF RecordError, Goto
<1>2. \/ closed[a] = TRUE /\ UNCHANGED <<audit, closed, outages>>
      \/ /\ closed[a] # TRUE /\ audit' = [audit EXCEPT ![a] = Append(@, "error")]
         /\ closed' = [closed EXCEPT ![a] = TRUE] /\ outages' = outages
      \/ /\ closed[a] # TRUE /\ UNCHANGED closed
         /\ audit' = audit \/ audit' = [audit EXCEPT ![a] = Append(@, "error")]
         /\ outages < MaxOutages /\ outages' = outages + 1
  BY DEF RecordError, Outcome, Insert, Lost, Outage
<1>3. /\ SqlTypes /\ outages' \in 0 .. MaxOutages /\ (outages' # outages => outages' # 0)
      /\ EndingInv(a) /\ AnswerInv(a)
  BY <1>2, OutageStep DEF SqlInv
<1>4. SqlTypes'
  BY <1>1, <1>2, <1>3 DEF SqlTypes
<1>5. /\ answer'[a] = answer[a] /\ query'[a] = query[a] /\ step'[a] = "finally"
      /\ told'[a] = told[a] /\ Matches(a)'
      /\ closed'[a] # TRUE => told'[a] = "failed" /\ outages' # 0
  <2>1. CASE closed[a] = TRUE
    BY <1>1, <1>2, <1>3, <2>1 DEF SqlTypes, EndingInv, Pending, Matches, Log
  <2>2. CASE closed[a] # TRUE
    <3>1. Pending(a)
      BY <1>1, <1>3, <2>2 DEF EndingInv
    <3>2. CASE outages' = outages + 1
      <4>1. outages' # 0
        BY <1>3, <3>2, Constants DEF SqlTypes
      <4> QED
        BY <1>1, <1>3, <3>1, <4>1 DEF Pending, Matches, SqlTypes
    <3>3. CASE /\ audit' = [audit EXCEPT ![a] = Append(@, "error")]
               /\ closed' = [closed EXCEPT ![a] = TRUE] /\ outages' = outages
      <4>1. Append(<<"request">>, "error") = <<"request", "error">>
        BY SecondRow
      <4>2. audit[a] = <<"request">> => audit'[a] = Log["failed"]
        BY <1>3, <3>3, <4>1 DEF SqlTypes, Log
      <4> QED
        BY <1>1, <1>3, <3>1, <3>3, <4>2 DEF Pending, Matches, SqlTypes
    <3> QED
      BY <1>2, <2>2, <3>2, <3>3
  <2> QED
    BY <2>1, <2>2
<1>6. EndingInv(a)'
  BY <1>5 DEF EndingInv
<1>7. AnswerInv(a)'
  <2>1. told[a] # "answered"
    BY <1>1, <1>3 DEF EndingInv, Pending
  <2> QED
    BY <1>1, <1>3, <1>5, <2>1 DEF AnswerInv
<1>8. SqlStep(a)
  BY <1>1, <1>2, <1>3 DEF SqlTypes, SqlStep
<1> QED
  BY <1>4, <1>6, <1>7, <1>8, SqlStepKeeps

LEMMA FinallyKeeps ==
    ASSUME SqlInv, NEW a \in Askers, Finally(a)
    PROVE  SqlInv'
<1>1. /\ step[a] = "finally" /\ step' = [step EXCEPT ![a] = "ended"]
      /\ UNCHANGED <<query, told, answer>>
  BY DEF Finally, Goto
<1>2. \/ closed[a] = TRUE /\ UNCHANGED <<audit, closed, outages>>
      \/ /\ closed[a] # TRUE /\ audit' = [audit EXCEPT ![a] = Append(@, "incomplete")]
         /\ closed' = [closed EXCEPT ![a] = TRUE] /\ outages' = outages
      \/ /\ closed[a] # TRUE /\ UNCHANGED closed
         /\ audit' = audit \/ audit' = [audit EXCEPT ![a] = Append(@, "incomplete")]
         /\ outages < MaxOutages /\ outages' = outages + 1
  BY DEF Finally, Outcome, Insert, Lost, Outage
<1>3. /\ SqlTypes /\ outages' \in 0 .. MaxOutages
      /\ (outages # 0 \/ outages' # outages => outages' # 0)
      /\ EndingInv(a) /\ AnswerInv(a)
  BY <1>2, OutageStep DEF SqlInv
<1>4. SqlTypes'
  BY <1>1, <1>2, <1>3 DEF SqlTypes
<1>5. /\ answer'[a] = answer[a] /\ query'[a] = query[a] /\ step'[a] = "ended" /\ told'[a] = told[a]
      /\ Matches(a)'
  <2>1. CASE closed[a] = TRUE
    BY <1>1, <1>2, <1>3, <2>1 DEF SqlTypes, EndingInv, Matches
  <2>2. CASE closed[a] # TRUE
    BY <1>1, <1>3, <2>2 DEF SqlTypes, EndingInv, Matches
  <2> QED
    BY <2>1, <2>2
<1>6. EndingInv(a)'
  BY <1>5 DEF EndingInv
<1>7. AnswerInv(a)'
  BY <1>1, <1>3, <1>5 DEF AnswerInv, Yield, EnforceLimit
<1>8. SqlStep(a)
  BY <1>1, <1>2, <1>3 DEF SqlTypes, SqlStep
<1> QED
  BY <1>4, <1>6, <1>7, <1>8, SqlStepKeeps

-----------------------------------------------------------------------------
(* The theorems.                                                           *)

\* Gateway and run_sql share nothing but the outages of the database.
LEMMA AskerKeepsGateway ==
    ASSUME GatewayInv, UNCHANGED <<fallbacks, llmVars>>,
           outages' = outages \/ (outages < MaxOutages /\ outages' = outages + 1)
    PROVE  GatewayInv'
<1>1. /\ fallbacks' = fallbacks /\ pc' = pc /\ chain' = chain /\ at' = at /\ n' = n
      /\ sends' = sends /\ rows' = rows /\ spent' = spent
  BY DEF llmVars
<1>2. outages' \in 0 .. MaxOutages
  BY Constants DEF GatewayInv, GatewayTypes
<1>3. GatewayTypes'
  BY <1>1, <1>2 DEF GatewayInv, GatewayTypes, InHand
<1>4. ASSUME NEW d \in Callers PROVE ChainInv(d)' /\ RecordInv(d)'
  BY <1>1, OthersKeep DEF GatewayInv
<1> QED
  BY <1>3, <1>4 DEF GatewayInv

LEMMA CallerKeepsSql ==
    ASSUME SqlInv, UNCHANGED sqlVars,
           outages' = outages \/ (outages < MaxOutages /\ outages' = outages + 1)
    PROVE  SqlInv'
<1>1. /\ step' = step /\ query' = query /\ closed' = closed /\ told' = told
      /\ answer' = answer /\ audit' = audit
  BY DEF sqlVars
<1>2. outages' \in 0 .. MaxOutages
  BY OutageStep DEF SqlInv
<1>3. SqlTypes'
  BY <1>1, <1>2 DEF SqlInv, SqlTypes
<1>4. ASSUME NEW b \in Askers PROVE EndingInv(b)' /\ AnswerInv(b)'
  BY <1>1, OtherAskersKeep DEF SqlInv
<1> QED
  BY <1>3, <1>4 DEF SqlInv

CopilotInv == GatewayInv /\ SqlInv

LEMMA Inductive == Spec => []CopilotInv
<1>1. Init => CopilotInv
  BY InitGatewayInv, InitSqlInv DEF CopilotInv
<1>2. CopilotInv /\ [Next]_vars => CopilotInv'
  <2> SUFFICES ASSUME CopilotInv, [Next]_vars PROVE CopilotInv'
    OBVIOUS
  <2> USE DEF CopilotInv
  <2>1. CASE \E c \in Callers : StartCall(c) \/ CheckBudget(c) \/ Send(c)
    <3>1. PICK c \in Callers : StartCall(c) \/ CheckBudget(c) \/ Send(c)
      BY <2>1
    <3>2. GatewayInv'
      BY <3>1, StartKeeps, CheckKeeps, SendKeeps
    <3>3. UNCHANGED sqlVars
      BY <3>1 DEF StartCall, CheckBudget, Send
    <3>4. outages' = outages \/ (outages < MaxOutages /\ outages' = outages + 1)
      BY <3>1 DEF StartCall, CheckBudget, Send, Record, Outage
    <3> QED
      BY <3>2, <3>3, <3>4, CallerKeepsSql
  <2>2. CASE \E a \in Askers : RecordRequest(a) \/ RefuseUnknown(a) \/ Ask(a)
    <3>1. PICK a \in Askers : RecordRequest(a) \/ RefuseUnknown(a) \/ Ask(a)
      BY <2>2
    <3>2. SqlInv'
      BY <3>1, RequestKeeps, UnknownKeeps, GuardKeeps, BootKeeps, ExecuteKeeps, ResultKeeps,
         ErrorKeeps, FinallyKeeps DEF Ask
    <3>3. UNCHANGED <<fallbacks, llmVars>>
      BY <3>1 DEF RecordRequest, RefuseUnknown, Ask, Guard, BootCheck, Execute, RecordResult,
                  RecordError, Finally, OtherSql
    <3>4. outages' = outages \/ (outages < MaxOutages /\ outages' = outages + 1)
      BY <3>1 DEF RecordRequest, RefuseUnknown, Ask, Guard, BootCheck, Execute, RecordResult,
                  RecordError, Finally, Outcome, Insert, Lost, Outage
    <3> QED
      BY <3>2, <3>3, <3>4, AskerKeepsGateway
  <2>3. CASE UNCHANGED vars
    <3>1. UNCHANGED <<fallbacks, llmVars>> /\ UNCHANGED sqlVars /\ outages' = outages
      BY <2>3 DEF vars
    <3> QED
      BY <3>1, AskerKeepsGateway, CallerKeepsSql
  <2> QED
    BY <2>1, <2>2, <2>3 DEF Next
<1> QED
  BY <1>1, <1>2, PTL DEF Spec

\* Types; attempts stay within MAX_ATTEMPTS_PER_PROVIDER, and an answer is
\* there only after the query was executed.
THEOREM TypeCorrect == Spec => []TypeOK
<1>1. CopilotInv => TypeOK
  BY Constants DEF CopilotInv, GatewayInv, GatewayTypes, SqlInv, AnswerInv, TypeOK
<1> QED
  BY <1>1, Inductive, PTL

\* Whatever the fallback list says and however requests fail, a call that
\* begins with a local provider sends to local providers only (fallback_chain,
\* call).
THEOREM LocalStaysLocalHolds == Spec => []LocalStaysLocal
<1>1. CopilotInv => LocalStaysLocal
  <2> SUFFICES ASSUME CopilotInv, NEW c \in Callers, sends[c] # <<>>, sends[c][1][1] \in Local,
                      NEW i \in DOMAIN sends[c]
               PROVE  sends[c][i][1] \in Local
    BY DEF LocalStaysLocal
  <2>1. ChainInv(c) /\ chain[c] \in Seq(Providers)
    BY DEF CopilotInv, GatewayInv, GatewayTypes
  <2>2. PICK j \in DOMAIN chain[c] : sends[c][i][1] = chain[c][j]
    BY <2>1 DEF ChainInv
  <2>3. j \in 1 .. Len(chain[c]) /\ chain[c] # <<>>
    BY <2>1, <2>2, EmptySeq
  <2>4. chain[c][1] \in Local /\ Len(chain[c]) = 1
    BY <2>1, <2>3 DEF ChainInv
  <2> QED
    BY <2>2, <2>3, <2>4
<1> QED
  BY <1>1, Inductive, PTL

\* The ledger of llm_call has every failed attempt of a call, in order, but for
\* the writes that were lost (record in the finally clause of call).
THEOREM FailuresAreRecordedHolds == Spec => []FailuresAreRecorded
<1>1. CopilotInv => FailuresAreRecorded
  BY DEF CopilotInv, GatewayInv, RecordInv, FailuresAreRecorded
<1> QED
  BY <1>1, Inductive, PTL

\* A request that ended has one ending in the audit log, the one its caller was
\* told; only one of which the caller was told that it failed may have another
\* log, when writes of it raised (audited).
THEOREM OneEndingHolds == Spec => []OneEnding
<1>1. CopilotInv => OneEnding
  BY DEF CopilotInv, SqlInv, EndingInv, Matches, OneEnding
<1> QED
  BY <1>1, Inductive, PTL

\* An answer with fewer rows than the executed statement yields says so
\* (fetchmany in run_sql).
THEOREM TruncationIsMarkedHolds == Spec => []TruncationIsMarked
<1>1. CopilotInv => TruncationIsMarked
  BY DEF CopilotInv, SqlInv, AnswerInv, TruncationIsMarked
<1> QED
  BY <1>1, Inductive, PTL

\* The view of the month's costs stays at zero, so that the ceiling is compared
\* with the estimate of one call alone, for any prices, charges and callers
\* (record in the finally clause of call, check_budget).
THEOREM BudgetForgetsHolds == Spec => []BudgetForgets
<1> DEFINE Unspent == spent = 0
<1>1. Init => Unspent
  BY DEF Init
<1>2. ASSUME Unspent, [Next]_vars PROVE Unspent'
  <2>1. ASSUME NEW c \in Callers, Send(c) PROVE spent' = 0
    <3>1. PICK result \in Results : Record(c, result)
      BY <2>1 DEF Send, Results
    <3>2. CASE spent' = spent
      BY <1>2, <3>2
    <3>3. CASE result # "ok" /\ spent' = spent + RowCost(c, result)
      BY <1>2, <3>3 DEF RowCost
    <3> QED
      BY <3>1, <3>2, <3>3 DEF Record, Recorded
  <2>2. UNCHANGED spent \/ \E c \in Callers : Send(c)
    BY <1>2 DEF Next, vars, llmVars, StartCall, CheckBudget, RecordRequest, RefuseUnknown, Ask,
                Guard, BootCheck, Execute, RecordResult, RecordError, Finally, OtherSql
  <2> QED
    BY <1>2, <2>1, <2>2
<1>3. Unspent => BudgetForgets
  <2> SUFFICES ASSUME spent = 0, NEW p \in Providers
               PROVE  WithinBudget(p) <=> Budget > 0 /\ Estimate(p) <= Budget
    BY DEF BudgetForgets
  <2>1. Estimate(p) \in Nat
    BY Constants DEF Estimate
  <2>2. 0 + Estimate(p) = Estimate(p)
    BY <2>1
  <2> QED
    BY <2>2 DEF WithinBudget
<1> HIDE DEF Unspent
<1> QED
  BY <1>1, <1>2, <1>3, PTL DEF Spec

-----------------------------------------------------------------------------
(* How many requests a call makes *)

\* The attempts of the providers before this one, and those at this one.
Made(c) == (at[c] - 1) * MaxAttempts + (n[c] - 1)

BoundInv(c) ==
    /\ pc[c] # "idle" => Len(sends[c]) <= Made(c)
    /\ Len(sends[c]) <= Len(chain[c]) * MaxAttempts

\* A provider more is MaxAttempts requests more.
LEMMA OneMore ==
    ASSUME NEW i \in Nat, NEW m \in Nat
    PROVE  (i + 1) * m = i * m + m /\ i * m \in Nat
OBVIOUS

LEMMA MoreProviders ==
    ASSUME NEW i \in Nat, NEW j \in Nat, NEW m \in Nat, i <= j
    PROVE  i * m <= j * m
<1>1. (j - i) * m \in Nat /\ j - i \in Nat
  OBVIOUS
<1>2. j * m = i * m + (j - i) * m
  OBVIOUS
<1>3. i * m \in Nat
  OBVIOUS
<1> QED
  BY <1>1, <1>2, <1>3

LEMMA BoundKept ==
    ASSUME GatewayInv, NEW c \in Callers, Send(c), BoundInv(c)
    PROVE  BoundInv(c)'
<1> DEFINE s == sends[c]
<1>1. /\ pc[c] = "send" /\ MaxAttempts \in Nat
      /\ at[c] \in 1 .. Len(chain[c]) /\ n[c] \in 1 .. MaxAttempts
      /\ Len(chain[c]) \in Nat /\ Len(s) \in Nat /\ chain' = chain
      /\ at[c] \in Nat /\ n[c] \in Nat
  <2>1. pc[c] = "send" /\ InHand(c) /\ chain' = chain
    BY DEF Send, GatewayInv, GatewayTypes
  <2>2. chain[c] \in Seq(Providers) /\ s \in Seq(Providers \X Results)
    BY DEF GatewayInv, GatewayTypes
  <2>3. at[c] \in 1 .. Len(chain[c]) /\ n[c] \in 1 .. MaxAttempts
    BY <2>1 DEF InHand
  <2>4. Len(chain[c]) \in Nat /\ Len(s) \in Nat
    <3> HIDE DEF s
    <3> QED
      BY <2>2
  <2>5. MaxAttempts \in Nat /\ at \in [Callers -> Nat] /\ n \in [Callers -> Nat]
    BY Constants DEF GatewayInv, GatewayTypes
  <2> HIDE DEF s
  <2> QED
    BY <2>1, <2>3, <2>4, <2>5
<1>2. PICK result \in Results :
        /\ sends' = [sends EXCEPT ![c] = Append(@, <<chain[c][at[c]], result>>)]
        /\ IF result = "ok" THEN pc' = [pc EXCEPT ![c] = "idle"] /\ UNCHANGED <<at, n>>
                            ELSE AfterFailure(c, result)
  BY DEF Send, Results
<1>3. Len(s') = Len(s) + 1
  <2>1. s' = Append(s, <<chain[c][at[c]], result>>) /\ s \in Seq(Providers \X Results)
    BY <1>2 DEF GatewayInv, GatewayTypes
  <2> QED
    BY <2>1
<1>4. DEFINE before == (at[c] - 1) * MaxAttempts
             upTo == at[c] * MaxAttempts
             all == Len(chain[c]) * MaxAttempts
<1>5. before \in Nat /\ upTo \in Nat /\ all \in Nat /\ upTo = before + MaxAttempts /\ upTo <= all
  <2>1. at[c] - 1 \in Nat /\ (at[c] - 1) + 1 = at[c]
    BY <1>1
  <2>2. upTo = before + MaxAttempts /\ before \in Nat
    BY <1>1, <2>1, OneMore
  <2>3. all \in Nat
    BY <1>1, OneMore
  <2>4. upTo <= all
    BY <1>1, MoreProviders
  <2> QED
    BY <1>1, <2>2, <2>3, <2>4
<1>6. Len(s) <= before + (n[c] - 1)
  BY <1>1 DEF BoundInv, Made
<1> HIDE DEF before, upTo, all, s
<1>7. Len(s') <= all
  BY <1>1, <1>3, <1>5, <1>6
<1>8. Len(sends'[c]) <= Len(chain'[c]) * MaxAttempts
  BY <1>1, <1>7 DEF s, all
<1>9. CASE pc'[c] = "idle"
  BY <1>8, <1>9 DEF BoundInv
<1>10. CASE pc'[c] # "idle"
  <2>1. pc[c] = "send" /\ pc \in [Callers -> {"idle", "budget", "send"}]
        /\ at \in [Callers -> Nat] /\ n \in [Callers -> Nat]
    BY <1>1 DEF GatewayInv, GatewayTypes
  <2>2. result # "ok" /\ AfterFailure(c, result)
    BY <1>2, <1>10, <2>1
  <2>3. CASE n' = [n EXCEPT ![c] = @ + 1] /\ UNCHANGED <<pc, at>>
    <3>1. n'[c] - 1 = (n[c] - 1) + 1 /\ at'[c] = at[c]
      BY <2>1, <2>3
    <3>2. Made(c)' = before + ((n[c] - 1) + 1)
      BY <3>1 DEF Made, before
    <3>3. Len(s') <= Made(c)'
      BY <1>1, <1>3, <1>5, <1>6, <3>2
    <3> QED
      BY <1>8, <3>3 DEF BoundInv, s
  <2>4. CASE n' = [n EXCEPT ![c] = 1] /\ at' = [at EXCEPT ![c] = @ + 1]
    <3>1. n'[c] - 1 = 0 /\ at'[c] - 1 = at[c]
      BY <1>1, <2>1, <2>4
    <3>2. Made(c)' = upTo + 0
      BY <3>1 DEF Made, upTo
    <3>3. Len(s') <= Made(c)'
      BY <1>1, <1>3, <1>5, <1>6, <3>2
    <3> QED
      BY <1>8, <3>3 DEF BoundInv, s
  <2> QED
    BY <1>10, <2>1, <2>2, <2>3, <2>4 DEF AfterFailure
<1> QED
  BY <1>9, <1>10

\* However requests fail and whatever the chain is, a call ends after
\* MAX_ATTEMPTS_PER_PROVIDER requests to each provider (call).
THEOREM CallIsBoundedHolds == Spec => []CallIsBounded
<1> DEFINE Bounded == \A c \in Callers : BoundInv(c)
<1>1. Init => Bounded
  <2> SUFFICES ASSUME Init, NEW c \in Callers PROVE BoundInv(c)
    OBVIOUS
  <2>1. pc[c] = "idle" /\ sends[c] = <<>> /\ chain[c] = <<>>
    BY DEF Init
  <2>2. Len(sends[c]) = 0 /\ Len(chain[c]) = 0 /\ 0 * MaxAttempts = 0
    BY <2>1, Constants
  <2> QED
    BY <2>1, <2>2 DEF BoundInv
<1>2. ASSUME CopilotInv, CopilotInv', Bounded, [Next]_vars PROVE Bounded'
  <2>1. ASSUME NEW c \in Callers, NEW d \in Callers,
               StartCall(c) \/ CheckBudget(c) \/ Send(c)
        PROVE  BoundInv(d)'
    <3>1. GatewayTypes /\ BoundInv(d)
      BY <1>2 DEF CopilotInv, GatewayInv
    <3>2. CASE d # c
      <4>1. /\ pc'[d] = pc[d] /\ at'[d] = at[d] /\ n'[d] = n[d]
            /\ sends'[d] = sends[d] /\ chain'[d] = chain[d]
        BY <2>1, <3>1, <3>2 DEF StartCall, CheckBudget, Send, AfterFailure, GatewayTypes
      <4> QED
        BY <3>1, <4>1 DEF BoundInv, Made
    <3>3. CASE d = c /\ StartCall(c)
      <4>1. sends'[c] = <<>> /\ at'[c] = 1 /\ n'[c] = 1
        BY <3>1, <3>3 DEF StartCall, GatewayTypes
      <4>2. chain'[c] \in Seq(Providers)
        BY <1>2 DEF CopilotInv, GatewayInv, GatewayTypes
      <4>3. Len(chain'[c]) * MaxAttempts \in Nat /\ 0 * MaxAttempts = 0 /\ Len(sends'[c]) = 0
        BY <4>1, <4>2, Constants, OneMore
      <4>4. Made(c)' = 0
        BY <4>1, <4>3 DEF Made
      <4> QED
        BY <3>3, <4>3, <4>4 DEF BoundInv
    <3>4. CASE d = c /\ CheckBudget(c)
      BY <3>1, <3>4 DEF CheckBudget, BoundInv, Made
    <3>5. CASE d = c /\ Send(c)
      BY <1>2, <3>1, <3>5, BoundKept DEF CopilotInv
    <3> QED
      BY <2>1, <3>2, <3>3, <3>4, <3>5
  <2>2. UNCHANGED llmVars \/ \E c \in Callers : StartCall(c) \/ CheckBudget(c) \/ Send(c)
    BY <1>2 DEF Next, vars, RecordRequest, RefuseUnknown, Ask, Guard, BootCheck, Execute,
                RecordResult, RecordError, Finally, OtherSql
  <2>3. CASE UNCHANGED llmVars
    BY <1>2, <2>3 DEF llmVars, BoundInv, Made
  <2> QED
    BY <2>1, <2>2, <2>3
<1>3. Bounded => CallIsBounded
  BY DEF BoundInv, CallIsBounded
<1> HIDE DEF Bounded
<1> QED
  BY <1>1, <1>2, <1>3, Inductive, PTL DEF Spec
=============================================================================
