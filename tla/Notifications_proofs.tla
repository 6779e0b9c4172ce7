------------------------ MODULE Notifications_proofs ------------------------
(***************************************************************************)
(* Proofs about Notifications, for any channels, preferences, senders,     *)
(* callbacks, length of the day, clock changes and number of attempts.     *)
(***************************************************************************)
EXTENDS Notifications, TLAPS

-----------------------------------------------------------------------------
(* Quiet hours.                                                            *)

\* The hours of day k.
LEMMA HourOfDay ==
    ASSUME NEW k \in Nat, NEW r \in 0 .. (DayLength - 1)
    PROVE  (k * DayLength + r) % DayLength = r
BY NotificationsAssumption

\* A time is its midnight and its hour.
LEMMA SplitTime ==
    ASSUME NEW t \in Nat
    PROVE  /\ t \div DayLength \in Nat
           /\ t = (t \div DayLength) * DayLength + (t % DayLength)
           /\ t % DayLength \in 0 .. (DayLength - 1)
BY NotificationsAssumption

\* The end of a quiet period is the first reading after r that is not quiet
\* (_quiet_end), also for a night that goes over midnight.
LEMMA QuietEndIsFirst ==
    ASSUME NEW q \in Quiet, NEW r \in Nat, InQuiet(q, r)
    PROVE  /\ QuietEnd(q, r) \in Nat /\ r < QuietEnd(q, r) /\ QuietEnd(q, r) <= r + DayLength
           /\ ~InQuiet(q, QuietEnd(q, r))
           /\ \A u \in r .. (QuietEnd(q, r) - 1) : InQuiet(q, u)
<1> DEFINE D == DayLength
           k == r \div D
           h == r % D
<1>1. /\ D \in Nat \ {0} /\ k \in Nat /\ h \in 0 .. (D - 1) /\ r = k * D + h
      /\ q.start \in 0 .. (D - 1) /\ q.end \in 0 .. (D - 1) /\ k * D \in Nat
  BY SplitTime, NotificationsAssumption DEF Quiet
<1>2. (k + 1) * D = k * D + D
  BY <1>1
<1>3. ASSUME NEW x \in 0 .. (D - 1)
      PROVE  (k * D + x) % D = x /\ (k * D + D + x) % D = x
  <2>1. (k * D + x) % D = x
    BY <1>1, HourOfDay
  <2>2. ((k + 1) * D + x) % D = x
    BY <1>1, HourOfDay
  <2> QED
    BY <1>2, <2>1, <2>2
<1>3a. (k * D + q.end) % D = q.end /\ (k * D + D + q.end) % D = q.end
  BY <1>1, <1>3, Zenon
<1>3b. ASSUME NEW m, m % DayLength = q.end, q.start < q.end \/ q.start > q.end
      PROVE  ~InQuiet(q, m)
  <2>1. q.start \in Nat /\ q.end \in Nat
    BY <1>1
  <2> QED
    BY <1>3b, <2>1 DEF InQuiet
<1>4. CASE q.start < q.end
  <2>1. h >= q.start /\ h < q.end /\ QuietEnd(q, r) = k * D + q.end
    BY <1>1, <1>4 DEF InQuiet, QuietEnd, Midnight
  <2>2. ~InQuiet(q, k * D + q.end)
    <3>1. (k * D + q.end) % DayLength = q.end /\ (q.start < q.end \/ q.start > q.end)
      BY <1>3a, <1>4, Zenon
    <3> QED
      BY <1>3b, <3>1, Zenon
  <2>3. ASSUME NEW u \in r .. (k * D + q.end - 1) PROVE InQuiet(q, u)
    <3>1. u - k * D \in 0 .. (D - 1) /\ u = k * D + (u - k * D)
      BY <1>1, <2>1
    <3>2. u % D = u - k * D
      BY <1>3, <3>1
    <3> QED
      BY <1>1, <1>4, <2>1, <3>2 DEF InQuiet
  <2> QED
    BY <1>1, <2>1, <2>2, <2>3
<1>5. CASE q.start > q.end /\ h < q.start
  <2>1. h < q.end /\ QuietEnd(q, r) = k * D + q.end
    BY <1>1, <1>5 DEF InQuiet, QuietEnd, Midnight
  <2>2. ~InQuiet(q, k * D + q.end)
    <3>1. (k * D + q.end) % DayLength = q.end /\ (q.start < q.end \/ q.start > q.end)
      BY <1>3a, <1>5, Zenon
    <3> QED
      BY <1>3b, <3>1, Zenon
  <2>3. ASSUME NEW u \in r .. (k * D + q.end - 1) PROVE InQuiet(q, u)
    <3>1. u - k * D \in 0 .. (D - 1) /\ u = k * D + (u - k * D)
      BY <1>1, <2>1
    <3>2. u % D = u - k * D
      BY <1>3, <3>1
    <3> QED
      BY <1>1, <1>5, <2>1, <3>2 DEF InQuiet
  <2> QED
    BY <1>1, <2>1, <2>2, <2>3
<1>6. CASE q.start > q.end /\ h >= q.start
  <2>1. QuietEnd(q, r) = k * D + D + q.end
    BY <1>1, <1>6 DEF QuietEnd, Midnight
  <2>2. ~InQuiet(q, k * D + D + q.end)
    <3>1. (k * D + D + q.end) % DayLength = q.end /\ (q.start < q.end \/ q.start > q.end)
      BY <1>3a, <1>6, Zenon
    <3> QED
      BY <1>3b, <3>1, Zenon
  <2>3. ASSUME NEW u \in r .. (k * D + D + q.end - 1) PROVE InQuiet(q, u)
    <3>1. CASE u < k * D + D
      <4>1. u - k * D \in 0 .. (D - 1) /\ u = k * D + (u - k * D)
        BY <1>1, <3>1
      <4>2. u % D = u - k * D
        BY <1>3, <4>1
      <4> QED
        BY <1>1, <1>6, <4>2 DEF InQuiet
    <3>2. CASE u >= k * D + D
      <4>1. u - k * D - D \in 0 .. (D - 1) /\ u = k * D + D + (u - k * D - D)
        BY <1>1, <3>2
      <4>2. u % D = u - k * D - D
        BY <1>3, <4>1
      <4> QED
        BY <1>1, <1>6, <4>2 DEF InQuiet
    <3> QED
      BY <1>1, <3>1, <3>2
  <2> QED
    BY <1>1, <1>6, <2>1, <2>2, <2>3
<1> QED
  BY <1>1, <1>4, <1>5, <1>6 DEF InQuiet

\* The same on a clock that changes: exact if it does not change between the
\* event and the end, and off by at most the change otherwise.
LEMMA DeferralOnTheClock ==
    ASSUME NEW q \in Quiet, NEW z \in Zone, NEW t \in Nat, InQuiet(q, Local(z, t)),
           NEW at, at = ToUtc(z, QuietEnd(q, Local(z, t)))
    PROVE  /\ (t < z.at <=> at < z.at) =>
                 /\ t < at /\ ~InQuiet(q, Local(z, at))
                 /\ \A u \in t .. (at - 1) : InQuiet(q, Local(z, u))
           /\ t < at + (IF z.by < 0 THEN -z.by ELSE 0)
           /\ at <= t + DayLength + (IF z.by < 0 THEN -z.by ELSE z.by)
<1> DEFINE r == Local(z, t)
           e == QuietEnd(q, r)
<1>1. z.at \in Nat /\ z.by \in Int /\ z.at + z.by \in Nat /\ DayLength \in Nat
  BY NotificationsAssumption DEF Zone
<1>2. r \in Nat /\ r = (IF t < z.at THEN t ELSE t + z.by)
  BY <1>1 DEF Local
<1>3. /\ e \in Nat /\ r < e /\ e <= r + DayLength /\ ~InQuiet(q, e)
      /\ \A u \in r .. (e - 1) : InQuiet(q, u)
  BY <1>2, QuietEndIsFirst
<1>4. at = IF e < z.at + (IF z.by > 0 THEN z.by ELSE 0) THEN e ELSE e - z.by
  BY DEF ToUtc
<1> HIDE DEF r, e
<1>5. /\ t < at + (IF z.by < 0 THEN -z.by ELSE 0)
      /\ at <= t + DayLength + (IF z.by < 0 THEN -z.by ELSE z.by)
  BY <1>1, <1>2, <1>3, <1>4
<1>6. CASE t < z.at /\ at < z.at
  <2>1. r = t /\ at = e
    BY <1>1, <1>2, <1>3, <1>4, <1>6
  <2>2. \A u \in t .. at : Local(z, u) = u
    BY <1>1, <1>3, <1>6, <2>1 DEF Local
  <2> QED
    BY <1>3, <1>5, <2>1, <2>2
<1>7. CASE t >= z.at /\ at >= z.at
  <2>1. r = t + z.by /\ at = e - z.by
    BY <1>1, <1>2, <1>3, <1>4, <1>7
  <2>2. \A u \in t .. at : Local(z, u) = u + z.by
    BY <1>1, <1>3, <1>7, <2>1 DEF Local
  <2>3. t < at /\ at \in Int
    BY <1>1, <1>3, <2>1
  <2>4. Local(z, at) = e
    BY <1>1, <1>3, <2>1, <2>2, <2>3
  <2>5. ASSUME NEW u \in t .. (at - 1) PROVE InQuiet(q, Local(z, u))
    <3>1. Local(z, u) = u + z.by /\ u + z.by \in r .. (e - 1)
      BY <1>1, <1>3, <2>1, <2>2, <2>3
    <3> QED
      BY <1>3, <3>1
  <2> QED
    BY <1>3, <1>5, <2>3, <2>4, <2>5
<1>8. at \in Int
  BY <1>1, <1>3, <1>4
<1> QED
  BY <1>1, <1>5, <1>6, <1>7, <1>8

-----------------------------------------------------------------------------
(* The row, its ledger and the attempts in hand.                           *)

Statuses == FinalStatuses \union {"none", "RETRYABLE", "BLOCKED_CONFIGURATION"}
Ledgers == UNION {[1 .. n -> Statuses] : n \in Nat}

RowTypes ==
    /\ consent \subseteq Channels /\ ready \subseteq Channels
    /\ status \in [Channels -> Statuses]
    /\ attempt \in [Channels -> Nat] /\ asked \in [Channels -> Nat]
    /\ cost \in [Channels -> Nat] /\ ledger \in [Channels -> Ledgers]
    /\ busy \in [Senders -> [channel : Channels \union {"in_app"}, attempt : Nat]]

\* An attempt in hand is the next one or one already recorded, and is within
\* the bound on attempts.
BusyInv ==
    \A s \in Senders : busy[s] # Idle =>
        LET c == busy[s].channel
        IN  /\ c \in Channels
            /\ busy[s].attempt \in 1 .. (attempt[c] + 1)
            /\ busy[s].attempt <= MaxAttempts + asked[c]

\* A delivery that may be taken has an attempt left.
RetryInv ==
    \A c \in Channels :
        /\ status[c] \in {"none", "BLOCKED_CONFIGURATION"} => attempt[c] = 0
        /\ status[c] = "RETRYABLE" => attempt[c] < MaxAttempts + asked[c]

\* Nothing happens to a delivery that does not exist.
PublishInv ==
    ~published => /\ \A c \in Channels : status[c] = "none" /\ decision[c].status = "none"
                  /\ \A s \in Senders : busy[s] = Idle
                  /\ sent = {}

DeliveryInv == RowTypes /\ RowMatchesLedger /\ BusyInv /\ RetryInv /\ PublishInv

LEMMA MaxAttemptsPositive == MaxAttempts \in Nat \ {0} /\ "in_app" \notin Channels
BY NotificationsAssumption

LEMMA InitDeliveryInv == Init => DeliveryInv
<1> SUFFICES ASSUME Init PROVE DeliveryInv
  OBVIOUS
<1>1. \A c \in Channels : DOMAIN ledger[c] = 1 .. 0
  <2>1. DOMAIN <<>> = 1 .. 0
    BY SMT
  <2>2. \A c \in Channels : ledger[c] = <<>>
    BY DEF Init
  <2> QED
    BY <2>1, <2>2
<1>2. <<>> \in [1 .. 0 -> Statuses]
  OBVIOUS
<1>3. RowTypes
  <2>1. <<>> \in Ledgers
    BY <1>2 DEF Ledgers
  <2> QED
    BY <2>1 DEF Init, RowTypes, Statuses, FinalStatuses, Idle
<1>4. RowMatchesLedger
  <2>1. \A c \in Channels : /\ attempt[c] = 0 /\ cost[c] = 0 /\ asked[c] = 0
                            /\ c \notin deadLettered /\ status[c] = "none"
    BY DEF Init
  <2>2. \A c \in Channels : DOMAIN ledger[c] = 1 .. attempt[c]
    BY <1>1, <2>1
  <2>3. \A c \in Channels : attempt[c] <= MaxAttempts + asked[c]
    <3>1. \A c \in Channels : attempt[c] = 0 /\ asked[c] = 0
      BY DEF Init
    <3>2. 0 <= MaxAttempts + 0
      BY MaxAttemptsPositive
    <3> QED
      BY <3>1, <3>2, Zenon
  <2> QED
    BY <2>1, <2>2, <2>3 DEF RowMatchesLedger
<1> QED
  BY <1>3, <1>4, MaxAttemptsPositive DEF Init, DeliveryInv, BusyInv, RetryInv, PublishInv, Idle

\* Publishing touches the row of a delivery only before anything was sent.
LEMMA PublishKeeps ==
    ASSUME DeliveryInv, PublishInApp
    PROVE  DeliveryInv'
<1> USE DEF DeliveryInv
<1>1. /\ UNCHANGED <<consent, ready, attempt, asked, cost, ledger, busy, deadLettered>>
      /\ published' = TRUE
  BY DEF PublishInApp
<1>2. CASE published
  <2>1. status' = status
    BY <1>2 DEF PublishInApp
  <2> QED
    BY <1>1, <2>1 DEF RowTypes, RowMatchesLedger, BusyInv, RetryInv, PublishInv
<1>3. CASE ~published
  <2>1. status' = [c \in Channels |-> "BLOCKED_CONFIGURATION"]
    BY <1>3 DEF PublishInApp
  <2>2. \A c \in Channels : status[c] = "none" /\ attempt[c] = 0
    BY <1>3 DEF PublishInv, RetryInv
  <2>3. RowTypes'
    BY <1>1, <2>1 DEF RowTypes, Statuses
  <2>4. RowMatchesLedger'
    BY <1>1, <2>1, <2>2 DEF RowMatchesLedger
  <2>5. RetryInv'
    BY <1>1, <2>1, <2>2 DEF RetryInv
  <2> QED
    BY <1>1, <2>3, <2>4, <2>5 DEF BusyInv, PublishInv
<1> QED
  BY <1>2, <1>3

LEMMA TakeKeeps ==
    ASSUME DeliveryInv, NEW s \in Senders, NEW c \in Channels, Take(s, c)
    PROVE  DeliveryInv'
<1> USE DEF DeliveryInv
<1>1. /\ UNCHANGED <<consent, ready, status, attempt, asked, cost, ledger, deadLettered, published>>
      /\ UNCHANGED decision
      /\ busy' = [busy EXCEPT ![s] = [channel |-> c, attempt |-> attempt[c] + 1]]
  BY DEF Take, policyVars, rowVars
<1>2. attempt[c] \in Nat /\ asked[c] \in Nat
  BY DEF RowTypes
<1>3. attempt[c] < MaxAttempts + asked[c]
  BY <1>2, MaxAttemptsPositive DEF Take, Due, RetryInv
<1>4. RowTypes'
  BY <1>1, <1>2 DEF RowTypes
<1>5. BusyInv'
  <2> SUFFICES ASSUME NEW r \in Senders, busy'[r] # Idle
               PROVE  LET d == busy'[r].channel
                      IN  /\ d \in Channels
                          /\ busy'[r].attempt \in 1 .. (attempt[d] + 1)
                          /\ busy'[r].attempt <= MaxAttempts + asked[d]
    BY <1>1 DEF BusyInv
  <2>1. CASE r = s
    <3>1. busy'[r] = [channel |-> c, attempt |-> attempt[c] + 1]
      BY <1>1, <2>1 DEF RowTypes
    <3> QED
      BY <1>2, <1>3, <3>1, MaxAttemptsPositive
  <2>2. CASE r # s
    BY <1>1, <2>2 DEF BusyInv, RowTypes
  <2> QED
    BY <2>1, <2>2
<1>6. published
  BY DEF Take, Due, PublishInv
<1> QED
  BY <1>1, <1>4, <1>5, <1>6 DEF RowMatchesLedger, RetryInv, PublishInv

\* record_attempt: of the attempts in hand at most the next one is recorded.
LEMMA RecordKeeps ==
    ASSUME DeliveryInv, NEW s \in Senders, RecordAttempt(s)
    PROVE  DeliveryInv'
<1> USE DEF DeliveryInv
<1> DEFINE c == busy[s].channel
           n == busy[s].attempt
<1>1. /\ c \in Channels /\ n \in 1 .. (attempt[c] + 1) /\ n <= MaxAttempts + asked[c]
      /\ busy[s] # Idle
  BY DEF RecordAttempt, BusyInv
<1>2. /\ attempt[c] \in Nat /\ asked[c] \in Nat /\ n \in Nat
      /\ DOMAIN ledger[c] = 1 .. attempt[c] /\ cost[c] = attempt[c]
  BY <1>1 DEF RowTypes, RowMatchesLedger
<1>3. /\ busy' = [busy EXCEPT ![s] = Idle]
      /\ UNCHANGED <<published, consent, ready, decision, asked>>
  BY DEF RecordAttempt, policyVars, rowVars
<1>4. \A r \in Senders : busy'[r] # Idle => busy'[r] = busy[r]
  BY <1>3 DEF RowTypes
<1>5. published
  BY <1>1 DEF PublishInv
<1>6. busy' \in [Senders -> [channel : Channels \union {"in_app"}, attempt : Nat]]
  BY <1>3 DEF RowTypes, Idle
<1>7. CASE UNCHANGED rowVars
  <2>1. UNCHANGED <<status, attempt, deadLettered, cost, ledger, asked>>
    BY <1>7 DEF rowVars
  <2>2. RowTypes'
    BY <1>3, <1>6, <2>1 DEF RowTypes
  <2>3. BusyInv'
    BY <1>4, <2>1 DEF BusyInv
  <2>4. RowMatchesLedger' /\ RetryInv'
    BY <2>1 DEF RowMatchesLedger, RetryInv
  <2> QED
    BY <1>3, <1>5, <2>2, <2>3, <2>4 DEF PublishInv
<1>8. ASSUME NEW result \in Results, ~Duplicate(c, n),
             ledger' = [ledger EXCEPT ![c] =
                [i \in DOMAIN @ \union {n} |-> IF i = n THEN Terminal(result, n) ELSE @[i]]],
             status' = [status EXCEPT ![c] = Terminal(result, n)],
             attempt' = [attempt EXCEPT ![c] = n],
             deadLettered' = IF Terminal(result, n) = "DEAD_LETTER"
                             THEN deadLettered \union {c} ELSE deadLettered \ {c},
             cost' = [cost EXCEPT ![c] = @ + 1]
      PROVE  DeliveryInv'
  <2> DEFINE terminal == Terminal(result, n)
  <2>1. n = attempt[c] + 1
    BY <1>1, <1>2, <1>8 DEF Duplicate
  <2>2. /\ terminal \in {"DELIVERED", "RETRYABLE", "FAILED", "DEAD_LETTER"}
        /\ terminal = "RETRYABLE" => n < MaxAttempts
    BY <1>2, MaxAttemptsPositive DEF Terminal, Results
  <2> HIDE DEF terminal
  <2>3. ledger'[c] = [i \in 1 .. n |-> IF i = n THEN terminal ELSE ledger[c][i]]
    <3>1. DOMAIN ledger[c] \union {n} = 1 .. n
      BY <1>2, <2>1
    <3> QED
      BY <1>1, <1>8, <3>1 DEF RowTypes, terminal
  <2>4. ledger'[c] \in Ledgers
    <3>1. PICK m \in Nat : ledger[c] \in [1 .. m -> Statuses]
      BY <1>1 DEF RowTypes, Ledgers
    <3>2. ASSUME NEW i \in 1 .. n, i # n PROVE ledger[c][i] \in Statuses
      <4>1. i \in DOMAIN ledger[c]
        BY <1>2, <2>1, <3>2
      <4> QED
        BY <3>1, <4>1
    <3>3. terminal \in Statuses
      BY <2>2 DEF Statuses, FinalStatuses
    <3>4. ledger'[c] \in [1 .. n -> Statuses]
      BY <2>3, <3>2, <3>3
    <3> QED
      BY <1>2, <3>4 DEF Ledgers
  <2>5. ledger' \in [Channels -> Ledgers]
    BY <1>1, <1>8, <2>4 DEF RowTypes
  <2>6. status' \in [Channels -> Statuses] /\ attempt' \in [Channels -> Nat]
        /\ cost' \in [Channels -> Nat]
    BY <1>1, <1>2, <1>8, <2>2 DEF RowTypes, Statuses, FinalStatuses, terminal
  <2>7. RowTypes'
    BY <1>3, <1>6, <2>5, <2>6 DEF RowTypes
  <2>8. RowMatchesLedger'
    <3> SUFFICES ASSUME NEW d \in Channels
                 PROVE  /\ DOMAIN ledger'[d] = 1 .. attempt'[d]
                        /\ cost'[d] = attempt'[d]
                        /\ attempt'[d] <= MaxAttempts + asked'[d]
                        /\ d \in deadLettered' <=> status'[d] = "DEAD_LETTER"
      BY DEF RowMatchesLedger
    <3>1. CASE d = c
      <4>1. /\ attempt'[d] = n /\ cost'[d] = n /\ asked'[d] = asked[c]
            /\ status'[d] = terminal
        BY <1>2, <1>3, <1>8, <2>1, <3>1 DEF RowTypes, terminal
      <4>2. d \in deadLettered' <=> terminal = "DEAD_LETTER"
        BY <1>8, <3>1 DEF terminal
      <4>3. DOMAIN ledger'[d] = 1 .. n
        BY <2>3, <3>1
      <4> QED
        BY <1>1, <4>1, <4>2, <4>3
    <3>2. CASE d # c
      <4>1. /\ attempt'[d] = attempt[d] /\ cost'[d] = cost[d] /\ asked'[d] = asked[d]
            /\ status'[d] = status[d] /\ ledger'[d] = ledger[d]
        BY <1>3, <1>8, <3>2 DEF RowTypes
      <4>2. d \in deadLettered' <=> d \in deadLettered
        BY <1>8, <3>2
      <4> QED
        BY <4>1, <4>2 DEF RowMatchesLedger
    <3> QED
      BY <3>1, <3>2
  <2>9. BusyInv'
    <3> SUFFICES ASSUME NEW r \in Senders, busy'[r] # Idle
                 PROVE  LET d == busy'[r].channel
                        IN  /\ d \in Channels
                            /\ busy'[r].attempt \in 1 .. (attempt'[d] + 1)
                            /\ busy'[r].attempt <= MaxAttempts + asked'[d]
      BY DEF BusyInv
    <3> DEFINE d == busy[r].channel
    <3>1. /\ busy'[r] = busy[r] /\ d \in Channels /\ asked' = asked
          /\ busy[r].attempt \in 1 .. (attempt[d] + 1)
          /\ busy[r].attempt <= MaxAttempts + asked[d]
      BY <1>3, <1>4 DEF BusyInv
    <3>2. attempt[d] \in Nat /\ attempt'[d] \in Nat /\ attempt[d] <= attempt'[d]
      BY <1>2, <1>8, <2>1, <3>1 DEF RowTypes
    <3> QED
      BY <3>1, <3>2
  <2>10. RetryInv'
    <3> SUFFICES ASSUME NEW d \in Channels
                 PROVE  /\ status'[d] \in {"none", "BLOCKED_CONFIGURATION"} => attempt'[d] = 0
                        /\ status'[d] = "RETRYABLE" => attempt'[d] < MaxAttempts + asked'[d]
      BY DEF RetryInv
    <3>1. CASE d = c
      <4>1. attempt'[d] = n /\ asked'[d] = asked[c] /\ status'[d] = terminal
        BY <1>3, <1>8, <3>1 DEF RowTypes, terminal
      <4> QED
        BY <1>2, <2>2, <4>1, MaxAttemptsPositive
    <3>2. CASE d # c
      <4>1. attempt'[d] = attempt[d] /\ asked'[d] = asked[d] /\ status'[d] = status[d]
        BY <1>3, <1>8, <3>2 DEF RowTypes
      <4> QED
        BY <4>1 DEF RetryInv
    <3> QED
      BY <3>1, <3>2
  <2> QED
    BY <1>3, <1>5, <2>7, <2>8, <2>9, <2>10 DEF PublishInv
<1> QED
  BY <1>7, <1>8 DEF RecordAttempt

\* accept_verified_callback: a dead letter stays one, and a callback that asks
\* for a retry pays for it in the bound.
LEMMA CallbackKeeps ==
    ASSUME DeliveryInv, NEW c \in Channels, AcceptVerifiedCallback(c)
    PROVE  DeliveryInv'
<1> USE DEF DeliveryInv
<1>1. /\ UNCHANGED <<published, consent, ready, decision, attempt, deadLettered, cost, ledger>>
      /\ UNCHANGED <<busy, sent>>
  BY DEF AcceptVerifiedCallback, policyVars
<1>2. \A d \in Channels : attempt[d] \in Nat /\ asked[d] \in Nat
  BY DEF RowTypes
<1>3. CASE UNCHANGED <<status, asked>>
  BY <1>1, <1>3 DEF RowTypes, RowMatchesLedger, BusyInv, RetryInv, PublishInv
<1>4. ASSUME NEW result \in Results, Open(c), status' = [status EXCEPT ![c] = result],
             asked' = [asked EXCEPT ![c] = IF result = "RETRYABLE" THEN @ + 1 ELSE @]
      PROVE  DeliveryInv'
  <2>1. /\ status' \in [Channels -> Statuses] /\ asked' \in [Channels -> Nat]
        /\ \A d \in Channels : asked[d] <= asked'[d]
        /\ result = "RETRYABLE" => asked'[c] = asked[c] + 1
        /\ status'[c] = result /\ \A d \in Channels : d # c => status'[d] = status[d]
    BY <1>2, <1>4 DEF RowTypes, Results, Statuses, FinalStatuses
  <2>2. RowTypes'
    BY <1>1, <2>1 DEF RowTypes
  <2>3. result # "DEAD_LETTER" /\ status[c] # "DEAD_LETTER"
    BY <1>4 DEF Results, Open
  <2>4. \A d \in Channels : attempt[d] <= MaxAttempts + asked'[d]
    BY <1>2, <2>1, MaxAttemptsPositive DEF RowMatchesLedger
  <2>5. RowMatchesLedger'
    BY <1>1, <2>1, <2>3, <2>4 DEF RowMatchesLedger
  <2>6. BusyInv'
    <3> SUFFICES ASSUME NEW s \in Senders, busy[s] # Idle
                 PROVE  LET d == busy[s].channel
                        IN  /\ d \in Channels
                            /\ busy[s].attempt \in 1 .. (attempt[d] + 1)
                            /\ busy[s].attempt <= MaxAttempts + asked'[d]
      BY <1>1 DEF BusyInv
    <3>1. /\ busy[s].channel \in Channels /\ busy[s].attempt \in Nat
          /\ busy[s].attempt \in 1 .. (attempt[busy[s].channel] + 1)
          /\ busy[s].attempt <= MaxAttempts + asked[busy[s].channel]
      BY DEF BusyInv, RowTypes
    <3> QED
      BY <1>2, <2>1, <3>1, MaxAttemptsPositive
  <2>7. RetryInv'
    <3> SUFFICES ASSUME NEW d \in Channels
                 PROVE  /\ status'[d] \in {"none", "BLOCKED_CONFIGURATION"} => attempt[d] = 0
                        /\ status'[d] = "RETRYABLE" => attempt[d] < MaxAttempts + asked'[d]
      BY <1>1 DEF RetryInv
    <3>1. CASE d = c
      <4>1. attempt[c] <= MaxAttempts + asked[c]
        BY DEF RowMatchesLedger
      <4> QED
        BY <1>2, <2>1, <3>1, <4>1, MaxAttemptsPositive DEF Results
    <3>2. CASE d # c
      BY <1>2, <2>1, <3>2, MaxAttemptsPositive DEF RetryInv
    <3> QED
      BY <3>1, <3>2
  <2>8. published
    BY DEF PublishInv, AcceptVerifiedCallback
  <2> QED
    BY <1>1, <2>2, <2>5, <2>6, <2>7, <2>8 DEF PublishInv
<1> QED
  BY <1>3, <1>4 DEF AcceptVerifiedCallback

LEMMA NextDeliveryInv == DeliveryInv /\ [Next]_vars => DeliveryInv'
<1> SUFFICES ASSUME DeliveryInv, [Next]_vars PROVE DeliveryInv'
  OBVIOUS
<1>1. CASE PublishInApp
  BY <1>1, PublishKeeps
<1>2. ASSUME NEW c \in Channels, ChangeConsent(c) PROVE DeliveryInv'
  <2>1. /\ UNCHANGED <<published, decision, busy, sent>>
        /\ UNCHANGED <<status, attempt, asked, deadLettered, cost, ledger>>
        /\ consent' \subseteq Channels /\ ready' \subseteq Channels
    BY <1>2 DEF ChangeConsent, rowVars, DeliveryInv, RowTypes
  <2> QED
    BY <2>1 DEF DeliveryInv, RowTypes, RowMatchesLedger, BusyInv, RetryInv, PublishInv
<1>3. ASSUME NEW c \in Channels, AcceptVerifiedCallback(c) PROVE DeliveryInv'
  BY <1>3, CallbackKeeps
<1>4. ASSUME NEW s \in Senders, RecordAttempt(s) PROVE DeliveryInv'
  BY <1>4, RecordKeeps
<1>5. ASSUME NEW s \in Senders, Crash(s) PROVE DeliveryInv'
  <2>1. /\ UNCHANGED <<published, decision, consent, ready, sent>>
        /\ UNCHANGED <<status, attempt, asked, deadLettered, cost, ledger>>
        /\ busy' = [busy EXCEPT ![s] = Idle]
    BY <1>5 DEF Crash, rowVars, policyVars
  <2>2. busy' \in [Senders -> [channel : Channels \union {"in_app"}, attempt : Nat]]
        /\ \A r \in Senders : busy'[r] # Idle => busy'[r] = busy[r]
    BY <2>1 DEF DeliveryInv, RowTypes, Idle
  <2>3. RowTypes'
    BY <2>1, <2>2 DEF DeliveryInv, RowTypes
  <2>4. BusyInv'
    BY <2>1, <2>2 DEF DeliveryInv, BusyInv
  <2>5. PublishInv'
    BY <2>1, <2>2 DEF DeliveryInv, PublishInv
  <2> QED
    BY <2>1, <2>3, <2>4, <2>5 DEF DeliveryInv, RowMatchesLedger, RetryInv
<1>6. ASSUME NEW s \in Senders, NEW c \in Channels, Take(s, c) PROVE DeliveryInv'
  BY <1>6, TakeKeeps
<1>7. CASE UNCHANGED vars
  BY <1>7 DEF vars, policyVars, rowVars, DeliveryInv, RowTypes, RowMatchesLedger, BusyInv,
              RetryInv, PublishInv
<1> QED
  BY <1>1, <1>2, <1>3, <1>4, <1>5, <1>6, <1>7 DEF Next

\* The tables keep their types.
THEOREM TypeCorrect == Spec => []TypeOK
<1>1. DeliveryInv => TypeOK
  BY DEF DeliveryInv, RowTypes, Statuses, TypeOK
<1> QED
  BY <1>1, InitDeliveryInv, NextDeliveryInv, PTL DEF Spec

\* The delivery row tells what the append-only ledger tells, and attempts are
\* bounded by max_attempts and the callbacks that asked for another, for any
\* number of senders that duplicate and crash and callbacks in any order.
THEOREM RowMatchesLedgerHolds == Spec => []RowMatchesLedger
<1>1. DeliveryInv => RowMatchesLedger
  BY DEF DeliveryInv
<1> QED
  BY <1>1, InitDeliveryInv, NextDeliveryInv, PTL DEF Spec

-----------------------------------------------------------------------------
(* Deferral.                                                               *)

PrefTypes ==
    pref \in [Channels -> [enabled : BOOLEAN, digest : BOOLEAN, quiet : Quiet,
                           bypass : BOOLEAN, zone : Zone]]

LEMMA PublishDefers ==
    ASSUME PrefTypes, PublishInApp
    PROVE  DeferredToEndOfQuiet'
<1> SUFFICES ASSUME NEW c \in Channels, decision'[c].status = "DEFERRED_QUIET_HOURS"
             PROVE  LET d == decision'[c]
                        q == pref'[c].quiet
                        z == pref'[c].zone
                    IN  /\ (d.made < z.at <=> d.at < z.at) =>
                              /\ d.made < d.at /\ ~InQuiet(q, Local(z, d.at))
                              /\ \A t \in d.made .. (d.at - 1) : InQuiet(q, Local(z, t))
                        /\ d.made < d.at + (IF z.by < 0 THEN -z.by ELSE 0)
                        /\ d.at <= d.made + DayLength + (IF z.by < 0 THEN -z.by ELSE z.by)
  BY DEF DeferredToEndOfQuiet, QuietAt
<1>1. PICK t \in Hours, severity \in {"warning", "critical"} :
          decision' = [x \in Channels |-> EvaluateDeliveryPolicy(x, t, severity)]
  BY DEF PublishInApp
<1>2. t \in Nat /\ pref[c].quiet \in Quiet /\ pref[c].zone \in Zone /\ pref' = pref
  BY DEF Hours, PrefTypes, PublishInApp
<1> DEFINE r == Local(pref[c].zone, t)
<1>3. /\ InQuiet(pref[c].quiet, r)
      /\ decision'[c] = [status |-> "DEFERRED_QUIET_HOURS", made |-> t,
                         at |-> ToUtc(pref[c].zone, QuietEnd(pref[c].quiet, r))]
  BY <1>1 DEF EvaluateDeliveryPolicy
<1>4. decision'[c].made = t /\ decision'[c].at = ToUtc(pref[c].zone, QuietEnd(pref[c].quiet, r))
  BY <1>3
<1> QED
  BY <1>2, <1>3, <1>4, DeferralOnTheClock

\* A deferral ends at the first hour after the event that is not quiet on the
\* recipient's clock, unless the clock changes in between, and is never off by
\* more than the change: for any length of the day, quiet hours over midnight
\* too, and any clock change (_quiet_end).
THEOREM DeferredToEndOfQuietHolds == Spec => []DeferredToEndOfQuiet
<1>1. Init => PrefTypes /\ DeferredToEndOfQuiet
  BY NotificationsAssumption DEF Init, PrefTypes, DeferredToEndOfQuiet
<1>2. ASSUME PrefTypes, DeferredToEndOfQuiet, [Next]_vars
      PROVE  PrefTypes' /\ DeferredToEndOfQuiet'
  <2>1. pref' = pref
    BY <1>2 DEF Next, PublishInApp, ChangeConsent, AcceptVerifiedCallback, RecordAttempt, Crash,
                Take, policyVars, vars
  <2>2. PublishInApp \/ decision' = decision
    BY <1>2 DEF Next, PublishInApp, ChangeConsent, AcceptVerifiedCallback, RecordAttempt, Crash,
                Take, policyVars, vars
  <2>3. CASE decision' = decision
    BY <1>2, <2>1, <2>3 DEF PrefTypes, DeferredToEndOfQuiet, QuietAt
  <2> QED
    BY <1>2, <2>1, <2>2, <2>3, PublishDefers DEF PrefTypes
<1> QED
  BY <1>1, <1>2, PTL DEF Spec

-----------------------------------------------------------------------------
(* Dead letters.                                                           *)

\* Whatever a sender still has in hand of a dead letter is recorded already.
DeadInv ==
    \A c \in Channels : status[c] = "DEAD_LETTER" =>
        \A s \in Senders : busy[s].channel = c => busy[s].attempt <= attempt[c]

DeadStays == \A c \in Channels : status[c] = "DEAD_LETTER" => status'[c] = "DEAD_LETTER"

LEMMA RecordKeepsDead ==
    ASSUME DeliveryInv, DeadInv, NEW s \in Senders, RecordAttempt(s)
    PROVE  DeadInv' /\ DeadStays
<1> DEFINE d == busy[s].channel
           n == busy[s].attempt
<1>1. /\ d \in Channels /\ n \in 1 .. (attempt[d] + 1) /\ attempt[d] \in Nat
      /\ DOMAIN ledger[d] = 1 .. attempt[d]
  BY DEF RecordAttempt, DeliveryInv, BusyInv, RowTypes, RowMatchesLedger
<1>2. \A x \in Senders : /\ busy[x].attempt \in Nat
                         /\ busy[x].channel = d => busy[x].attempt <= attempt[d] + 1
  <2>1. ASSUME NEW x \in Senders, busy[x].channel = d PROVE busy[x].attempt <= attempt[d] + 1
    <3>1. busy[x] # Idle
      BY <1>1, <2>1, MaxAttemptsPositive DEF Idle
    <3> QED
      BY <1>1, <2>1, <3>1 DEF DeliveryInv, BusyInv
  <2> QED
    BY <2>1 DEF DeliveryInv, RowTypes
<1>3. \A x \in Senders : busy'[x] = IF x = s THEN Idle ELSE busy[x]
  BY DEF RecordAttempt, DeliveryInv, RowTypes
<1>4. Idle.channel \notin Channels
  BY MaxAttemptsPositive DEF Idle
<1>5. CASE UNCHANGED rowVars
  <2>1. UNCHANGED <<status, attempt>>
    BY <1>5 DEF rowVars
  <2> QED
    BY <1>3, <1>4, <2>1 DEF DeadInv, DeadStays
<1>6. CASE ~Duplicate(d, n)
  <2>1. n = attempt[d] + 1
    BY <1>1, <1>6 DEF Duplicate
  <2>2. status[d] # "DEAD_LETTER"
    BY <1>1, <2>1 DEF DeadInv
  <2>3. /\ \A c \in Channels \ {d} : status'[c] = status[c] /\ attempt'[c] = attempt[c]
        /\ attempt'[d] = n
    BY <1>1, <1>6 DEF RecordAttempt, DeliveryInv, RowTypes
  <2>4. ASSUME NEW c \in Channels, status'[c] = "DEAD_LETTER",
               NEW x \in Senders, busy'[x].channel = c
        PROVE  busy'[x].attempt <= attempt'[c]
    <3>1. busy'[x] = busy[x]
      BY <1>3, <1>4, <2>4
    <3>2. CASE c = d
      BY <1>2, <2>1, <2>3, <2>4, <3>1, <3>2
    <3>3. CASE c # d
      BY <2>3, <2>4, <3>1, <3>3 DEF DeadInv
    <3> QED
      BY <3>2, <3>3
  <2> QED
    BY <2>2, <2>3, <2>4 DEF DeadInv, DeadStays
<1> QED
  BY <1>5, <1>6 DEF RecordAttempt

LEMMA DeadStep ==
    ASSUME DeliveryInv, DeadInv, [Next]_vars
    PROVE  DeadInv' /\ DeadStays
<1>1. CASE PublishInApp
  <2>1. UNCHANGED <<attempt, busy>>
    BY <1>1 DEF PublishInApp
  <2>2. \A c \in Channels : status'[c] = "DEAD_LETTER" <=> status[c] = "DEAD_LETTER"
    BY <1>1 DEF PublishInApp, DeliveryInv, PublishInv
  <2> QED
    BY <2>1, <2>2 DEF DeadInv, DeadStays
<1>2. ASSUME NEW c \in Channels, AcceptVerifiedCallback(c) PROVE DeadInv' /\ DeadStays
  <2>1. UNCHANGED <<attempt, busy>>
    BY <1>2 DEF AcceptVerifiedCallback
  <2>2. \/ status' = status
        \/ Open(c) /\ \E result \in Results : status' = [status EXCEPT ![c] = result]
    BY <1>2 DEF AcceptVerifiedCallback
  <2>3. \A d \in Channels : status'[d] = "DEAD_LETTER" <=> status[d] = "DEAD_LETTER"
    BY <2>2 DEF Open, Results, DeliveryInv, RowTypes
  <2> QED
    BY <2>1, <2>3 DEF DeadInv, DeadStays
<1>3. ASSUME NEW s \in Senders, NEW c \in Channels, Take(s, c) PROVE DeadInv' /\ DeadStays
  <2>1. UNCHANGED <<status, attempt>> /\ status[c] # "DEAD_LETTER"
    BY <1>3 DEF Take, Due, rowVars
  <2>2. \A x \in Senders : busy'[x] = busy[x] \/ busy'[x].channel = c
    BY <1>3 DEF Take, DeliveryInv, RowTypes
  <2> QED
    BY <2>1, <2>2 DEF DeadInv, DeadStays
<1>4. ASSUME NEW s \in Senders, Crash(s) PROVE DeadInv' /\ DeadStays
  <2>1. UNCHANGED <<status, attempt>>
    BY <1>4 DEF Crash, rowVars
  <2>2. \A x \in Senders : busy'[x] = busy[x] \/ busy'[x].channel \notin Channels
    BY <1>4, MaxAttemptsPositive DEF Crash, Idle, DeliveryInv, RowTypes
  <2> QED
    BY <2>1, <2>2 DEF DeadInv, DeadStays
<1>5. CASE UNCHANGED <<rowVars, busy>>
  BY <1>5 DEF rowVars, DeadInv, DeadStays
<1> QED
  BY <1>1, <1>2, <1>3, <1>4, <1>5, RecordKeepsDead DEF Next, ChangeConsent, vars

\* A dead letter stays one, for any senders that duplicate, crash and overtake
\* each other and callbacks in any order: the other final statuses do not.
THEOREM DeadLetterIsFinalHolds == Spec => DeadLetterIsFinal
<1>1. Init => DeadInv
  BY DEF Init, DeadInv
<1>2. DeadStays => \A c \in Channels : status[c] = "DEAD_LETTER" => status'[c] = "DEAD_LETTER"
  BY DEF DeadStays
<1> QED
  BY <1>1, <1>2, DeadStep, InitDeliveryInv, NextDeliveryInv, PTL DEF Spec, DeadLetterIsFinal

=============================================================================
