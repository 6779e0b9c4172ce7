--------------------------- MODULE Notifications ---------------------------
(***************************************************************************)
(* One internal event on its way to its recipients:                        *)
(*                                                                         *)
(*   services/notifications/router.py     publish_in_app                   *)
(*   services/notifications/policy.py     preference, quiet hours, decision*)
(*   services/notifications/consent.py, provider_readiness.py, templates.py*)
(*   services/notifications/delivery.py   attempts and provider callbacks  *)
(*                                                                         *)
(* publish_in_app, record_attempt and accept_verified_callback are one     *)
(* transaction each, and their first insert serialises two calls with the  *)
(* same key, so each is one step.  The repository has no loop that sends:  *)
(* Take, Crash and the provider are external, modelled from the arguments  *)
(* record_attempt wants (the attempt after the recorded one, a key made of *)
(* delivery and attempt, the policy decision ELIGIBLE); they do not ask    *)
(* next_attempt_at, which a callback does not set.  Times are hours, or    *)
(* parts of one, since a midnight; every attempt costs 1.                  *)
(***************************************************************************)
EXTENDS Integers

CONSTANTS
    Channels,       \* external channels; "in_app" is not one of them
    Preferences,    \* rows of notification_route_preference that may exist
    DayLength,      \* hours of a day
    MaxAttempts,    \* notification_delivery.max_attempts
    Callbacks,      \* provider callback ids
    Senders,
    MaxChanges,     \* bound: changes of consent and readiness, republications
    MaxCrashes      \* bound: senders lost between sending and recording

Hours == 0 .. (2 * DayLength - 1)
NoTime == 4 * DayLength
Midnight(r) == (r \div DayLength) * DayLength
Quiet == [start : 0 .. (DayLength - 1), end : 0 .. (DayLength - 1)]

\* A timezone by its next clock change: at that time the clocks go `by` hours
\* forward, or back if negative.
Zone == {z \in [at : Nat, by : Int] : z.at + z.by \in Nat}

ASSUME NotificationsAssumption ==
    /\ DayLength \in Nat \ {0} /\ MaxAttempts \in Nat \ {0}
    /\ MaxChanges \in Nat /\ MaxCrashes \in Nat
    /\ "in_app" \notin Channels
    \* _validate: no quiet hours is start = end
    /\ Preferences \subseteq [enabled : BOOLEAN, digest : BOOLEAN, quiet : Quiet,
                              bypass : BOOLEAN, zone : Zone]

VARIABLES
    published,  \* the alert, its event and its deliveries exist
    pref,       \* effective preference of each channel
    consent,    \* channels with effective consent
    ready,      \* channels with a READY provider and an approved template
    changes,
    decision,   \* notification_delivery.policy_decision and eligible_at; for a
                \* deferred one also the time of the event
    status, attempt, retryEligible, deadLettered, cost,
    ledger,     \* notification_delivery_attempt: outcomes by attempt
    heard,      \* notification_callback_event: ids accepted, by channel
    asked,      \* callbacks that asked for a retry, by channel
    busy,       \* sender: channel and attempt in hand
    sent,       \* channels whose provider has had something to send
    crashes

policyVars == <<published, pref, consent, ready, changes, decision>>
rowVars == <<status, attempt, retryEligible, deadLettered, cost, ledger, heard, asked>>
vars == <<policyVars, rowVars, busy, sent, crashes>>

Idle == [channel |-> "in_app", attempt |-> 0]
Results == {"DELIVERED", "RETRYABLE", "FAILED"}
FinalStatuses == {"DELIVERED", "FAILED", "DEAD_LETTER"}

Init ==
    /\ published = FALSE
    /\ pref \in [Channels -> Preferences]
    /\ consent \in SUBSET Channels /\ ready \in SUBSET Channels
    /\ changes = 0
    /\ decision = [c \in Channels |-> [status |-> "none", at |-> NoTime, made |-> 0]]
    /\ status = [c \in Channels |-> "none"]
    /\ attempt = [c \in Channels |-> 0]
    /\ retryEligible = {} /\ deadLettered = {}
    /\ cost = [c \in Channels |-> 0]
    /\ ledger = [c \in Channels |-> <<>>]
    /\ heard = [c \in Channels |-> {}]
    /\ asked = [c \in Channels |-> 0]
    /\ busy = [s \in Senders |-> Idle]
    /\ sent = {} /\ crashes = 0

-----------------------------------------------------------------------------
(* Policy.                                                                 *)

\* astimezone(zone): what the clock shows
Local(z, t) == IF t < z.at THEN t ELSE t + z.by

\* combine(date, end, tzinfo=zone).astimezone(utc), with fold 0: of a reading
\* the clock shows twice the first, and one it skips by the clock before
ToUtc(z, r) == IF r < z.at + (IF z.by > 0 THEN z.by ELSE 0) THEN r ELSE r - z.by

\* of a reading of the clock
InQuiet(q, r) ==
    LET hour == r % DayLength
    IN  IF q.start < q.end THEN q.start <= hour /\ hour < q.end
        ELSE q.start > q.end /\ (hour >= q.start \/ hour < q.end)

\* mutant: the night ends on the day it began
QuietEnd_SameDay(q, r) == Midnight(r) + q.end

\* _quiet_end up to its conversion, for a reading within quiet hours
QuietEnd(q, r) ==
    IF q.start > q.end /\ r % DayLength >= q.start
    THEN Midnight(r) + DayLength + q.end ELSE Midnight(r) + q.end

\* load_effective_consent and load_provider_ready are read at this moment
EvaluateDeliveryPolicy(c, t, severity) ==
    LET p == pref[c]
        r == Local(p.zone, t)
        Is(s) == [status |-> s, at |-> NoTime, made |-> 0]
    IN  IF ~p.enabled THEN Is("BLOCKED_DISABLED")
        ELSE IF c \notin consent THEN Is("BLOCKED_CONSENT")
        ELSE IF c \notin ready THEN Is("BLOCKED_CONFIGURATION")
        ELSE IF InQuiet(p.quiet, r) /\ ~(severity = "critical" /\ p.bypass)
        THEN [status |-> "DEFERRED_QUIET_HOURS", made |-> t,
              at |-> ToUtc(p.zone, QuietEnd(p.quiet, r))]
        ELSE IF p.digest THEN Is("QUEUED_DIGEST")
        ELSE Is("ELIGIBLE")

\* publish_in_app: the alert and its deliveries are inserted once (the
\* trigger of migration 0034); every call decides anew, also a repeated one
PublishInApp ==
    /\ ~published \/ changes < MaxChanges
    /\ changes' = IF published THEN changes + 1 ELSE changes
    /\ published' = TRUE
    /\ status' = IF published THEN status ELSE [c \in Channels |-> "BLOCKED_CONFIGURATION"]
    /\ \E t \in Hours, severity \in {"warning", "critical"} :
         decision' = [c \in Channels |-> EvaluateDeliveryPolicy(c, t, severity)]
    /\ UNCHANGED <<pref, consent, ready, attempt, retryEligible, deadLettered, cost, ledger,
                   heard, asked, busy, sent, crashes>>

\* the recipient grants or revokes, the provider becomes ready or expires
ChangeConsent(c) ==
    /\ changes < MaxChanges /\ changes' = changes + 1
    /\ \/ consent' = (consent \ {c}) \union ({c} \ consent) /\ UNCHANGED ready
       \/ ready' = (ready \ {c}) \union ({c} \ ready) /\ UNCHANGED consent
    /\ UNCHANGED <<published, pref, decision, rowVars, busy, sent, crashes>>

-----------------------------------------------------------------------------
(* Delivery.                                                               *)

Due(c) ==
    /\ decision[c].status = "ELIGIBLE"
    /\ status[c] = "BLOCKED_CONFIGURATION" \/ (status[c] = "RETRYABLE" /\ c \in retryEligible)

\* external: a sender takes a due delivery and calls its adapter
Take(s, c) ==
    /\ busy[s] = Idle /\ Due(c)
    /\ busy' = [busy EXCEPT ![s] = [channel |-> c, attempt |-> attempt[c] + 1]]
    /\ sent' = sent \union {c}
    /\ UNCHANGED <<policyVars, rowVars, crashes>>

Terminal(result, n) ==
    IF result = "RETRYABLE" /\ n >= MaxAttempts THEN "DEAD_LETTER" ELSE result

\* mutant: a duplicate key does not end the call
Duplicate_Ignored(c, n) == FALSE

\* the insert finds its idempotency key taken: nothing else is written
Duplicate(c, n) == n \in DOMAIN ledger[c]

Eligible(terminal) == terminal = "RETRYABLE"

RecordAttempt(s) ==
    /\ busy[s] # Idle
    /\ LET c == busy[s].channel
           n == busy[s].attempt
       IN  \E result \in Results :
             LET terminal == Terminal(result, n)
             IN  IF Duplicate(c, n) THEN UNCHANGED rowVars
                 ELSE /\ ledger' = [ledger EXCEPT ![c] =
                            [i \in DOMAIN @ \union {n} |-> IF i = n THEN terminal ELSE @[i]]]
                      /\ status' = [status EXCEPT ![c] = terminal]
                      /\ attempt' = [attempt EXCEPT ![c] = n]
                      /\ retryEligible' = IF Eligible(terminal) THEN retryEligible \union {c}
                                                                ELSE retryEligible \ {c}
                      /\ deadLettered' = IF terminal = "DEAD_LETTER"
                                         THEN deadLettered \union {c} ELSE deadLettered \ {c}
                      /\ cost' = [cost EXCEPT ![c] = @ + 1]
                      /\ UNCHANGED <<heard, asked>>
    /\ busy' = [busy EXCEPT ![s] = Idle]
    /\ UNCHANGED <<policyVars, sent, crashes>>

\* external: the sender dies after it has sent
Crash(s) ==
    /\ busy[s] # Idle /\ crashes < MaxCrashes
    /\ crashes' = crashes + 1
    /\ busy' = [busy EXCEPT ![s] = Idle]
    /\ UNCHANGED <<policyVars, rowVars, sent>>

\* where ... status <> 'DEAD_LETTER'
Open(c) == status[c] # "DEAD_LETTER"

\* A message of the provider, of something sent to it whether that was recorded
\* or not, in any order and possibly repeated: a known id changes nothing.
AcceptVerifiedCallback(c) ==
    \E id \in Callbacks \ heard[c], result \in Results :
        /\ c \in sent
        /\ heard' = [heard EXCEPT ![c] = @ \union {id}]
        /\ IF Open(c)
           THEN /\ status' = [status EXCEPT ![c] = result]
                /\ retryEligible' = IF result = "RETRYABLE" THEN retryEligible \union {c}
                                                            ELSE retryEligible \ {c}
                /\ asked' = [asked EXCEPT ![c] = IF result = "RETRYABLE" THEN @ + 1 ELSE @]
           ELSE UNCHANGED <<status, retryEligible, asked>>
        /\ UNCHANGED <<policyVars, attempt, deadLettered, cost, ledger, busy, sent, crashes>>

Next ==
    \/ PublishInApp
    \/ \E c \in Channels : ChangeConsent(c) \/ AcceptVerifiedCallback(c)
    \/ \E s \in Senders : RecordAttempt(s) \/ Crash(s) \/ \E c \in Channels : Take(s, c)

Spec == Init /\ [][Next]_vars

-----------------------------------------------------------------------------
(* Properties.                                                             *)

\* The tables keep their types.
TypeOK ==
    /\ consent \subseteq Channels /\ ready \subseteq Channels
    /\ status \in [Channels -> FinalStatuses \union {"none", "RETRYABLE", "BLOCKED_CONFIGURATION"}]

\* The delivery row tells what the append-only ledger tells: attempts are
\* numbered without a gap, the row counts them and has paid for each once,
\* whatever senders duplicate, however they crash and whatever callbacks say
\* (record_attempt: "duplicate attempts are safe").  There are at most
\* max_attempts of them, and one more for every callback that asked for it.
\* dead_lettered_at is set exactly for a DEAD_LETTER, as the check constraint of
\* migration 0055 demands: a callback that took a dead letter back breaks it.
RowMatchesLedger ==
    \A c \in Channels :
        /\ DOMAIN ledger[c] = 1 .. attempt[c]
        /\ cost[c] = attempt[c]
        /\ attempt[c] <= MaxAttempts + asked[c]
        /\ c \in deadLettered <=> status[c] = "DEAD_LETTER"

\* A time at which the recipient's clock shows a quiet hour.
QuietAt(c, t) == InQuiet(pref[c].quiet, Local(pref[c].zone, t))

\* A deferred delivery becomes eligible at the first hour after the event that
\* is not quiet on the recipient's clock, over midnight too, if the clocks do
\* not change between the two; and if they do, it is neither further before
\* the event than they go back nor later than a day and the change after it
\* (_quiet_end).
DeferredToEndOfQuiet ==
    \A c \in Channels : decision[c].status = "DEFERRED_QUIET_HOURS" =>
        LET d == decision[c]
            z == pref[c].zone
        IN  /\ (d.made < z.at <=> d.at < z.at) =>
                  /\ d.made < d.at /\ ~QuietAt(c, d.at)
                  /\ \A t \in d.made .. (d.at - 1) : QuietAt(c, t)
            /\ d.made < d.at + (IF z.by < 0 THEN -z.by ELSE 0)
            /\ d.at <= d.made + DayLength + (IF z.by < 0 THEN -z.by ELSE z.by)

\* Refuted (notifications_clock.cfg): a deferral lies after its event.  In the
\* hour the clock shows twice, the end of the quiet hours is looked up in the
\* first pass also for an event of the second.
DeferredPastEvent ==
    \A c \in Channels : decision[c].status = "DEFERRED_QUIET_HOURS" =>
        decision[c].made < decision[c].at

\* A final status is final (FINAL_STATUSES of delivery.py); a late callback
\* or the record of an attempt made before the callback overwrites it.
FinalStatusIsFinal ==
    [][\A c \in Channels : status[c] \in FinalStatuses => status'[c] = status[c]]_vars

\* What the code does protect: a dead letter stays one.  Callbacks leave it
\* alone, and no attempt in hand can come after the one that made it.
DeadLetterIsFinal ==
    [][\A c \in Channels : status[c] = "DEAD_LETTER" => status'[c] = "DEAD_LETTER"]_vars
=============================================================================
