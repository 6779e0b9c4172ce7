--------------------------- MODULE BidGuardrails ---------------------------
(***************************************************************************)
(* The guardrails of a bid change, which every change passes twice:        *)
(*                                                                         *)
(*   services/rules/compiler.py     resolve_action: the rule's target      *)
(*   services/rules/guardrails.py   check: at proposal time                *)
(*   services/actions/apply_guardrails.py  validate_apply_guardrails:      *)
(*                                  check again, in the run that writes    *)
(*                                                                         *)
(* with the tenant settings, the day and the changes of other entities     *)
(* moving in between.  One entity, one open proposal; what surrounds it is *)
(* ActionPipeline's.  Only set_bid is modelled: no other change may be     *)
(* approved, and a diagnostic is never applied.                            *)
(*                                                                         *)
(* Bids are in cents.  Limits are computed in hundredths of a cent (Fine), *)
(* the unit in which integer percentages of cents are integers.  The code  *)
(* computes in binary floating point, so what it does at exact equality is *)
(* left open: a tie rounds to either neighbour, and a value that is equal  *)
(* to its percentage limit may or may not count as beyond it.              *)
(***************************************************************************)
EXTENDS Integers

CONSTANTS Settings,   \* rows of tenant_settings (see SettingsType)
          StartBids,  \* bids the entity may start with
          RuleOps,    \* action_jsonb of the rules: [op, by]
          Metrics,    \* what a rule run sees: [clicks, impressions, evaluated, matched]
          MinClicks,  \* rule.min_clicks
          MinImpressions,
          LoadAges,   \* hours since the data was loaded, when a rule runs
          None,       \* no settings
          MaxEvents   \* bound: settings changes, days, changes elsewhere

\* _validated_values
SettingsType(c) ==
    /\ c.enabled \in BOOLEAN
    /\ c.pct \in 1 .. 100
    /\ c.cooldown \in 0 .. 90
    /\ c.maxChanges \in Nat
    /\ c.blastPct \in 1 .. 100
    /\ c.minBid \in Nat
    /\ c.maxBid \in Nat /\ c.minBid <= c.maxBid
    /\ c.maxAge \in 1 .. 720
    /\ c.lag \in 0 .. 30

ASSUME GuardrailAssumption ==
    /\ \A c \in Settings : SettingsType(c)
    /\ None \notin Settings
    /\ StartBids \subseteq Nat
    /\ \A o \in RuleOps : o.by \in Int
    /\ \A m \in Metrics : /\ m.clicks \in Nat /\ m.impressions \in Nat
                          /\ m.evaluated \in Nat /\ m.matched \in Nat
    /\ MinClicks \in Nat /\ MinImpressions \in Nat
    /\ LoadAges \subseteq Nat
    /\ MaxEvents \in Nat

VARIABLES
    cfg,       \* tenant_settings
    bid,       \* the bid at Amazon
    status,    \* of the open proposal
    before, after,  \* its before_value and after_value
    evidence,  \* its metrics_snapshot: Metrics with the age of the data
    sinceApplied,  \* days since this entity was changed; -1 for never
    changes,   \* v_changes_today
    pinned,    \* the settings a worker run has read and checked the approved
               \* proposal against; None while no run is about to write it
    events,
    \* history: the settings the proposal was made under, and whether
    \* anything has moved since
    proposedUnder, moved

rowVars == <<status, before, after, evidence, proposedUnder>>
vars == <<cfg, bid, rowVars, sinceApplied, changes, pinned, events, moved>>

-----------------------------------------------------------------------------
(* Arithmetic *)

Fine(c) == 100 * c

\* round(v, 2): v in hundredths of a cent
Round(v) ==
    IF v % 100 = 50 THEN {v \div 100, v \div 100 + 1} ELSE {(v + 50) \div 100}

\* resolve_action; "add_pct" is "multiply" without its range check
Targets(o, current) ==
    IF o.op = "multiply" THEN IF o.by \in 10 .. 300 THEN Round(current * o.by) ELSE {}
    ELSE IF o.op = "add_pct" THEN Round(current * (100 + o.by))
    ELSE IF o.op = "add" THEN {current + o.by}
    ELSE {o.by}

Lowest(b, c) == b * (100 - c.pct)
Highest(b, c) == b * (100 + c.pct)

\* Mutant: the percentage is taken of the wanted value
ClampChange_OfTarget(b, v, c) ==
    IF b <= 0 THEN {[v |-> v, clamped |-> FALSE]}
    ELSE IF v - Fine(b) > (v * c.pct) \div 100
         THEN {[v |-> Fine(b) + (v * c.pct) \div 100, clamped |-> TRUE]}
    ELSE IF v < Lowest(b, c) THEN {[v |-> Lowest(b, c), clamped |-> TRUE]}
    ELSE {[v |-> v, clamped |-> FALSE]}

\* clamp_change
ClampChange(b, v, c) ==
    IF b <= 0 THEN {[v |-> v, clamped |-> FALSE]}
    ELSE IF v > Highest(b, c) THEN {[v |-> Highest(b, c), clamped |-> TRUE]}
    ELSE IF v < Lowest(b, c) THEN {[v |-> Lowest(b, c), clamped |-> TRUE]}
    ELSE IF v \in {Lowest(b, c), Highest(b, c)}
         THEN {[v |-> v, clamped |-> x] : x \in BOOLEAN}
    ELSE {[v |-> v, clamped |-> FALSE]}

\* apply_bounds, on what clamp_change returned
ApplyBounds(d, c) ==
    IF d.v < Fine(c.minBid) THEN [v |-> Fine(c.minBid), clamped |-> TRUE]
    ELSE IF d.v > Fine(c.maxBid) THEN [v |-> Fine(c.maxBid), clamped |-> TRUE]
    ELSE d

\* step 9 of check: clamp, then bounds, then round
Magnitude(b, a, c) ==
    UNION {{[value |-> w, clamped |-> ApplyBounds(d, c).clamped] : w \in Round(ApplyBounds(d, c).v)} :
              d \in ClampChange(b, Fine(a), c)}

-----------------------------------------------------------------------------
(* check, steps 1 to 8.  Which guard is named first is only text. *)

\* _data_quality
DataQualityBlocks(e, c) ==
    \/ e.age > c.maxAge
    \/ e.through < c.lag
    \/ e.clicks < MinClicks /\ e.impressions < MinImpressions

CooldownBlocks(c) == sinceApplied >= 0 /\ sinceApplied < c.cooldown

BlastRadiusBlocks(e, c) == e.evaluated >= 20 /\ e.matched * 100 > c.blastPct * e.evaluated

Blocked(e, c) ==
    \/ ~c.enabled
    \/ DataQualityBlocks(e, c)
    \/ CooldownBlocks(c)
    \/ BlastRadiusBlocks(e, c)
    \/ changes >= c.maxChanges

-----------------------------------------------------------------------------

Init ==
    /\ cfg \in Settings
    /\ bid \in StartBids
    /\ status = "none"
    /\ before = bid
    /\ after = bid
    /\ evidence \in [clicks : {0}, impressions : {0}, evaluated : {0}, matched : {0},
                     age : {0}, through : {0}]
    /\ sinceApplied = -1
    /\ changes = 0
    /\ pinned = None
    /\ events = 0
    /\ proposedUnder = cfg
    /\ moved = FALSE

\* build_guardrail_context: the newest settled data is cfg.lag days old
Evidence(m, age) ==
    [clicks |-> m.clicks, impressions |-> m.impressions, evaluated |-> m.evaluated,
     matched |-> m.matched, age |-> age, through |-> cfg.lag]

\* evaluate_tenant, for one matched entity that no guard blocks; the partial
\* unique index admits one open proposal
Propose(o, m, age) ==
    /\ status \notin {"pending", "approved"}
    /\ ~Blocked(Evidence(m, age), cfg)
    /\ \E t \in Targets(o, bid) : \E d \in Magnitude(bid, t, cfg) : after' = d.value
    /\ status' = "pending"
    /\ before' = bid
    /\ evidence' = Evidence(m, age)
    /\ proposedUnder' = cfg
    /\ moved' = FALSE
    /\ UNCHANGED <<cfg, bid, sinceApplied, changes, pinned, events>>

Decide(answer) ==
    /\ status = "pending"
    /\ status' = answer
    /\ UNCHANGED <<cfg, bid, before, after, evidence, proposedUnder, sinceApplied, changes, pinned, events, moved>>

\* Mutant: a clamp that rounds back to the approved value is let through
Unaltered_IgnoresClamp(d) == d.value = after

\* "never alter an already approved target"
Unaltered(d) == ~d.clamped /\ d.value = after

\* The run reads the settings once and validate_apply_guardrails lets the
\* action pass.  Nothing but other reads lies between the two, so that a change
\* of the settings between them is one after them.
LetThrough ==
    /\ status = "approved" /\ pinned = None
    /\ ~Blocked(evidence, cfg)
    /\ \E d \in Magnitude(before, after, cfg) : Unaltered(d)
    /\ pinned' = cfg
    /\ UNCHANGED <<cfg, bid, rowVars, sinceApplied, changes, events, moved>>

\* The rest of the batch is checked, credentials are loaded and the actions in
\* front are written; then this one is, without another look at the settings.
\* (A call that fails is ActionPipeline's.)
Apply ==
    /\ pinned # None
    /\ status' = "applied"
    /\ bid' = after
    /\ sinceApplied' = 0
    /\ changes' = changes + 1
    /\ pinned' = None
    /\ UNCHANGED <<cfg, before, after, evidence, proposedUnder, events, moved>>

\* load_ads_client raises, or the run dies: the action stays approved
RunLost ==
    /\ pinned # None
    /\ pinned' = None
    /\ UNCHANGED <<cfg, bid, rowVars, sinceApplied, changes, events, moved>>

\* ApplyGuardrailError
Refuse ==
    /\ status = "approved" /\ pinned = None
    /\ \/ Blocked(evidence, cfg)
       \/ \E d \in Magnitude(before, after, cfg) : ~Unaltered(d)
    /\ status' = "failed"
    /\ UNCHANGED <<cfg, bid, before, after, evidence, proposedUnder, sinceApplied, changes, pinned, events, moved>>

\* a released retry or a replayed dead letter is reviewed again
Retry ==
    /\ status = "failed"
    /\ status' = "pending"
    /\ UNCHANGED <<cfg, bid, before, after, evidence, proposedUnder, sinceApplied, changes, pinned, events, moved>>

\* Around it the settings, the day and the changes of other entities move.
Happens ==
    /\ events < MaxEvents
    /\ events' = events + 1
    /\ moved' = TRUE

ChangeSettings ==
    /\ Happens
    /\ cfg' \in Settings \ {cfg}
    /\ UNCHANGED <<bid, rowVars, sinceApplied, changes, pinned>>

NextDay ==
    /\ Happens
    /\ sinceApplied' = IF sinceApplied >= 0 THEN sinceApplied + 1 ELSE sinceApplied
    /\ evidence' = [evidence EXCEPT !.age = @ + 24, !.through = @ + 1]
    /\ changes' = 0
    /\ UNCHANGED <<cfg, bid, status, before, after, proposedUnder, pinned>>

ChangeElsewhere ==
    /\ Happens
    /\ changes < cfg.maxChanges
    /\ changes' = changes + 1
    /\ UNCHANGED <<cfg, bid, rowVars, sinceApplied, pinned>>

Next ==
    \/ \E o \in RuleOps, m \in Metrics, age \in LoadAges : Propose(o, m, age)
    \/ \E answer \in {"approved", "rejected"} : Decide(answer)
    \/ LetThrough
    \/ Apply
    \/ RunLost
    \/ Refuse
    \/ Retry
    \/ ChangeSettings
    \/ NextDay
    \/ ChangeElsewhere

Spec == Init /\ [][Next]_vars

-----------------------------------------------------------------------------
(* Properties *)

\* Every variable has its type; in particular no guardrail ever yields a
\* negative bid, whatever a rule asks for.
TypeOK ==
    /\ cfg \in Settings /\ proposedUnder \in Settings
    /\ bid \in Nat /\ before \in Nat /\ after \in Nat
    /\ status \in {"none", "pending", "approved", "rejected", "applied", "failed"}
    /\ evidence \in [clicks : Nat, impressions : Nat, evaluated : Nat, matched : Nat,
                     age : Nat, through : Nat]
    /\ sinceApplied \in Nat \cup {-1}
    /\ changes \in Nat
    /\ pinned \in Settings \cup {None}
    /\ events \in 0 .. MaxEvents
    /\ moved \in BOOLEAN

\* What check lets through respects min_bid and max_bid after rounding.
ProposalInBounds ==
    status # "none" => after \in proposedUnder.minBid .. proposedUnder.maxBid

\* What check lets through is at most half a cent beyond the percentage
\* limit, unless the absolute bounds forced it there.
ProposalNearLimit ==
    status # "none" /\ before > 0 =>
        \/ Fine(after) \in Lowest(before, proposedUnder) - 50 .. Highest(before, proposedUnder) + 50
        \/ after \in {proposedUnder.minBid, proposedUnder.maxBid}

\* Whatever moved since the proposal, and whatever moves while the run works
\* through its batch, a bid that reaches Amazon is inside the limits of the
\* settings its run has read, to the fraction of a cent: percentage, bounds,
\* cooldown, kill switch.  (The daily limit is DailyLimitRespected.)
AppliedWithinRunLimits ==
    [][status = "approved" /\ status' = "applied" =>
           /\ pinned # None /\ pinned.enabled
           /\ before > 0 => Fine(bid') \in Lowest(before, pinned) .. Highest(before, pinned)
           /\ bid' \in pinned.minBid .. pinned.maxBid
           /\ sinceApplied \notin 0 .. pinned.cooldown - 1]_vars

\* "Kill switch beats everything, including mid-run": no bid is written after
\* automation was switched off.
KillSwitchBeatsEverything == [][status = "approved" /\ status' = "applied" => cfg.enabled]_vars

\* The second check is there because "data may have moved, the kill switch
\* may have flipped" (services/rules/guardrails.py:5): while nothing has
\* moved it lets an approved proposal pass.
RefusedOnlyIfMoved ==
    [][status = "approved" /\ status' = "failed" => moved]_vars

\* How far that goes: while nothing has moved, only a proposal that rounding or
\* the absolute bounds have put on or beyond its percentage limit is refused.
RefusedOnlyAtLimit ==
    [][status = "approved" /\ status' = "failed" /\ ~moved =>
           /\ before > 0
           /\ Fine(after) \notin Lowest(before, cfg) + 1 .. Highest(before, cfg) - 1]_vars
=============================================================================
