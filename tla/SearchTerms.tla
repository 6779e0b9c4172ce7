---------------------------- MODULE SearchTerms ----------------------------
(***************************************************************************)
(* The life of one harvested search term:                                  *)
(*                                                                         *)
(*   services/rules/harvest.py           source, route, duplicate, lineage *)
(*   services/rules/engine.py            queues the promotion              *)
(*   services/rules/protections.py       protections of the term           *)
(*   services/rules/isolation_revive.py  isolation negative and revive     *)
(*                                                                         *)
(* A rules run reads (PlanHarvest) and commits later (RecordLineage); an   *)
(* analysis reads the lineages, decides one of them per step and commits   *)
(* at its end.  In between the approval queue and the worker move the      *)
(* promotions, people edit routes, targets and protections, and Amazon     *)
(* serves the term.  Both jobs read the marts, which lag behind Amazon     *)
(* until RefreshMart.  Ad groups are numbers.  Traffic is counted from the *)
(* day a promotion was applied, up to the thresholds of the analysis.      *)
(***************************************************************************)
EXTENDS Integers, SequencesExt

CONSTANTS
    Terms,          \* [asin, brands]: an ASIN?, the brand terms it contains
    Brands,         \* [class, length]: rows search_term_brand_term may have
    Routes,         \* rows of search_term_harvest_route
    Strategies,     \* codes of the enabled strategies
    Asin,           \* advertised ASIN of the sources
    Sources, Destinations,  \* ad groups
    MaxOrders,      \* bound: orders of a source
    MaxPromotions,  \* bound: promotions
    MinTraffic,     \* min_destination_impressions and _clicks
    MaxEdits,       \* bound: edits by people, negatives and stale sources
    Histories,      \* the paused keywords, as REVIVE_SQL returns them
    MinBid, MaxBid  \* in cents

Promotions == 1 .. MaxPromotions
AdGroups == Sources \union Destinations
Scopes == {"keyword", "search_term"}

ASSUME SearchTermsAssumption ==
    /\ AdGroups \subseteq Nat
    /\ \A r \in Routes : r.dest \in Destinations
    /\ {MaxOrders, MaxPromotions, MinTraffic, MaxEdits} \subseteq Nat
    /\ \A h \in Histories : h.bid \in Nat /\ h.breakEven \in Nat
    /\ MinTraffic > 0 /\ MinBid \in Nat /\ MaxBid \in Nat /\ MinBid <= MaxBid

VARIABLES
    term, brands,       \* the search term and search_term_brand_term
    routes,             \* the enabled routes
    orders,             \* settled orders by source ad group; 0: no row
    promotion, lineage, \* of a promotion: action.status, harvest lineage
    applied,            \* promotions in the order of applied_at
    failedOnce,         \* promotions that have failed at least once
    plan,               \* HarvestPlan of the rules run in hand
    target,             \* the exact target of the term in Amazon, by ad group
    traffic, competes,  \* since a promotion was applied: traffic of its
                        \* destination; whether its source still got clicks
    negated,            \* ad groups with the term as a negative
    negative,           \* an open add_negative_exact action for the term
    mart,               \* what the marts show of the last four
    protections,        \* of the term, oldest first: [policy, active]
    stale, edits,       \* scopes whose freshness is not usable; bound
    queue, seen, found, \* analysis: lineages left, keys seen, findings
    isolation,          \* last committed finding of a promotion
    aborted,            \* an analysis failed on a unique index
    revived             \* revive findings of the analysis in hand

harvestVars == <<term, brands, promotion, lineage, applied, failedOnce, plan>>
worldVars == <<target, traffic, competes, negated, negative>>
otherConfig == <<routes, orders, protections, stale>>
configVars == <<otherConfig, edits>>
analysisVars == <<queue, seen, found, isolation, aborted, revived>>
termVars == <<harvestVars, worldVars, configVars, mart, analysisVars>>

\* the statuses of a promotion are those of any action
SM == INSTANCE ActionStateMachine WITH Actions <- Promotions, status <- promotion

NoLineage == [source |-> 0, dest |-> 0, match |-> "none"]
Seen == [target |-> target, traffic |-> traffic, competes |-> competes, negated |-> negated]

TermInit ==
    /\ term \in Terms /\ brands \in SUBSET Brands
    /\ routes = Routes
    /\ orders \in [Sources -> 0 .. MaxOrders]
    /\ promotion = [i \in Promotions |-> "none"]
    /\ lineage = [i \in Promotions |-> NoLineage]
    /\ applied = <<>> /\ failedOnce = {}
    /\ plan = NoLineage
    /\ target = [g \in Destinations |-> "none"]
    /\ traffic = [i \in Promotions |-> 0]
    /\ competes = {} /\ negated = {} /\ negative = FALSE
    /\ mart = Seen
    /\ protections = <<>>
    /\ stale = {} /\ edits = 0
    /\ queue = <<>> /\ seen = {} /\ found = [i \in Promotions |-> "idle"]
    /\ isolation = [i \in Promotions |-> "none"]
    /\ aborted = FALSE /\ revived = {}

-----------------------------------------------------------------------------
(* harvest.py: where a term goes.                                          *)

DestinationMatchType(t) == IF t.asin THEN "product" ELSE "exact"

\* the longest brand term wins, own brand on a tie
ClassifyBrand(t) ==
    LET hits == t.brands \intersect brands
        Beats(a, b) == \/ a.length > b.length
                       \/ a.length = b.length /\ (a.class = "own_brand" \/ b.class # "own_brand")
    IN  IF hits = {} THEN "generic" ELSE (CHOOSE h \in hits : \A o \in hits : Beats(h, o)).class

Funnel == [own_brand |-> "brand_defense", competitor |-> "conquest", generic |-> "performance"]

BuildCandidate(t) ==
    LET class == ClassifyBrand(t)
    IN  [match |-> DestinationMatchType(t), class |-> class, funnel |-> Funnel[class]]

\* most orders, then the lower ad group; 0 when there is no settled row
ChooseSource ==
    LET rows == {g \in Sources : orders[g] > 0}
    IN  IF rows = {} THEN 0
        ELSE CHOOSE g \in rows : \A o \in rows :
                 orders[g] > orders[o] \/ (orders[g] = orders[o] /\ g <= o)

Specificity(r) == Cardinality({f \in {"asin", "class", "strategy"} : r[f] # "*"})

Eligible(r, c) ==
    /\ r.match = c.match /\ r.funnel = c.funnel
    /\ r.asin \in {"*", Asin} /\ r.class \in {"*", c.class}
    /\ r.strategy \in Strategies \union {"*"}

\* select_route: the destinations of the top-ranked routes; none of them or
\* more than one blocks the promotion
SelectRoute(c) ==
    LET eligible == {r \in routes : Eligible(r, c)}
        Better(a, b) == \/ Specificity(a) > Specificity(b)
                        \/ Specificity(a) = Specificity(b) /\ a.priority < b.priority
    IN  {r.dest : r \in {t \in eligible : \A o \in eligible : ~Better(o, t)}}

\* _existing_target: the keyword mart has one in any ad group
ExistingTarget == \E g \in Destinations : mart.target[g] # "none"

\* mutant: a promotion is open only until it is executed
OpenActionStatuses_Queue == {"pending", "approved"}

OpenActionStatuses == {"pending", "approved", "applied", "verified"}

OpenPromotion == \E i \in Promotions : promotion[i] \in OpenActionStatuses

Unplanned == plan = NoLineage

\* plan_harvest, in a rules run for which the term matched
PlanHarvest ==
    /\ Unplanned
    /\ ChooseSource # 0 /\ ~ExistingTarget /\ ~OpenPromotion
    /\ LET c == BuildCandidate(term)
       IN  /\ Cardinality(SelectRoute(c)) = 1
           /\ \E d \in SelectRoute(c) :
                plan' = [source |-> ChooseSource, dest |-> d, match |-> c.match]
    /\ UNCHANGED <<term, brands, promotion, lineage, applied, failedOnce, worldVars, configVars,
                   mart, analysisVars>>

NewLineage == plan

\* the insert of the action and record_lineage, at the commit of the run
RecordLineage ==
    /\ ~Unplanned
    /\ plan' = NoLineage
    /\ \E i \in Promotions :
         /\ promotion[i] = "none" /\ \A j \in 1 .. (i - 1) : promotion[j] # "none"
         /\ promotion' = [promotion EXCEPT ![i] = "pending"]
         /\ lineage' = [lineage EXCEPT ![i] = NewLineage]
    /\ UNCHANGED <<term, brands, applied, failedOnce, worldVars, configVars, mart, analysisVars>>

\* approval, worker, retry and verification; create_keyword has no rollback
MovePromotion(i) ==
    \E s \in SM!Status \ {"rolled_back"} :
        /\ promotion[i] # "none" /\ <<promotion[i], s>> \in SM!Allowed
        /\ promotion' = [promotion EXCEPT ![i] = s]
        /\ applied' = IF s = "applied" THEN Append(applied, i) ELSE applied
        /\ failedOnce' = IF s = "failed" THEN failedOnce \union {i} ELSE failedOnce
        /\ UNCHANGED <<term, brands, lineage, plan, worldVars, configVars, mart, analysisVars>>

-----------------------------------------------------------------------------
(* Amazon, people, and the marts.                                          *)

Edit == edits < MaxEdits /\ edits' = edits + 1

Executed(i) == i \in Range(applied)

\* somebody creates, pauses or enables the target: the worker never does
ChangeTarget(g) ==
    /\ Edit
    /\ target' = [target EXCEPT ![g] = IF @ = "enabled" THEN "paused" ELSE "enabled"]
    /\ UNCHANGED <<harvestVars, traffic, competes, negated, negative, otherConfig, mart, analysisVars>>

\* a day of traffic: an enabled target serves, or a source that is not negative
Serve(g) ==
    /\ g \in Destinations /\ target[g] = "enabled"
    /\ traffic' = [i \in Promotions |->
           IF Executed(i) /\ lineage[i].dest = g /\ traffic[i] < MinTraffic
           THEN traffic[i] + 1 ELSE traffic[i]]
    /\ UNCHANGED <<harvestVars, target, competes, negated, negative, configVars, mart, analysisVars>>

Compete(g) ==
    /\ g \in Sources \ negated
    /\ competes' = competes \union {i \in Promotions : Executed(i) /\ lineage[i].source = g}
    /\ UNCHANGED <<harvestVars, target, traffic, negated, negative, configVars, mart, analysisVars>>

\* the rule for wasteful terms queues its own negative, which is then carried
\* out in some ad group or dropped
QueueNegative ==
    /\ Edit
    /\ negative' = ~negative
    /\ \/ UNCHANGED negated
       \/ negative /\ \E g \in Sources : negated' = negated \union {g}
    /\ UNCHANGED <<harvestVars, target, traffic, competes, otherConfig, mart, analysisVars>>

RefreshMart ==
    /\ mart' = Seen
    /\ UNCHANGED <<harvestVars, worldVars, configVars, analysisVars>>

ToggleRoute(r) ==
    /\ Edit
    /\ routes' = IF r \in routes THEN routes \ {r} ELSE routes \union {r}
    /\ UNCHANGED <<harvestVars, worldVars, orders, protections, stale, mart, analysisVars>>

GoStale(s) ==
    /\ s \notin stale /\ Edit
    /\ stale' = stale \union {s}
    /\ UNCHANGED <<harvestVars, worldVars, routes, orders, protections, mart, analysisVars>>

Recover ==
    /\ stale # {} /\ stale' = {}
    /\ UNCHANGED <<harvestVars, worldVars, routes, orders, protections, edits, mart, analysisVars>>

-----------------------------------------------------------------------------
(* protections.py.                                                         *)

\* the settings page; "deny" asks for the negative
Protect(policy) ==
    /\ Edit
    /\ protections' = Append(protections, [policy |-> policy, active |-> TRUE])
    /\ UNCHANGED <<harvestVars, worldVars, routes, orders, stale, mart, analysisVars>>

\* released by hand, or consumed by the one action it was meant for
Release(k) ==
    /\ protections[k].active /\ Edit
    /\ protections' = [protections EXCEPT ![k].active = FALSE]
    /\ UNCHANGED <<harvestVars, worldVars, routes, orders, stale, mart, analysisVars>>

\* a temporary one whose time is over: the query leaves it out
Expire(k) ==
    /\ Edit
    /\ protections' = RemoveAt(protections, k)
    /\ UNCHANGED <<harvestVars, worldVars, routes, orders, stale, mart, analysisVars>>

\* active_protection: the newest row decides
ActiveProtection ==
    protections # <<>> /\ LET p == Last(protections) IN p.active /\ p.policy # "deny"

-----------------------------------------------------------------------------
(* isolation_revive.py.                                                    *)

\* mutant: the destination's traffic is not looked at
DestinationProven_Enabled(i) == mart.target[lineage[i].dest] = "enabled"

\* the three checks of decide_isolation on the destination
DestinationProven(i) ==
    mart.target[lineage[i].dest] = "enabled" /\ mart.traffic[i] >= MinTraffic

\* mutant: an earlier lineage of the same source does not count
Covered_Never(g) == FALSE

\* mutant: the key is looked up after it was added
Covered_Added(g) == TRUE

\* a lineage read before has the same key: campaign, ad group, term
Covered(g) == g \in seen

\* decide_isolation
DecideIsolation(i) ==
    LET g == lineage[i].source
    IN  IF /\ lineage[i].match = "exact"
           /\ g # lineage[i].dest
           /\ ~Covered(g) /\ ~negative
           /\ g \notin mart.negated /\ ~ActiveProtection
           /\ DestinationProven(i) /\ i \in mart.competes
        THEN "recommended" ELSE "blocked"

\* round(.., 2) of a bid in tenths of a cent; a tie goes either way
RoundedCents(x) == {y \in (x \div 10) .. (x \div 10 + 1) : 10 * y - x \in -5 .. 5}

\* mutant: the last bid is used as it is
ReviveTarget_LastBid(h) == 10 * h.bid

\* the last bid, capped at the break-even CPC
ReviveTarget(h) == IF 10 * h.bid < h.breakEven THEN 10 * h.bid ELSE h.breakEven

\* decide_revive: h.proven stands for its checks on history and economics,
\* h.free for the ones on siblings, open actions and cooldown
DecideRevive(h) ==
    LET bid == ReviveTarget(h)
    IN  IF h.free /\ h.proven /\ h.bid > 0 /\ bid >= 10 * MinBid
        THEN {[history |-> h, decision |-> "recommended", bid |-> y] :
                  y \in RoundedCents(IF bid < 10 * MaxBid THEN bid ELSE 10 * MaxBid)}
        ELSE {[history |-> h, decision |-> "blocked", bid |-> 0]}

Idle == \A i \in Promotions : found[i] = "idle"

\* run_analysis: revive needs the keyword source, isolation both of them; a
\* bid that may be rounded either way gives two findings here
StartAnalysis ==
    /\ Idle /\ "keyword" \notin stale
    /\ revived' = UNION {DecideRevive(h) : h \in Histories}
    /\ queue' = IF "search_term" \in stale THEN <<>>
                ELSE SelectSeq(applied, LAMBDA i : promotion[i] \in {"applied", "verified"})
    /\ found' = [i \in Promotions |-> "none"]
    /\ UNCHANGED <<harvestVars, worldVars, configVars, mart, seen, isolation, aborted>>

\* isolation_findings, one lineage
Isolate ==
    /\ ~Idle /\ queue # <<>>
    /\ LET i == Head(queue)
       IN  /\ found' = [found EXCEPT ![i] = DecideIsolation(i)]
           /\ seen' = seen \union {lineage[i].source}
    /\ queue' = Tail(queue)
    /\ UNCHANGED <<harvestVars, worldVars, configVars, mart, isolation, aborted, revived>>

\* _insert and commit.  The index allows one recommended negative for a
\* source ad group and term: a second one takes the whole run with it.
Insert ==
    /\ ~Idle /\ queue = <<>>
    /\ LET chosen == {i \in Promotions : found[i] = "recommended"}
           unique == \A i, j \in chosen : i # j => lineage[i].source # lineage[j].source
       IN  /\ aborted' = (aborted \/ ~unique)
           /\ isolation' = IF unique THEN [i \in Promotions |->
                                  IF found[i] = "none" THEN isolation[i] ELSE found[i]]
                           ELSE isolation
    /\ found' = [i \in Promotions |-> "idle"]
    /\ seen' = {} /\ revived' = {}
    /\ UNCHANGED <<harvestVars, worldVars, configVars, mart, queue>>

-----------------------------------------------------------------------------

Analysis == StartAnalysis \/ Isolate \/ Insert

People ==
    \/ \E g \in Destinations : ChangeTarget(g) \/ Serve(g)
    \/ \E g \in Sources : Compete(g)
    \/ QueueNegative
    \/ \E r \in Routes : ToggleRoute(r)
    \/ \E p \in {"protect", "deny"} : Protect(p)
    \/ \E k \in DOMAIN protections : Release(k) \/ Expire(k)
    \/ \E s \in Scopes : GoStale(s)

TermNext ==
    \/ PlanHarvest \/ RecordLineage
    \/ \E i \in Promotions : MovePromotion(i)
    \/ People
    \/ RefreshMart \/ Recover
    \/ Analysis

TermSpec == TermInit /\ [][TermNext]_termVars

\* The analysis, dbt and the ingestion are scheduled again and again; nobody
\* has to approve, serve or edit anything.
FairSpec ==
    TermSpec /\ WF_termVars(Analysis) /\ WF_termVars(RefreshMart) /\ WF_termVars(Recover)

-----------------------------------------------------------------------------
(* Properties.                                                             *)

\* Types; what is executed has a lineage, in the order of execution.
TermTypeOK ==
    /\ promotion \in [Promotions -> SM!Status \union {"none"}]
    /\ \A i \in Promotions : promotion[i] = "none" <=> lineage[i] = NoLineage
    /\ \A i \in Promotions : promotion[i] \in {"applied", "verified"} => Executed(i)
    /\ Len(applied) <= MaxPromotions /\ IsInjective(applied)
    /\ target \in [Destinations -> {"none", "enabled", "paused"}]
    /\ traffic \in [Promotions -> 0 .. MinTraffic]
    /\ competes \subseteq Promotions /\ negated \subseteq Sources
    /\ isolation \in [Promotions -> {"none", "recommended", "blocked"}]
    /\ found \in [Promotions -> {"idle", "none", "recommended", "blocked"}]

\* A negative is recommended only where the promoted target has really served
\* the term since the promotion was executed, in another ad group: isolating
\* earlier "would simply switch the query off" (decide_isolation).
IsolatedIsServed ==
    \A i \in Promotions : isolation[i] = "recommended" =>
        /\ Executed(i) /\ traffic[i] >= MinTraffic
        /\ lineage[i].match = "exact" /\ lineage[i].source # lineage[i].dest

\* However often the term was promoted from one source, an analysis never runs
\* into the index that allows one recommended negative for it (seen).
AnalysisCompletes == ~aborted

\* A term has at most one open promotion, but for those that have failed and
\* were released again by the retry (_open_promotion leaves failed ones out).
OnePromotion ==
    \A i, j \in Promotions \ failedOnce :
        promotion[i] \in {"pending", "approved", "applied", "verified"}
        /\ promotion[j] \in {"pending", "approved", "applied", "verified"} => i = j

\* The bid at which a keyword is revived lies within the tenant's bounds, is
\* no higher than its last one, and less than a cent above the break-even CPC
\* (decide_revive caps the bid first and rounds it last).
RevivedBidIsSafe ==
    \A f \in revived : f.decision = "recommended" =>
        /\ f.bid \in MinBid .. MaxBid /\ f.bid <= f.history.bid
        /\ 10 * f.bid < f.history.breakEven + 10

\* the first promotion to be executed is proven and its source still competes
FirstIsProven ==
    applied # <<>> /\
        LET i == applied[1]
            l == lineage[i]
        IN  /\ l.match = "exact" /\ l.source # l.dest
            /\ target[l.dest] = "enabled" /\ traffic[i] >= MinTraffic
            /\ i \in competes /\ l.source \notin negated
            /\ ~negative /\ ~ActiveProtection

FirstIsIsolated == applied # <<>> /\ isolation[applied[1]] = "recommended"

\* A promotion that is proven and stays so gets its isolation negative, if it
\* is the first one executed for the term.
ProvenIsIsolated == <>[]FirstIsProven => <>[]FirstIsIsolated

\* "a fail-closed decision for a destructive automated action": no negative is
\* recommended while a protection of the term is active (active_protection).
ProtectionHolds ==
    [][Isolate /\ found'[Head(queue)] = "recommended" =>
          \A k \in DOMAIN protections :
              protections[k].active => protections[k].policy = "deny"]_termVars
=============================================================================
