---------------------------- MODULE Rules_proofs ----------------------------
(***************************************************************************)
(* Proofs about what the rules engine proposes.                            *)
(*                                                                         *)
(* BidGuardrails, for any settings, rules, bids and metrics: the           *)
(* arithmetic is in four lemmas, what rounding, a rule, the percentage     *)
(* clamp and the whole of step 9 of check may return.                      *)
(*                                                                         *)
(* SearchTerms, for any term, routes, sources, number of promotions and    *)
(* paused keywords: its inductive invariant is TermInv.                    *)
(***************************************************************************)
EXTENDS BidGuardrails, SearchTerms, FiniteSetTheorems, WellFoundedInduction, TLAPS

(* BidGuardrails *)

\* round(v, 2) is the nearest cent, at most half a cent away.
LEMMA RoundNear ==
    ASSUME NEW v \in Int, NEW w \in Round(v)
    PROVE  w \in Int /\ 100 * w - v \in -50 .. 50
BY DEF Round

\* Every target of resolve_action is a whole number of cents.
LEMMA TargetsInt ==
    ASSUME NEW o \in RuleOps, NEW b \in Nat, NEW t \in Targets(o, b)
    PROVE  t \in Int
<1>1. o.by \in Int
  BY GuardrailAssumption
<1>2. b * o.by \in Int /\ b * (100 + o.by) \in Int /\ b + o.by \in Int
  BY <1>1
<1>3. \A v \in Int : Round(v) \subseteq Int
  BY RoundNear
<1> QED
  BY <1>1, <1>2, <1>3 DEF Targets

\* clamp_change stays within max_change_pct of a positive bid, and leaves
\* alone what it does not mark as clamped.
LEMMA ClampWithin ==
    ASSUME NEW b \in Nat, NEW v \in Int, NEW c \in Settings, NEW d \in ClampChange(b, v, c)
    PROVE  /\ d.v \in Int /\ d.clamped \in BOOLEAN
           /\ Lowest(b, c) \in Int /\ Highest(b, c) \in Int
           /\ b > 0 => d.v \in Lowest(b, c) .. Highest(b, c)
           /\ ~d.clamped => d.v = v
<1>1. c.pct \in 1 .. 100
  BY GuardrailAssumption DEF SettingsType
<1>2. Lowest(b, c) \in Int /\ Highest(b, c) \in Int /\ Lowest(b, c) <= Highest(b, c)
  <2>1. /\ b * (100 - c.pct) \in Int
        /\ b * (100 + c.pct) \in Int
        /\ b * (100 - c.pct) <= b * (100 + c.pct)
    BY <1>1
  <2> QED
    BY <2>1 DEF Lowest, Highest
<1>3. CASE b = 0 \/ (Lowest(b, c) < v /\ v < Highest(b, c))
  <2>1. d = [v |-> v, clamped |-> FALSE]
    BY <1>2, <1>3 DEF ClampChange
  <2> QED
    BY <2>1, <1>2, <1>3
<1>4. CASE b > 0 /\ v > Highest(b, c)
  <2>1. d = [v |-> Highest(b, c), clamped |-> TRUE]
    BY <1>4 DEF ClampChange
  <2> QED
    BY <2>1, <1>2
<1>5. CASE b > 0 /\ ~(v > Highest(b, c)) /\ v < Lowest(b, c)
  <2>1. d = [v |-> Lowest(b, c), clamped |-> TRUE]
    BY <1>5 DEF ClampChange
  <2> QED
    BY <2>1, <1>2
<1>6. CASE b > 0 /\ v \in {Lowest(b, c), Highest(b, c)}
  <2>1. PICK x \in BOOLEAN : d = [v |-> v, clamped |-> x]
    BY <1>2, <1>6 DEF ClampChange
  <2> QED
    BY <2>1, <1>2, <1>6
<1> QED
  BY <1>2, <1>3, <1>4, <1>5, <1>6

\* What step 9 of check returns: inside the bounds, at most half a cent
\* beyond the percentage limit unless on a bound, and when it is not marked
\* as clamped it is the value that was asked for and inside every limit.
LEMMA MagnitudeWithin ==
    ASSUME NEW b \in Nat, NEW a \in Int, NEW c \in Settings, NEW m \in Magnitude(b, a, c)
    PROVE  /\ m.value \in c.minBid .. c.maxBid
           /\ b > 0 => \/ Fine(m.value) \in Lowest(b, c) - 50 .. Highest(b, c) + 50
                       \/ m.value \in {c.minBid, c.maxBid}
           /\ ~m.clamped => /\ m.value = a
                            /\ b > 0 => Fine(a) \in Lowest(b, c) .. Highest(b, c)
<1>1. /\ c.minBid \in Nat /\ c.maxBid \in Nat /\ c.minBid <= c.maxBid
  BY GuardrailAssumption DEF SettingsType
<1>2. PICK d \in ClampChange(b, Fine(a), c) : \E w \in Round(ApplyBounds(d, c).v) :
          m = [value |-> w, clamped |-> ApplyBounds(d, c).clamped]
  BY DEF Magnitude
<1>3. PICK w \in Round(ApplyBounds(d, c).v) :
          m = [value |-> w, clamped |-> ApplyBounds(d, c).clamped]
  BY <1>2
<1>4. /\ d.v \in Int /\ d.clamped \in BOOLEAN
      /\ Lowest(b, c) \in Int /\ Highest(b, c) \in Int
      /\ b > 0 => d.v \in Lowest(b, c) .. Highest(b, c)
      /\ ~d.clamped => d.v = Fine(a)
  BY ClampWithin, Fine(a) \in Int DEF Fine
<1>5. ApplyBounds(d, c).v \in Int
  BY <1>1, <1>4 DEF ApplyBounds, Fine
<1>6. w \in Int /\ 100 * w - ApplyBounds(d, c).v \in -50 .. 50
  BY <1>3, <1>5, RoundNear
<1>7. m.value = w /\ m.clamped = ApplyBounds(d, c).clamped
  BY <1>3
<1>8. CASE d.v < Fine(c.minBid)
  <2>1. ApplyBounds(d, c) = [v |-> 100 * c.minBid, clamped |-> TRUE]
    BY <1>8 DEF ApplyBounds, Fine
  <2>2. w = c.minBid /\ m.clamped
    BY <2>1, <1>1, <1>6, <1>7
  <2> QED
    BY <2>2, <1>1, <1>7
<1>9. CASE d.v > Fine(c.maxBid) /\ ~(d.v < Fine(c.minBid))
  <2>1. ApplyBounds(d, c) = [v |-> 100 * c.maxBid, clamped |-> TRUE]
    BY <1>9 DEF ApplyBounds, Fine
  <2>2. w = c.maxBid /\ m.clamped
    BY <2>1, <1>1, <1>6, <1>7
  <2> QED
    BY <2>2, <1>1, <1>7
<1>10. CASE ~(d.v < Fine(c.minBid)) /\ ~(d.v > Fine(c.maxBid))
  <2>1. ApplyBounds(d, c) = d
    BY <1>10 DEF ApplyBounds
  <2>2. 100 * w - d.v \in -50 .. 50
    BY <2>1, <1>6
  <2>3. w \in c.minBid .. c.maxBid
    BY <2>2, <1>1, <1>4, <1>6, <1>10 DEF Fine
  <2>4. b > 0 => Fine(w) \in Lowest(b, c) - 50 .. Highest(b, c) + 50
    BY <2>2, <1>4, <1>6 DEF Fine
  <2>5. ~m.clamped => w = a /\ (b > 0 => Fine(a) \in Lowest(b, c) .. Highest(b, c))
    BY <2>1, <2>2, <1>4, <1>6, <1>7 DEF Fine
  <2> QED
    BY <2>3, <2>4, <2>5, <1>7
<1> QED
  BY <1>8, <1>9, <1>10

-----------------------------------------------------------------------------

\* Every step of the specification keeps the types.
LEMMA TypeStep ==
    ASSUME TypeOK, [Next]_vars
    PROVE  TypeOK'
<1> USE GuardrailAssumption DEF TypeOK, rowVars
<1>1. ASSUME NEW o \in RuleOps, NEW m \in Metrics, NEW age \in LoadAges, Propose(o, m, age)
      PROVE  TypeOK'
  <2>1. PICK t \in Targets(o, bid) : \E d \in Magnitude(bid, t, cfg) : after' = d.value
    BY <1>1 DEF Propose
  <2>2. after' \in Nat
    <3>1. t \in Int
      BY TargetsInt
    <3>2. PICK d \in Magnitude(bid, t, cfg) : after' = d.value
      BY <2>1
    <3>3. d.value \in cfg.minBid .. cfg.maxBid
      BY <3>1, MagnitudeWithin
    <3>4. cfg.minBid \in Nat /\ cfg.maxBid \in Nat
      BY DEF SettingsType
    <3> QED
      BY <3>2, <3>3, <3>4
  <2>3. evidence' \in [clicks : Nat, impressions : Nat, evaluated : Nat, matched : Nat,
                       age : Nat, through : Nat]
    <3>1. evidence' = Evidence(m, age)
      BY <1>1 DEF Propose
    <3>2. cfg.lag \in Nat /\ age \in Nat
      BY DEF SettingsType
    <3> QED
      BY <3>1, <3>2 DEF Evidence
  <2> QED
    BY <1>1, <2>2, <2>3 DEF Propose
<1>2. ASSUME NEW answer \in {"approved", "rejected"}, Decide(answer)
      PROVE  TypeOK'
  BY <1>2 DEF Decide
<1>3. CASE Apply
  BY <1>3 DEF Apply
<1>4. CASE Refuse \/ LetThrough \/ RunLost
  BY <1>4 DEF Refuse, LetThrough, RunLost
<1>5. CASE Retry
  BY <1>5 DEF Retry
<1>6. CASE ChangeSettings
  BY <1>6 DEF ChangeSettings, Happens
<1>7. CASE NextDay
  <2>1. evidence' \in [clicks : Nat, impressions : Nat, evaluated : Nat, matched : Nat,
                       age : Nat, through : Nat]
    <3>1. evidence' = [evidence EXCEPT !.age = @ + 24, !.through = @ + 1]
      BY <1>7 DEF NextDay
    <3>2. evidence.age + 24 \in Nat /\ evidence.through + 1 \in Nat
      OBVIOUS
    <3> QED
      BY <3>1, <3>2
  <2>2. sinceApplied' \in Nat \cup {-1}
    BY <1>7 DEF NextDay
  <2> QED
    BY <1>7, <2>1, <2>2 DEF NextDay, Happens
<1>8. CASE ChangeElsewhere
  BY <1>8 DEF ChangeElsewhere, Happens
<1>9. CASE UNCHANGED vars
  BY <1>9 DEF vars
<1> QED
  BY <1>1, <1>2, <1>3, <1>4, <1>5, <1>6, <1>7, <1>8, <1>9 DEF Next

\* Every variable keeps its type: no rule and no settings, however extreme,
\* make check produce a negative bid.
THEOREM TypeCorrect == Spec => []TypeOK
<1>1. Init => TypeOK
  <2> SUFFICES ASSUME Init PROVE TypeOK
    OBVIOUS
  <2>1. evidence \in [clicks : Nat, impressions : Nat, evaluated : Nat, matched : Nat,
                      age : Nat, through : Nat]
    BY DEF Init
  <2>2. bid \in Nat /\ before = bid /\ after = bid /\ cfg \in Settings /\ proposedUnder = cfg
    BY GuardrailAssumption DEF Init
  <2>3. sinceApplied = -1 /\ changes = 0 /\ events = 0 /\ 0 \in 0 .. MaxEvents
    BY GuardrailAssumption DEF Init
  <2>4. status = "none" /\ moved = FALSE /\ pinned = None
    BY DEF Init
  <2> QED
    BY <2>1, <2>2, <2>3, <2>4 DEF TypeOK
<1> QED
  BY <1>1, TypeStep, PTL DEF Spec

\* What a run is about to write is approved, and was let through under the
\* settings the run has read: from then on nothing changes the proposal, and
\* the entity's last change only gets older.
PinnedIsApproved == pinned # None => status = "approved"

PinnedInv ==
    /\ PinnedIsApproved
    /\ pinned # None =>
           /\ pinned.enabled
           /\ before > 0 => Fine(after) \in Lowest(before, pinned) .. Highest(before, pinned)
           /\ after \in pinned.minBid .. pinned.maxBid
           /\ sinceApplied \notin 0 .. pinned.cooldown - 1

\* Every step preserves it.
LEMMA PinnedStep ==
    ASSUME TypeOK, PinnedInv, [Next]_vars
    PROVE  PinnedInv'
<1> USE DEF PinnedInv, PinnedIsApproved
<1>1. ASSUME pinned' = None PROVE PinnedInv'
  BY <1>1
<1>2. ASSUME UNCHANGED <<pinned, status, before, after>>,
             sinceApplied' = sinceApplied \/ (sinceApplied >= 0 /\ sinceApplied' = sinceApplied + 1)
      PROVE  PinnedInv'
  <2>1. SUFFICES ASSUME pinned # None PROVE PinnedInv'
    BY <1>1, <1>2
  <2>2. pinned.cooldown \in Nat
    BY <2>1, GuardrailAssumption DEF TypeOK, SettingsType
  <2> QED
    BY <1>2, <2>1, <2>2 DEF TypeOK, Fine, Lowest, Highest
<1>3. CASE LetThrough
  <2>1. PICK d \in Magnitude(before, after, cfg) : Unaltered(d)
    BY <1>3 DEF LetThrough
  <2>2. before \in Nat /\ after \in Int /\ cfg \in Settings
    BY DEF TypeOK
  <2>3. /\ after \in cfg.minBid .. cfg.maxBid
        /\ before > 0 => Fine(after) \in Lowest(before, cfg) .. Highest(before, cfg)
    BY <2>1, <2>2, MagnitudeWithin DEF Unaltered
  <2>4. cfg.enabled /\ sinceApplied \notin 0 .. cfg.cooldown - 1
    <3>1. cfg.cooldown \in Nat /\ ~CooldownBlocks(cfg) /\ cfg.enabled
      BY <1>3, <2>2, GuardrailAssumption DEF LetThrough, Blocked, SettingsType
    <3> QED
      BY <3>1 DEF CooldownBlocks, TypeOK
  <2>5. pinned' = cfg /\ UNCHANGED <<status, before, after, sinceApplied>> /\ status = "approved"
    BY <1>3 DEF LetThrough, rowVars
  <2> QED
    BY <2>3, <2>4, <2>5 DEF Fine, Lowest, Highest
<1>4. CASE Apply \/ RunLost
  BY <1>1, <1>4 DEF Apply, RunLost
<1>5. ASSUME NEW o \in RuleOps, NEW m \in Metrics, NEW age \in LoadAges, Propose(o, m, age)
      PROVE  PinnedInv'
  BY <1>1, <1>5 DEF Propose
<1>6. ASSUME NEW answer \in {"approved", "rejected"}, Decide(answer) PROVE PinnedInv'
  BY <1>1, <1>6 DEF Decide
<1>7. CASE Refuse \/ Retry
  BY <1>1, <1>7 DEF Refuse, Retry
<1>8. CASE ChangeSettings \/ ChangeElsewhere
  BY <1>2, <1>8 DEF ChangeSettings, ChangeElsewhere, rowVars
<1>9. CASE NextDay
  BY <1>2, <1>9 DEF NextDay
<1>10. CASE UNCHANGED vars
  BY <1>2, <1>10 DEF vars, rowVars
<1> QED
  BY <1>3, <1>4, <1>5, <1>6, <1>7, <1>8, <1>9, <1>10 DEF Next

\* Between the check and the write a proposal stays inside what was checked.
LEMMA PinnedHolds == Spec => [](TypeOK /\ PinnedInv)
<1>1. Init => PinnedInv
  BY DEF Init, PinnedInv, PinnedIsApproved
<1> QED
  BY <1>1, TypeCorrect, PinnedStep, PTL DEF Spec

\* Every proposal that check let through respects min_bid and max_bid, and is
\* at most half a cent beyond the percentage limit unless it is on a bound.
LEMMA ProposalStep ==
    ASSUME TypeOK, PinnedIsApproved, ProposalInBounds, ProposalNearLimit, [Next]_vars
    PROVE  ProposalInBounds' /\ ProposalNearLimit'
<1> DEFINE Made == status # "none"
<1>1. ASSUME NEW o \in RuleOps, NEW m \in Metrics, NEW age \in LoadAges, Propose(o, m, age)
      PROVE  ProposalInBounds' /\ ProposalNearLimit'
  <2>1. PICK t \in Targets(o, bid) : \E d \in Magnitude(bid, t, cfg) : after' = d.value
    BY <1>1 DEF Propose
  <2>2. PICK d \in Magnitude(bid, t, cfg) : after' = d.value
    BY <2>1
  <2>3. bid \in Nat /\ t \in Int /\ cfg \in Settings
    BY TargetsInt DEF TypeOK
  <2>4. /\ d.value \in cfg.minBid .. cfg.maxBid
        /\ bid > 0 => \/ Fine(d.value) \in Lowest(bid, cfg) - 50 .. Highest(bid, cfg) + 50
                      \/ d.value \in {cfg.minBid, cfg.maxBid}
    BY <2>3, MagnitudeWithin
  <2>5. before' = bid /\ proposedUnder' = cfg
    BY <1>1 DEF Propose
  <2>6. ProposalInBounds'
    BY <2>2, <2>4, <2>5 DEF ProposalInBounds
  <2>7. ProposalNearLimit'
    BY <2>2, <2>4, <2>5 DEF ProposalNearLimit, Fine, Lowest, Highest
  <2> QED
    BY <2>6, <2>7
<1>2. ASSUME UNCHANGED <<before, after, proposedUnder>>, status' # "none" => Made
      PROVE  ProposalInBounds' /\ ProposalNearLimit'
  BY <1>2 DEF ProposalInBounds, ProposalNearLimit, Fine, Lowest, Highest
<1>3. ASSUME NEW answer \in {"approved", "rejected"}, Decide(answer)
      PROVE  ProposalInBounds' /\ ProposalNearLimit'
  BY <1>2, <1>3 DEF Decide
<1>4. CASE Refuse \/ Retry
  BY <1>2, <1>4 DEF Refuse, Retry
<1>5. CASE LetThrough \/ RunLost \/ ChangeSettings \/ NextDay \/ ChangeElsewhere \/ UNCHANGED vars
  BY <1>2, <1>5 DEF LetThrough, RunLost, ChangeSettings, NextDay, ChangeElsewhere, rowVars, vars
<1>6. CASE Apply
  BY <1>2, <1>6 DEF Apply, PinnedIsApproved
<1> QED
  BY <1>1, <1>3, <1>4, <1>5, <1>6 DEF Next

\* check never lets a bid outside min_bid .. max_bid reach the approver, for
\* any rule, any settings and any bid, rounding included.
THEOREM ProposalInBoundsHolds == Spec => []ProposalInBounds
<1>1. Init => ProposalInBounds /\ ProposalNearLimit
  BY DEF Init, ProposalInBounds, ProposalNearLimit
<1> QED
  BY <1>1, PinnedHolds, ProposalStep, PTL DEF Spec, PinnedInv

\* Rounding and the bounds are the only ways a proposal leaves
\* max_change_pct, and rounding costs at most half a cent.
THEOREM ProposalNearLimitHolds == Spec => []ProposalNearLimit
<1>1. Init => ProposalInBounds /\ ProposalNearLimit
  BY DEF Init, ProposalInBounds, ProposalNearLimit
<1> QED
  BY <1>1, PinnedHolds, ProposalStep, PTL DEF Spec, PinnedInv

\* A bid that reaches Amazon is inside the limits of the settings its run has
\* read, whatever they were when it was proposed and approved, and whatever
\* moved while the run worked through its batch.
THEOREM AppliedWithinRunLimitsHolds == Spec => AppliedWithinRunLimits
<1>1. ASSUME TypeOK, PinnedInv, [Next]_vars, status = "approved", status' = "applied"
      PROVE  /\ pinned # None /\ pinned.enabled
             /\ before > 0 => Fine(bid') \in Lowest(before, pinned) .. Highest(before, pinned)
             /\ bid' \in pinned.minBid .. pinned.maxBid
             /\ sinceApplied \notin 0 .. pinned.cooldown - 1
  <2>1. Apply
    BY <1>1 DEF Next, Propose, Decide, LetThrough, RunLost, Refuse, Retry, ChangeSettings, NextDay,
                ChangeElsewhere, rowVars, vars
  <2> QED
    BY <1>1, <2>1 DEF Apply, PinnedInv
<1> QED
  BY <1>1, PinnedHolds, PTL DEF Spec, AppliedWithinRunLimits

\* While nothing has moved since the proposal, its settings are still in force
\* and no guard blocks it.
UnmovedInv ==
    ~moved /\ status \in {"pending", "approved", "failed"} =>
        ~Blocked(evidence, cfg) /\ proposedUnder = cfg

LEMMA UnmovedStep ==
    ASSUME UnmovedInv, [Next]_vars
    PROVE  UnmovedInv'
<1> USE DEF Blocked, DataQualityBlocks, CooldownBlocks, BlastRadiusBlocks
<1>1. ASSUME NEW o \in RuleOps, NEW m \in Metrics, NEW age \in LoadAges, Propose(o, m, age)
      PROVE  UnmovedInv'
  <2>1. evidence' = Evidence(m, age) /\ ~Blocked(Evidence(m, age), cfg)
    BY <1>1 DEF Propose
  <2>2. UNCHANGED <<cfg, sinceApplied, changes>> /\ proposedUnder' = cfg
    BY <1>1 DEF Propose
  <2> QED
    BY <2>1, <2>2 DEF UnmovedInv
<1>2. ASSUME NEW answer \in {"approved", "rejected"}, Decide(answer)
      PROVE  UnmovedInv'
  BY <1>2 DEF Decide, UnmovedInv
<1>3. CASE Apply
  BY <1>3 DEF Apply, UnmovedInv
<1>4. CASE Refuse \/ Retry \/ LetThrough \/ RunLost
  BY <1>4 DEF Refuse, Retry, LetThrough, RunLost, rowVars, UnmovedInv
<1>5. CASE ChangeSettings \/ NextDay \/ ChangeElsewhere
  BY <1>5 DEF ChangeSettings, NextDay, ChangeElsewhere, Happens, UnmovedInv
<1>6. CASE UNCHANGED vars
  BY <1>6 DEF vars, rowVars, UnmovedInv
<1> QED
  BY <1>1, <1>2, <1>3, <1>4, <1>5, <1>6 DEF Next

\* A value inside the bounds and strictly inside the percentage limits passes
\* step 9 of check as it is.
LEMMA MagnitudeKeeps ==
    ASSUME NEW b \in Nat, NEW c \in Settings, NEW a \in c.minBid .. c.maxBid,
           b > 0 => Fine(a) \in Lowest(b, c) + 1 .. Highest(b, c) - 1,
           NEW m \in Magnitude(b, a, c)
    PROVE  ~m.clamped /\ m.value = a
<1>1. /\ c.minBid \in Nat /\ c.maxBid \in Nat /\ c.pct \in 1 .. 100
  BY GuardrailAssumption DEF SettingsType
<1>2. a \in Nat /\ Fine(a) \in Nat /\ Fine(a) = 100 * a
  BY <1>1 DEF Fine
<1>3. PICK d \in ClampChange(b, Fine(a), c) : \E w \in Round(ApplyBounds(d, c).v) :
          m = [value |-> w, clamped |-> ApplyBounds(d, c).clamped]
  BY DEF Magnitude
<1>4. Lowest(b, c) \in Int /\ Highest(b, c) \in Int
  BY <1>2, <1>3, ClampWithin
<1>5. d = [v |-> Fine(a), clamped |-> FALSE]
  BY <1>2, <1>3, <1>4 DEF ClampChange
<1>6. ApplyBounds(d, c).v = Fine(a) /\ ApplyBounds(d, c).clamped = FALSE
  <2>1. ApplyBounds(d, c) = d
    BY <1>1, <1>2, <1>5 DEF ApplyBounds, Fine
  <2> QED
    BY <1>5, <2>1
<1>7. PICK w \in Round(Fine(a)) : m = [value |-> w, clamped |-> FALSE]
  BY <1>3, <1>6, Zenon
<1>8. w \in Int /\ 100 * w - 100 * a \in -50 .. 50
  BY <1>2, <1>7, RoundNear
<1>9. 100 * a % 100 = 0 /\ (100 * a + 50) \div 100 = a
  BY <1>2
<1>10. w = a
  BY <1>2, <1>7, <1>9 DEF Round
<1> QED
  BY <1>7, <1>10

\* The second check refuses an unmoved proposal only where rounding or a bound
\* has put it on or beyond the percentage limit; inside, an approval is never
\* lost, for any rules and settings.
THEOREM RefusedOnlyAtLimitHolds == Spec => RefusedOnlyAtLimit
<1>1. Init => UnmovedInv
  BY DEF Init, UnmovedInv
<1>2. Spec => []UnmovedInv
  BY <1>1, UnmovedStep, PTL DEF Spec
<1>3. ASSUME TypeOK, ProposalInBounds, UnmovedInv, [Next]_vars,
             status = "approved", status' = "failed", ~moved
      PROVE  /\ before > 0
             /\ Fine(after) \notin Lowest(before, cfg) + 1 .. Highest(before, cfg) - 1
  <2>1. Refuse
    BY <1>3 DEF Next, Propose, Decide, LetThrough, Apply, RunLost, Refuse, Retry, ChangeSettings,
                NextDay, ChangeElsewhere, rowVars, vars
  <2>2. ~Blocked(evidence, cfg) /\ proposedUnder = cfg
    BY <1>3 DEF UnmovedInv
  <2>3. PICK d \in Magnitude(before, after, cfg) : ~Unaltered(d)
    BY <2>1, <2>2 DEF Refuse
  <2>4. before \in Nat /\ cfg \in Settings /\ after \in cfg.minBid .. cfg.maxBid
    BY <1>3, <2>2 DEF TypeOK, ProposalInBounds
  <2>5. ~(before > 0 => Fine(after) \in Lowest(before, cfg) + 1 .. Highest(before, cfg) - 1)
    BY <2>3, <2>4, MagnitudeKeeps DEF Unaltered
  <2> QED
    BY <2>4, <2>5
<1> QED
  BY <1>2, <1>3, TypeCorrect, ProposalInBoundsHolds, PTL DEF Spec, RefusedOnlyAtLimit

-----------------------------------------------------------------------------
(* SearchTerms: the invariant.                                             *)

Lineages == [source : Sources, dest : Destinations, match : {"exact", "product"}]

\* Types, those the code relies on between its steps included.
TermTypes ==
    /\ routes \subseteq Routes
    /\ orders \in [Sources -> 0 .. MaxOrders]
    /\ promotion \in [Promotions -> SM!Status \union {"none"}]
    /\ plan \in Lineages \union {NoLineage}
    /\ lineage \in [Promotions -> Lineages \union {NoLineage}]
    /\ applied \in Seq(Promotions) /\ failedOnce \subseteq Promotions
    /\ target \in [Destinations -> {"none", "enabled", "paused"}]
    /\ traffic \in [Promotions -> 0 .. MinTraffic]
    /\ competes \subseteq Promotions /\ negated \subseteq Sources
    /\ mart \in [target : [Destinations -> {"none", "enabled", "paused"}],
                 traffic : [Promotions -> 0 .. MinTraffic],
                 competes : SUBSET Promotions, negated : SUBSET Sources]
    /\ Idle \/ found \in [Promotions -> {"none", "recommended", "blocked"}]
    /\ found \in [Promotions -> {"idle", "none", "recommended", "blocked"}]
    /\ isolation \in [Promotions -> {"none", "recommended", "blocked"}]

\* A promotion has its lineage from its insert on; it is in the order of
\* execution once, from the moment it is applied.
ExecutionInv ==
    /\ \A i \in Promotions : promotion[i] = "none" <=> lineage[i] = NoLineage
    /\ \A i \in Promotions : promotion[i] \in {"applied", "verified"} <=> Executed(i)
    /\ IsInjective(applied)

\* Traffic is counted from the execution on, and the mart is never ahead.
TrafficInv ==
    \A i \in Promotions :
        /\ traffic[i] > 0 => Executed(i)
        /\ mart.traffic[i] <= traffic[i]

\* A rules run that has a plan has seen no open promotion, and only promotions
\* that have failed can open behind its back.
PlanInv ==
    /\ \A i \in Promotions : promotion[i] = "failed" => i \in failedOnce
    /\ Unplanned \/ \A i \in Promotions \ failedOnce : promotion[i] \notin OpenActionStatuses

Isolable(i) ==
    /\ Executed(i) /\ traffic[i] >= MinTraffic
    /\ lineage[i].match = "exact" /\ lineage[i].source # lineage[i].dest

\* What the analysis in hand recommends is served, and it recommends one
\* negative for a source.
FindingInv ==
    /\ \A i \in Promotions : found[i] = "recommended" =>
           Isolable(i) /\ lineage[i].source \in seen
    /\ \A i, j \in Promotions : found[i] = "recommended" /\ found[j] = "recommended" /\ i # j =>
           lineage[i].source # lineage[j].source

TermInv ==
    /\ TermTypes /\ ExecutionInv /\ TrafficInv
    /\ PlanInv /\ OnePromotion
    /\ FindingInv /\ IsolatedIsServed /\ AnalysisCompletes /\ RevivedBidIsSafe

-----------------------------------------------------------------------------
(* SearchTerms: what its operators return.                                 *)

\* A set of numbers has a least one, as < is well-founded.
LEMMA LeastOf ==
    ASSUME NEW T \in SUBSET Nat, T # {}
    PROVE  \E x \in T : \A y \in T : x <= y
<1> DEFINE Less == OpToRel(<, Nat)
<1>1. IsWellFoundedOn(Less, Nat)
  BY NatLessThanWellFounded
<1>2. \A x, y \in T : y < x => <<y, x>> \in Less
  BY DEF OpToRel
<1> HIDE DEF Less
<1>3. PICK x \in T : \A y \in T : <<y, x>> \notin Less
  BY <1>1, WFMin
<1>4. \A y \in T : ~(y < x)
  BY <1>2, <1>3
<1> QED
  BY <1>4

\* choose_source returns the source that has the most orders, and of those
\* with as many the lowest ad group, as soon as there is one.
LEMMA SourceIsBest ==
    ASSUME orders \in [Sources -> 0 .. MaxOrders], ChooseSource # 0
    PROVE  /\ ChooseSource \in Sources /\ orders[ChooseSource] > 0
           /\ \A o \in Sources :
                  \/ orders[ChooseSource] > orders[o]
                  \/ (orders[ChooseSource] = orders[o] /\ ChooseSource <= o)
<1> DEFINE rows == {g \in Sources : orders[g] > 0}
           Best(g) == \A o \in rows :
                          orders[g] > orders[o] \/ (orders[g] = orders[o] /\ g <= o)
<1>1. rows # {} /\ ChooseSource = CHOOSE g \in rows : Best(g)
  BY DEF ChooseSource
<1>2. Sources \subseteq Nat /\ MaxOrders \in Nat
  BY SearchTermsAssumption DEF AdGroups
<1>3. \A g \in Sources : orders[g] \in Nat /\ MaxOrders - orders[g] \in Nat
  BY <1>2
<1>4. PICK m \in rows : \A o \in rows : orders[m] >= orders[o]
  <2> DEFINE gaps == {MaxOrders - orders[g] : g \in rows}
  <2>1. gaps \subseteq Nat /\ gaps # {}
    BY <1>1, <1>3
  <2>2. PICK n \in gaps : \A k \in gaps : n <= k
    <3> HIDE DEF gaps
    <3> QED
      BY <2>1, LeastOf
  <2>3. PICK g \in rows : n = MaxOrders - orders[g]
    BY <2>2
  <2>4. ASSUME NEW o \in rows PROVE orders[g] >= orders[o]
    <3>1. MaxOrders - orders[g] <= MaxOrders - orders[o]
      BY <2>2, <2>3
    <3> QED
      BY <3>1, <1>2, <1>3
  <2> QED
    BY <2>4
<1>5. PICK g \in rows : Best(g)
  <2> DEFINE tied == {o \in rows : orders[o] = orders[m]}
  <2>1. tied \subseteq Nat /\ tied # {}
    BY <1>2, <1>4
  <2>2. PICK g \in tied : \A k \in tied : g <= k
    <3> HIDE DEF tied
    <3> QED
      BY <2>1, LeastOf
  <2>3. ASSUME NEW o \in rows
        PROVE  orders[g] > orders[o] \/ (orders[g] = orders[o] /\ g <= o)
    <3>1. orders[g] = orders[m] /\ orders[m] >= orders[o]
      BY <1>4, <2>2
    <3>2. CASE orders[o] = orders[m]
      BY <2>2, <3>1, <3>2
    <3>3. CASE orders[o] # orders[m]
      BY <1>3, <3>1, <3>3
    <3> QED
      BY <3>2, <3>3
  <2> QED
    BY <2>3
<1>6. ChooseSource \in rows /\ Best(ChooseSource)
  <2> HIDE DEF rows, Best
  <2> QED
    BY <1>1, <1>5
<1>7. ASSUME NEW o \in Sources \ rows PROVE orders[ChooseSource] > orders[o]
  BY <1>3, <1>6
<1>8. ASSUME NEW o \in Sources
      PROVE  \/ orders[ChooseSource] > orders[o]
             \/ (orders[ChooseSource] = orders[o] /\ ChooseSource <= o)
  BY <1>6, <1>7
<1> QED
  BY <1>6, <1>8

\* What is appended to the order of execution is in it from then on.
LEMMA AppendRange ==
    ASSUME NEW S, NEW s \in Seq(S), NEW x \in S
    PROVE  Range(Append(s, x)) = Range(s) \union {x}
<1>1. \A k \in 1 .. Len(s) : Append(s, x)[k] = s[k]
  OBVIOUS
<1>2. DOMAIN Append(s, x) = 1 .. (Len(s) + 1) /\ Append(s, x)[Len(s) + 1] = x
  OBVIOUS
<1>3. DOMAIN s = 1 .. Len(s) /\ Len(s) \in Nat
  OBVIOUS
<1> QED
  BY <1>1, <1>2, <1>3 DEF Range

\* Appending what is not there yet keeps the order free of repetition.
LEMMA AppendOnce ==
    ASSUME NEW S, NEW s \in Seq(S), NEW x \in S, IsInjective(s), x \notin Range(s)
    PROVE  IsInjective(Append(s, x))
<1> SUFFICES ASSUME NEW t, t = Append(s, x) PROVE IsInjective(t)
  OBVIOUS
<1>1. DOMAIN s = 1 .. Len(s) /\ Len(s) \in Nat
  OBVIOUS
<1>2. DOMAIN t = 1 .. (Len(s) + 1) /\ t[Len(s) + 1] = x
  OBVIOUS
<1>3. \A k \in 1 .. Len(s) : t[k] = s[k] /\ s[k] # x
  BY <1>1 DEF Range
<1>4. ASSUME NEW j \in DOMAIN t, NEW k \in DOMAIN t, t[j] = t[k]
      PROVE  j = k
  <2>1. CASE j \in 1 .. Len(s) /\ k \in 1 .. Len(s)
    BY <1>1, <1>3, <1>4, <2>1 DEF IsInjective
  <2>2. CASE j = Len(s) + 1 \/ k = Len(s) + 1
    BY <1>1, <1>2, <1>3, <1>4, <2>2
  <2> QED
    BY <1>1, <1>2, <2>1, <2>2
<1> QED
  BY <1>4 DEF IsInjective

\* decide_revive: a recommended bid is within the bounds of the tenant, no
\* higher than the last bid, and less than a cent above the break-even CPC.
LEMMA RevivedWithin ==
    ASSUME NEW h \in Histories, NEW f \in DecideRevive(h), f.decision = "recommended"
    PROVE  /\ f.bid \in MinBid .. MaxBid /\ f.bid <= f.history.bid
           /\ 10 * f.bid < f.history.breakEven + 10
<1> DEFINE wanted == ReviveTarget(h)
           x == IF wanted < 10 * MaxBid THEN wanted ELSE 10 * MaxBid
<1>1. /\ h.bid \in Nat /\ h.breakEven \in Nat
      /\ MinBid \in Nat /\ MaxBid \in Nat /\ MinBid <= MaxBid
  BY SearchTermsAssumption
<1>2. /\ wanted >= 10 * MinBid
      /\ f \in {[history |-> h, decision |-> "recommended", bid |-> y] : y \in RoundedCents(x)}
  BY DEF DecideRevive
<1>3. PICK y \in RoundedCents(x) : f = [history |-> h, decision |-> "recommended", bid |-> y]
  BY <1>2
<1>4. wanted \in Nat /\ wanted <= 10 * h.bid /\ wanted <= h.breakEven
  BY <1>1 DEF ReviveTarget
<1>5. x \in Nat /\ 10 * MinBid <= x /\ x <= 10 * MaxBid /\ x <= wanted
  BY <1>1, <1>2, <1>4
<1> HIDE DEF x, wanted
<1>6. y \in Int /\ 10 * y - x \in -5 .. 5
  BY <1>5 DEF RoundedCents
<1> QED
  BY <1>1, <1>3, <1>4, <1>5, <1>6

-----------------------------------------------------------------------------
(* SearchTerms: every step keeps the invariant.                            *)

\* Steps that touch neither promotions nor Amazon, marts or findings.
Aside == UNCHANGED <<harvestVars, worldVars, routes, orders, mart, analysisVars>>

LEMMA TermSteps ==
    ASSUME [TermNext]_termVars
    PROVE  \/ PlanHarvest \/ RecordLineage \/ \E i \in Promotions : MovePromotion(i)
           \/ \E g \in Destinations : ChangeTarget(g) \/ Serve(g)
           \/ \E g \in Sources : Compete(g)
           \/ QueueNegative \/ \E r \in Routes : ToggleRoute(r)
           \/ RefreshMart \/ StartAnalysis \/ Isolate \/ Insert
           \/ Aside
<1>1. ASSUME NEW p \in {"protect", "deny"}, Protect(p) PROVE Aside
  BY <1>1 DEF Protect, Aside
<1>2. ASSUME NEW k \in DOMAIN protections, Release(k) \/ Expire(k) PROVE Aside
  BY <1>2 DEF Release, Expire, Aside
<1>3. ASSUME NEW s \in Scopes, GoStale(s) PROVE Aside
  BY <1>3 DEF GoStale, Aside
<1>4. CASE Recover
  BY <1>4 DEF Recover, Aside
<1>5. CASE UNCHANGED termVars
  BY <1>5 DEF termVars, configVars, otherConfig, Aside
<1> QED
  BY <1>1, <1>2, <1>3, <1>4, <1>5 DEF TermNext, People, Analysis

\* plan_harvest: the plan leads from a source to the destination of a route.
LEMMA PlanIsLineage ==
    ASSUME TermTypes, PlanHarvest
    PROVE  plan' \in Lineages
<1>1. PICK d \in SelectRoute(BuildCandidate(term)) :
          plan' = [source |-> ChooseSource, dest |-> d, match |-> BuildCandidate(term).match]
  BY DEF PlanHarvest
<1>2. ChooseSource \in Sources
  BY SourceIsBest DEF TermTypes, PlanHarvest
<1>3. d \in Destinations
  <2>1. \A r \in routes : r.dest \in Destinations
    BY SearchTermsAssumption DEF TermTypes
  <2> QED
    BY <1>1, <2>1 DEF SelectRoute
<1>4. BuildCandidate(term).match \in {"exact", "product"}
  BY DEF BuildCandidate, DestinationMatchType
<1> QED
  BY <1>1, <1>2, <1>3, <1>4 DEF Lineages

\* What was executed keeps its lineage and loses no traffic, and neither does
\* what the analysis or the mart says of it become wrong by it.
LEMMA Growth ==
    ASSUME TermTypes, ExecutionInv, [TermNext]_termVars
    PROVE  \A i \in Promotions :
               /\ promotion[i] # "none" => lineage'[i] = lineage[i]
               /\ Executed(i) => Executed(i)'
               /\ traffic'[i] \in 0 .. MinTraffic /\ traffic'[i] >= traffic[i]
<1> USE SearchTermsAssumption
<1>1. CASE RecordLineage
  <2>1. PICK i \in Promotions : promotion[i] = "none" /\ lineage' = [lineage EXCEPT ![i] = NewLineage]
    BY <1>1 DEF RecordLineage
  <2>2. UNCHANGED <<traffic, applied>>
    BY <1>1 DEF RecordLineage, worldVars
  <2> QED
    BY <2>1, <2>2 DEF TermTypes, Executed
<1>2. ASSUME NEW i \in Promotions, MovePromotion(i)
      PROVE  UNCHANGED <<lineage, traffic>> /\ Range(applied) \subseteq Range(applied')
  BY <1>2, AppendRange DEF MovePromotion, worldVars, TermTypes
<1>3. ASSUME NEW g \in Destinations, Serve(g)
      PROVE  /\ UNCHANGED <<lineage, applied>>
             /\ traffic' = [i \in Promotions |->
                    IF Executed(i) /\ lineage[i].dest = g /\ traffic[i] < MinTraffic
                    THEN traffic[i] + 1 ELSE traffic[i]]
  BY <1>3 DEF Serve, harvestVars
<1>4. CASE \/ PlanHarvest \/ \E g \in Destinations : ChangeTarget(g)
           \/ \E g \in Sources : Compete(g)
           \/ QueueNegative \/ \E r \in Routes : ToggleRoute(r)
           \/ RefreshMart \/ StartAnalysis \/ Isolate \/ Insert
           \/ Aside
  <2>1. UNCHANGED <<lineage, traffic, applied>>
    BY <1>4 DEF PlanHarvest, ChangeTarget, Compete, QueueNegative, ToggleRoute, RefreshMart,
                StartAnalysis, Isolate, Insert, Aside, harvestVars, worldVars
  <2> QED
    BY <2>1 DEF TermTypes, Executed
<1>5. ASSUME NEW g \in Destinations, Serve(g), NEW i \in Promotions
      PROVE  traffic'[i] \in 0 .. MinTraffic /\ traffic'[i] >= traffic[i]
  <2>1. traffic[i] \in 0 .. MinTraffic
    BY DEF TermTypes
  <2>2. traffic'[i] = traffic[i] \/ (traffic[i] < MinTraffic /\ traffic'[i] = traffic[i] + 1)
    BY <1>3, <1>5
  <2> QED
    BY <2>1, <2>2
<1>6. CASE \E g \in Destinations : Serve(g)
  BY <1>3, <1>5, <1>6 DEF Executed
<1>7. CASE \E i \in Promotions : MovePromotion(i)
  BY <1>2, <1>7 DEF Executed, TermTypes
<1> QED
  BY <1>1, <1>4, <1>6, <1>7, TermSteps

\* Every step keeps the types.
LEMMA TermTypesStep ==
    ASSUME TermTypes, [TermNext]_termVars
    PROVE  TermTypes'
<1> USE SearchTermsAssumption DEF Idle
<1>0. Sources \subseteq AdGroups /\ MinTraffic \in Nat
  BY DEF AdGroups
<1>1. CASE PlanHarvest
  <2>1. plan' \in Lineages
    BY <1>1, PlanIsLineage
  <2> QED
    BY <1>1, <2>1 DEF PlanHarvest, TermTypes, worldVars, configVars, otherConfig, analysisVars
<1>2. CASE RecordLineage
  <2>1. PICK i \in Promotions : /\ promotion' = [promotion EXCEPT ![i] = "pending"]
                                /\ lineage' = [lineage EXCEPT ![i] = plan]
    BY <1>2 DEF RecordLineage, NewLineage
  <2>2. /\ promotion' \in [Promotions -> SM!Status \union {"none"}]
        /\ lineage' \in [Promotions -> Lineages \union {NoLineage}]
    BY <2>1 DEF TermTypes, SM!Status
  <2>3. plan' = NoLineage
    BY <1>2 DEF RecordLineage
  <2> QED
    BY <1>2, <2>2, <2>3
    DEF RecordLineage, TermTypes, worldVars, configVars, otherConfig, analysisVars
<1>3. ASSUME NEW i \in Promotions, MovePromotion(i) PROVE TermTypes'
  <2>1. PICK s \in SM!Status :
            /\ promotion' = [promotion EXCEPT ![i] = s]
            /\ applied' = IF s = "applied" THEN Append(applied, i) ELSE applied
            /\ failedOnce' = IF s = "failed" THEN failedOnce \union {i} ELSE failedOnce
    BY <1>3 DEF MovePromotion
  <2>2. promotion' \in [Promotions -> SM!Status \union {"none"}]
    BY <2>1 DEF TermTypes
  <2>3. applied' \in Seq(Promotions)
    BY <2>1 DEF TermTypes
  <2>4. failedOnce' \subseteq Promotions
    BY <2>1 DEF TermTypes
  <2> QED
    BY <1>3, <2>2, <2>3, <2>4
    DEF MovePromotion, TermTypes, worldVars, configVars, otherConfig, analysisVars
<1>4. ASSUME NEW g \in Destinations, ChangeTarget(g) PROVE TermTypes'
  BY <1>4 DEF ChangeTarget, TermTypes, harvestVars, otherConfig, analysisVars
<1>5. ASSUME NEW g \in Destinations, Serve(g) PROVE TermTypes'
  <2>1. traffic' = [i \in Promotions |->
            IF Executed(i) /\ lineage[i].dest = g /\ traffic[i] < MinTraffic
            THEN traffic[i] + 1 ELSE traffic[i]]
    BY <1>5 DEF Serve
  <2>2. ASSUME NEW i \in Promotions PROVE traffic'[i] \in 0 .. MinTraffic
    <3>1. traffic[i] \in 0 .. MinTraffic
      BY DEF TermTypes
    <3> QED
      BY <2>1, <3>1, <1>0
  <2>3. traffic' \in [Promotions -> 0 .. MinTraffic]
    BY <2>1, <2>2
  <2> QED
    BY <1>5, <2>3 DEF Serve, TermTypes, harvestVars, configVars, otherConfig, analysisVars
<1>6. ASSUME NEW g \in Sources, Compete(g) PROVE TermTypes'
  BY <1>6 DEF Compete, TermTypes, harvestVars, configVars, otherConfig, analysisVars
<1>7. CASE QueueNegative
  BY <1>7 DEF QueueNegative, TermTypes, harvestVars, otherConfig, analysisVars
<1>8. ASSUME NEW r \in Routes, ToggleRoute(r) PROVE TermTypes'
  BY <1>8 DEF ToggleRoute, TermTypes, harvestVars, worldVars, analysisVars
<1>9. CASE RefreshMart
  <2>1. mart' = Seen
    BY <1>9 DEF RefreshMart
  <2> QED
    BY <1>9, <2>1
    DEF RefreshMart, TermTypes, Seen, harvestVars, worldVars, configVars, otherConfig, analysisVars
<1>10. CASE StartAnalysis
  BY <1>10 DEF StartAnalysis, TermTypes, harvestVars, worldVars, configVars, otherConfig
<1>11. CASE Isolate
  <2>1. DecideIsolation(Head(queue)) \in {"recommended", "blocked"}
    BY DEF DecideIsolation
  <2>2. found' \in [Promotions -> {"none", "recommended", "blocked"}]
    BY <1>11, <2>1 DEF Isolate, TermTypes
  <2> QED
    BY <1>11, <2>2 DEF Isolate, TermTypes, harvestVars, worldVars, configVars, otherConfig
<1>12. CASE Insert
  <2>1. /\ \/ isolation' = isolation
           \/ isolation' = [i \in Promotions |->
                                IF found[i] = "none" THEN isolation[i] ELSE found[i]]
        /\ found' = [i \in Promotions |-> "idle"]
    BY <1>12 DEF Insert
  <2>2. found \in [Promotions -> {"none", "recommended", "blocked"}]
    BY <1>12 DEF Insert, TermTypes
  <2>3. isolation' \in [Promotions -> {"none", "recommended", "blocked"}]
    BY <2>1, <2>2 DEF TermTypes
  <2>4. Idle' /\ found' \in [Promotions -> {"idle", "none", "recommended", "blocked"}]
    BY <2>1 DEF Idle
  <2> QED
    BY <1>12, <2>3, <2>4 DEF Insert, TermTypes, harvestVars, worldVars, configVars, otherConfig
<1>13. CASE Aside
  BY <1>13 DEF Aside, TermTypes, harvestVars, worldVars, analysisVars
<1> QED
  BY <1>1, <1>2, <1>3, <1>4, <1>5, <1>6, <1>7, <1>8, <1>9, <1>10, <1>11, <1>12, <1>13, TermSteps

\* Every step that is not of the queue leaves promotions and their order alone.
LEMMA PromotionSteps ==
    ASSUME [TermNext]_termVars
    PROVE  \/ RecordLineage \/ \E i \in Promotions : MovePromotion(i)
           \/ UNCHANGED <<promotion, lineage, applied, failedOnce, plan>>
           \/ PlanHarvest
BY TermSteps
DEF ChangeTarget, Serve, Compete, QueueNegative, ToggleRoute, RefreshMart, StartAnalysis,
    Isolate, Insert, Aside, harvestVars

LEMMA ExecutionStep ==
    ASSUME TermTypes, ExecutionInv, [TermNext]_termVars
    PROVE  ExecutionInv'
<1>1. CASE RecordLineage
  <2>1. PICK i \in Promotions : /\ promotion[i] = "none"
                                /\ promotion' = [promotion EXCEPT ![i] = "pending"]
                                /\ lineage' = [lineage EXCEPT ![i] = plan]
    BY <1>1 DEF RecordLineage, NewLineage
  <2>2. plan # NoLineage /\ applied' = applied
    BY <1>1 DEF RecordLineage, Unplanned
  <2>3. \A j \in Promotions : promotion'[j] = "none" <=> lineage'[j] = NoLineage
    BY <2>1, <2>2 DEF ExecutionInv, TermTypes
  <2>4. \A j \in Promotions : promotion'[j] \in {"applied", "verified"} <=> Executed(j)'
    BY <2>1, <2>2 DEF ExecutionInv, TermTypes, Executed
  <2> QED
    BY <2>2, <2>3, <2>4 DEF ExecutionInv
<1>2. ASSUME NEW i \in Promotions, MovePromotion(i) PROVE ExecutionInv'
  <2>1. PICK s \in SM!Status \ {"rolled_back"} :
            /\ promotion[i] # "none" /\ <<promotion[i], s>> \in SM!Allowed
            /\ promotion' = [promotion EXCEPT ![i] = s]
            /\ applied' = IF s = "applied" THEN Append(applied, i) ELSE applied
            /\ lineage' = lineage
    BY <1>2 DEF MovePromotion
  <2>2. /\ s = "applied" => promotion[i] = "approved"
        /\ s = "verified" <=> promotion[i] = "applied"
        /\ promotion[i] # "verified" /\ s # "none"
    BY <2>1 DEF SM!Allowed, SM!Status
  <2>3. \A j \in Promotions : promotion'[j] = IF j = i THEN s ELSE promotion[j]
    BY <2>1 DEF TermTypes
  <2>4. \A j \in Promotions : promotion'[j] = "none" <=> lineage'[j] = NoLineage
    BY <2>1, <2>2, <2>3 DEF ExecutionInv
  <2>5. CASE s = "applied"
    <3>1. ~Executed(i) /\ applied' = Append(applied, i)
      BY <2>1, <2>2, <2>5 DEF ExecutionInv
    <3>2. Range(applied') = Range(applied) \union {i} /\ IsInjective(applied')
      <4>1. applied \in Seq(Promotions) /\ IsInjective(applied) /\ i \notin Range(applied)
        BY <3>1 DEF ExecutionInv, TermTypes, Executed
      <4> QED
        BY <3>1, <4>1, AppendRange, AppendOnce
    <3>3. \A j \in Promotions : promotion'[j] \in {"applied", "verified"} <=> Executed(j)'
      BY <2>3, <2>5, <3>2 DEF ExecutionInv, Executed
    <3> QED
      BY <2>4, <3>2, <3>3 DEF ExecutionInv
  <2>6. CASE s # "applied"
    <3>1. applied' = applied
      BY <2>1, <2>6
    <3>2. \A j \in Promotions : promotion'[j] \in {"applied", "verified"} <=> Executed(j)'
      BY <2>2, <2>3, <2>6, <3>1 DEF ExecutionInv, Executed
    <3> QED
      BY <2>4, <3>1, <3>2 DEF ExecutionInv
  <2> QED
    BY <2>5, <2>6
<1>3. CASE UNCHANGED <<promotion, lineage, applied>>
  BY <1>3 DEF ExecutionInv, Executed
<1> QED
  BY <1>1, <1>2, <1>3, PromotionSteps DEF PlanHarvest

LEMMA TrafficStep ==
    ASSUME TermTypes, ExecutionInv, TrafficInv, [TermNext]_termVars
    PROVE  TrafficInv'
<1>0. MinTraffic \in Nat
  BY SearchTermsAssumption
<1>1. \A i \in Promotions : /\ traffic[i] \in 0 .. MinTraffic /\ mart.traffic[i] \in 0 .. MinTraffic
                            /\ traffic[i] > 0 => Executed(i)
                            /\ mart.traffic[i] <= traffic[i]
  BY DEF TermTypes, TrafficInv
<1>2. \A i \in Promotions : /\ Executed(i) => Executed(i)'
                            /\ traffic'[i] \in 0 .. MinTraffic /\ traffic'[i] >= traffic[i]
  BY Growth
<1>3. \A i \in Promotions : traffic'[i] = traffic[i] \/ Executed(i)
  <2>1. ASSUME NEW g \in Destinations, Serve(g), NEW i \in Promotions
        PROVE  traffic'[i] = traffic[i] \/ Executed(i)
    BY <2>1 DEF Serve
  <2>2. (\E g \in Destinations : Serve(g)) \/ traffic' = traffic
    BY TermSteps
    DEF PlanHarvest, RecordLineage, MovePromotion, ChangeTarget, Compete, QueueNegative,
        ToggleRoute, RefreshMart, StartAnalysis, Isolate, Insert, Aside, worldVars
  <2> QED
    BY <2>1, <2>2
<1>4. mart' = mart \/ (mart' = Seen /\ traffic' = traffic)
  BY TermSteps
  DEF PlanHarvest, RecordLineage, MovePromotion, ChangeTarget, Serve, Compete, QueueNegative,
      ToggleRoute, RefreshMart, StartAnalysis, Isolate, Insert, Aside, worldVars
<1>5. ASSUME NEW i \in Promotions PROVE mart'.traffic[i] <= traffic'[i]
  <2>1. CASE mart' = mart
    BY <1>0, <1>1, <1>2, <2>1
  <2>2. CASE mart' = Seen /\ traffic' = traffic
    <3>1. mart'.traffic[i] = traffic[i]
      BY <2>2 DEF Seen
    <3> QED
      BY <1>0, <1>1, <2>2, <3>1
  <2> QED
    BY <1>4, <2>1, <2>2
<1> QED
  BY <1>1, <1>2, <1>3, <1>5 DEF TrafficInv

\* No promotion but one that has failed can open while a plan is in hand, so
\* the plan's own is the only one.
LEMMA PlanStep ==
    ASSUME TermTypes, PlanInv, OnePromotion, [TermNext]_termVars
    PROVE  PlanInv' /\ OnePromotion'
<1> USE DEF OpenActionStatuses
<1>1. CASE PlanHarvest
  <2>1. UNCHANGED <<promotion, failedOnce>> /\ ~OpenPromotion
    BY <1>1 DEF PlanHarvest
  <2> QED
    BY <2>1 DEF PlanInv, OnePromotion, OpenPromotion
<1>2. CASE RecordLineage
  <2>1. PICK i \in Promotions : promotion' = [promotion EXCEPT ![i] = "pending"]
    BY <1>2 DEF RecordLineage
  <2>2. ~Unplanned /\ Unplanned' /\ failedOnce' = failedOnce
    BY <1>2 DEF RecordLineage, Unplanned
  <2>3. \A j \in Promotions : promotion'[j] = IF j = i THEN "pending" ELSE promotion[j]
    BY <2>1 DEF TermTypes
  <2>4. \A j \in Promotions \ failedOnce : promotion'[j] \in OpenActionStatuses => j = i
    BY <2>2, <2>3 DEF PlanInv
  <2> QED
    BY <2>2, <2>3, <2>4 DEF PlanInv, OnePromotion
<1>3. ASSUME NEW i \in Promotions, MovePromotion(i) PROVE PlanInv' /\ OnePromotion'
  <2>1. PICK s \in SM!Status \ {"rolled_back"} :
            /\ promotion[i] # "none" /\ <<promotion[i], s>> \in SM!Allowed
            /\ promotion' = [promotion EXCEPT ![i] = s]
            /\ failedOnce' = IF s = "failed" THEN failedOnce \union {i} ELSE failedOnce
            /\ plan' = plan
    BY <1>3 DEF MovePromotion
  <2>2. \A j \in Promotions : promotion'[j] = IF j = i THEN s ELSE promotion[j]
    BY <2>1 DEF TermTypes
  <2>3. s \in OpenActionStatuses => promotion[i] \in OpenActionStatuses \union {"failed"}
    BY <2>1 DEF SM!Allowed, SM!Status
  <2>4. \A j \in Promotions \ failedOnce' :
            promotion'[j] \in OpenActionStatuses =>
                j \notin failedOnce /\ promotion[j] \in OpenActionStatuses
    BY <2>1, <2>2, <2>3 DEF PlanInv
  <2>5. \A j \in Promotions : promotion'[j] = "failed" => j \in failedOnce'
    BY <2>1, <2>2 DEF PlanInv
  <2>6. Unplanned' <=> Unplanned
    BY <2>1 DEF Unplanned
  <2>7. PlanInv'
    BY <2>4, <2>5, <2>6 DEF PlanInv
  <2> QED
    BY <2>4, <2>7 DEF OnePromotion
<1>4. CASE UNCHANGED <<promotion, failedOnce, plan>>
  BY <1>4 DEF PlanInv, OnePromotion, Unplanned
<1> QED
  BY <1>1, <1>2, <1>3, <1>4, PromotionSteps

\* What was isolable stays so.
LEMMA IsolableStays ==
    ASSUME TermTypes, ExecutionInv, [TermNext]_termVars, NEW i \in Promotions, Isolable(i)
    PROVE  Isolable(i)' /\ lineage'[i] = lineage[i]
<1>1. promotion[i] # "none"
  BY DEF ExecutionInv, Isolable
<1>2. lineage'[i] = lineage[i] /\ Executed(i)' /\ traffic'[i] \in Nat /\ traffic'[i] >= traffic[i]
  BY <1>1, Growth DEF Isolable
<1>3. traffic[i] \in Nat /\ MinTraffic \in Nat
  BY SearchTermsAssumption DEF TermTypes
<1> QED
  BY <1>2, <1>3 DEF Isolable

\* decide_isolation recommends a negative only for what is isolable, and for a
\* source the analysis has not met yet.
LEMMA DecisionIsSound ==
    ASSUME TermTypes, TrafficInv, NEW i \in Promotions, DecideIsolation(i) = "recommended"
    PROVE  Isolable(i) /\ lineage[i].source \notin seen
<1>1. /\ lineage[i].match = "exact" /\ lineage[i].source # lineage[i].dest
      /\ lineage[i].source \notin seen /\ mart.traffic[i] >= MinTraffic
  BY DEF DecideIsolation, Covered, DestinationProven
<1>2. /\ mart.traffic[i] \in Nat /\ traffic[i] \in Nat /\ mart.traffic[i] <= traffic[i]
      /\ traffic[i] > 0 => Executed(i)
      /\ MinTraffic \in Nat /\ MinTraffic > 0
  BY SearchTermsAssumption DEF TermTypes, TrafficInv
<1>3. traffic[i] >= MinTraffic /\ traffic[i] > 0
  BY <1>1, <1>2
<1> QED
  BY <1>1, <1>2, <1>3 DEF Isolable

Findings == FindingInv /\ IsolatedIsServed /\ AnalysisCompletes

LEMMA FindingStep ==
    ASSUME TermTypes, ExecutionInv, TrafficInv, Findings, [TermNext]_termVars
    PROVE  Findings'
<1> DEFINE Rec(i) == found[i] = "recommended"
<1>1. \A i \in Promotions : Isolable(i) => Isolable(i)' /\ lineage'[i] = lineage[i]
  BY IsolableStays
<1>2. \A i \in Promotions : Rec(i) => Isolable(i) /\ lineage[i].source \in seen
  BY DEF Findings, FindingInv
<1>3. \A i, j \in Promotions : Rec(i) /\ Rec(j) /\ i # j => lineage[i].source # lineage[j].source
  BY DEF Findings, FindingInv
<1>4. \A i \in Promotions : isolation[i] = "recommended" => Isolable(i)
  BY DEF Findings, IsolatedIsServed, Isolable
<1>5. SUFFICES /\ FindingInv' /\ ~aborted'
               /\ \A i \in Promotions : isolation'[i] = "recommended" => Isolable(i)'
  BY DEF Findings, IsolatedIsServed, Isolable, AnalysisCompletes
<1>6. ~aborted
  BY DEF Findings, AnalysisCompletes
<1>7. CASE StartAnalysis
  <2>1. UNCHANGED <<isolation, aborted>> /\ \A i \in Promotions : found'[i] # "recommended"
    BY <1>7 DEF StartAnalysis
  <2> QED
    BY <1>1, <1>4, <1>6, <2>1 DEF FindingInv
<1>8. CASE Isolate
  <2> DEFINE i == Head(queue)
  <2>1. /\ found' = [found EXCEPT ![i] = DecideIsolation(i)]
        /\ seen' = seen \union {lineage[i].source}
        /\ UNCHANGED <<isolation, aborted, lineage>>
    BY <1>8 DEF Isolate, harvestVars
  <2> HIDE DEF i
  <2>2. \A j \in Promotions : found'[j] = IF j = i THEN DecideIsolation(i) ELSE found[j]
    BY <2>1 DEF TermTypes
  <2>3. \A j \in Promotions : found'[j] = "recommended" =>
            Isolable(j) /\ lineage[j].source \in seen'
    BY <1>2, <2>1, <2>2, DecisionIsSound
  <2>4. ASSUME NEW j \in Promotions, NEW k \in Promotions, j # k,
               found'[j] = "recommended", found'[k] = "recommended"
        PROVE  lineage[j].source # lineage[k].source
    <3>1. CASE j = i
      BY <1>2, <2>2, <2>4, <3>1, DecisionIsSound
    <3>2. CASE k = i
      BY <1>2, <2>2, <2>4, <3>2, DecisionIsSound
    <3>3. CASE j # i /\ k # i
      BY <1>3, <2>2, <2>4, <3>3
    <3> QED
      BY <3>1, <3>2, <3>3
  <2>5. FindingInv'
    BY <1>1, <2>1, <2>3, <2>4 DEF FindingInv
  <2> QED
    BY <1>1, <1>4, <1>6, <2>1, <2>5
<1>9. CASE Insert
  <2>1. /\ ~aborted'
        /\ \A i \in Promotions : isolation'[i] \in {isolation[i], found[i]}
        /\ \A i \in Promotions : found'[i] # "recommended"
    <3> DEFINE chosen == {i \in Promotions : found[i] = "recommended"}
               unique == \A i, j \in chosen : i # j => lineage[i].source # lineage[j].source
    <3>1. unique
      BY <1>3
    <3>2. /\ aborted' = (aborted \/ ~unique)
          /\ isolation' = IF unique THEN [i \in Promotions |->
                                 IF found[i] = "none" THEN isolation[i] ELSE found[i]]
                          ELSE isolation
          /\ found' = [i \in Promotions |-> "idle"]
      BY <1>9 DEF Insert
    <3> QED
      BY <1>6, <3>1, <3>2
  <2> QED
    BY <1>1, <1>2, <1>4, <1>6, <2>1 DEF FindingInv
<1>10. CASE UNCHANGED <<found, seen, isolation, aborted>>
  <2>1. FindingInv'
    BY <1>1, <1>2, <1>3, <1>10 DEF FindingInv
  <2> QED
    BY <1>1, <1>4, <1>6, <1>10, <2>1
<1> QED
  BY <1>7, <1>8, <1>9, <1>10, TermSteps
  DEF PlanHarvest, RecordLineage, MovePromotion, ChangeTarget, Serve, Compete, QueueNegative,
      ToggleRoute, RefreshMart, Aside, analysisVars

LEMMA RevivedStep ==
    ASSUME RevivedBidIsSafe, [TermNext]_termVars
    PROVE  RevivedBidIsSafe'
<1>1. CASE StartAnalysis
  <2>1. revived' = UNION {DecideRevive(h) : h \in Histories}
    BY <1>1 DEF StartAnalysis
  <2>2. ASSUME NEW f \in revived', f.decision = "recommended"
        PROVE  /\ f.bid \in MinBid .. MaxBid /\ f.bid <= f.history.bid
               /\ 10 * f.bid < f.history.breakEven + 10
    <3>1. PICK h \in Histories : f \in DecideRevive(h)
      BY <2>1
    <3> QED
      BY <2>2, <3>1, RevivedWithin
  <2> QED
    BY <2>2 DEF RevivedBidIsSafe
<1>2. CASE Insert
  BY <1>2 DEF Insert, RevivedBidIsSafe
<1>3. CASE UNCHANGED revived
  BY <1>3 DEF RevivedBidIsSafe
<1> QED
  BY <1>1, <1>2, <1>3, TermSteps
  DEF PlanHarvest, RecordLineage, MovePromotion, ChangeTarget, Serve, Compete, QueueNegative,
      ToggleRoute, RefreshMart, Isolate, Aside, analysisVars

LEMMA TermInitInv == TermInit => TermInv
<1> SUFFICES ASSUME TermInit PROVE TermInv
  OBVIOUS
<1> USE DEF TermInit
<1>1. MaxPromotions \in Nat /\ MinTraffic \in Nat /\ MinTraffic > 0
  BY SearchTermsAssumption
<1>2. Range(applied) = {}
  BY DEF Range
<1>3. TermTypes
  BY <1>1 DEF TermTypes, Seen, Idle
<1>4. ExecutionInv
  BY <1>2 DEF ExecutionInv, Executed, IsInjective
<1>5. TrafficInv
  BY DEF TrafficInv, Seen
<1>6. PlanInv /\ OnePromotion
  BY DEF PlanInv, OnePromotion, Unplanned
<1>7. Findings
  BY DEF Findings, FindingInv, IsolatedIsServed, AnalysisCompletes
<1>8. RevivedBidIsSafe
  BY DEF RevivedBidIsSafe
<1> QED
  BY <1>3, <1>4, <1>5, <1>6, <1>7, <1>8 DEF TermInv, Findings

LEMMA TermInvStep == TermInv /\ [TermNext]_termVars => TermInv'
<1> SUFFICES ASSUME TermInv, [TermNext]_termVars PROVE TermInv'
  OBVIOUS
<1>1. TermTypes' /\ ExecutionInv'
  BY TermTypesStep, ExecutionStep DEF TermInv
<1>2. TrafficInv' /\ PlanInv' /\ OnePromotion'
  BY TrafficStep, PlanStep DEF TermInv
<1>3. Findings'
  BY FindingStep DEF TermInv, Findings
<1>4. RevivedBidIsSafe'
  BY RevivedStep DEF TermInv
<1> QED
  BY <1>1, <1>2, <1>3, <1>4 DEF TermInv, Findings

LEMMA TermInvHolds == TermSpec => []TermInv
BY TermInitInv, TermInvStep, PTL DEF TermSpec

-----------------------------------------------------------------------------
(* SearchTerms: the theorems.                                              *)

\* Types; no promotion is executed twice, and none without its lineage.
THEOREM TermTypeCorrect == TermSpec => []TermTypeOK
<1>1. ASSUME TermInv PROVE Len(applied) <= MaxPromotions
  <2>1. MaxPromotions \in Nat
    BY SearchTermsAssumption
  <2>2. /\ IsFiniteSet(Promotions) /\ Cardinality(Promotions) = MaxPromotions
    BY <2>1, FS_Interval DEF Promotions
  <2>3. applied \in [1 .. Len(applied) -> Promotions] /\ IsInjective(applied) /\ Len(applied) \in Nat
    BY <1>1 DEF TermInv, TermTypes, ExecutionInv
  <2>4. applied \in Injection(1 .. Len(applied), Promotions)
    BY <2>3 DEF Injection
  <2>5. Cardinality(1 .. Len(applied)) <= Cardinality(Promotions)
    BY <2>2, <2>4, FS_Injection
  <2>6. Cardinality(1 .. Len(applied)) = Len(applied)
    <3>1. Cardinality(1 .. Len(applied)) =
              IF 1 > Len(applied) THEN 0 ELSE Len(applied) - 1 + 1
      BY <2>3, FS_Interval
    <3> QED
      BY <2>3, <3>1
  <2> QED
    BY <2>2, <2>5, <2>6
<1>2. TermInv => TermTypeOK
  BY <1>1 DEF TermInv, TermTypes, ExecutionInv, TermTypeOK
<1> QED
  BY <1>2, TermInvHolds, PTL

\* An isolation negative is recommended only for a promotion that was executed
\* in another ad group and served there, for any thresholds, however far the
\* marts lag behind and whatever people change meanwhile.
THEOREM IsolatedIsServedHolds == TermSpec => []IsolatedIsServed
<1>1. TermInv => IsolatedIsServed
  BY DEF TermInv
<1> QED
  BY <1>1, TermInvHolds, PTL

\* No analysis fails on the unique index of recommended negatives, for any
\* number of promotions and sources.
THEOREM AnalysisCompletesHolds == TermSpec => []AnalysisCompletes
<1>1. TermInv => AnalysisCompletes
  BY DEF TermInv
<1> QED
  BY <1>1, TermInvHolds, PTL

\* At most one promotion of a term that never failed is open, although the
\* rules run commits what it has read long before.
THEOREM OnePromotionHolds == TermSpec => []OnePromotion
<1>1. TermInv => OnePromotion
  BY DEF TermInv
<1> QED
  BY <1>1, TermInvHolds, PTL

\* A keyword is revived at a bid within the bounds, not above its last one and
\* less than a cent above break-even, for any history and any bounds.
THEOREM RevivedBidIsSafeHolds == TermSpec => []RevivedBidIsSafe
<1>1. TermInv => RevivedBidIsSafe
  BY DEF TermInv
<1> QED
  BY <1>1, TermInvHolds, PTL

\* The promotions of a term move as the state machine of actions allows.
THEOREM PromotionRefinement == TermSpec => SM!Spec
<1>1. TermInit => SM!Init
  BY DEF TermInit, SM!Init
<1>2. TermInv /\ TermInv' /\ [TermNext]_termVars => [SM!Next]_promotion
  <2> SUFFICES ASSUME TermInv, TermInv', [TermNext]_termVars, promotion' # promotion PROVE SM!Next
    OBVIOUS
  <2>1. promotion' \in [Promotions -> SM!Status \union {"none"}]
    BY DEF TermInv, TermTypes
  <2>2. PICK i \in Promotions : \E s \in SM!Status : /\ <<promotion[i], s>> \in SM!Allowed
                                                    /\ promotion' = [promotion EXCEPT ![i] = s]
    <3>1. CASE RecordLineage
      <4>1. PICK i \in Promotions : /\ promotion[i] = "none"
                                    /\ promotion' = [promotion EXCEPT ![i] = "pending"]
        BY <3>1 DEF RecordLineage
      <4>2. <<"none", "pending">> \in SM!Allowed /\ "pending" \in SM!Status
        BY DEF SM!Allowed, SM!Status
      <4> QED
        BY <4>1, <4>2
    <3>2. CASE \E i \in Promotions : MovePromotion(i)
      BY <3>2 DEF MovePromotion
    <3>3. RecordLineage \/ \E i \in Promotions : MovePromotion(i)
      BY PromotionSteps DEF PlanHarvest
    <3> QED
      BY <3>1, <3>2, <3>3
  <2>3. PICK s : <<promotion[i], s>> \in SM!Allowed /\ promotion' = [promotion EXCEPT ![i] = s]
    BY <2>2
  <2>4. \A j \in Promotions : promotion'[j] = IF j = i THEN s ELSE promotion[j]
    BY <2>3 DEF TermInv, TermTypes
  <2> QED
    BY <2>1, <2>3, <2>4 DEF SM!Next, SM!Move
<1> QED
  BY <1>1, <1>2, TermInvHolds, PTL DEF TermSpec, SM!Spec

=============================================================================
