-------------------------- MODULE Ingestion_proofs --------------------------
(***************************************************************************)
(* Proofs about Ingestion for any datasets, windows, number of scheduler   *)
(* processes, faults and days.                                             *)
(***************************************************************************)
EXTENDS Ingestion, FiniteSetTheorems, SequenceTheorems, WellFoundedInduction, TLAPS

Call == [left : Seq(Datasets), asOf : Nat]
Row  == [set : Datasets, dates : SUBSET Nat, rows : SUBSET Nat, status : Status]

\* What a call covers: a run of days that are over, which leaves no gap above
\* the watermark but the days that Amazon no longer serves.  The watermark
\* may have moved since the days were planned: it only moves up.
Planned(row) ==
    /\ \E first \in Nat \ {0}, newest \in Nat :
          /\ row.dates = first .. newest
          /\ newest < today
          /\ \/ first <= watermark[row.set] + 1
             \/ first + Backfill[row.set] <= newest + 1
    /\ row.rows \subseteq row.dates

ProcessTypes ==
    /\ mode \in [Runners -> Modes]
    /\ todo \in [Runners -> Seq(Call)]
    /\ staged \in [Runners -> Seq(Row)]
    /\ started \in [Runners -> Nat]
    /\ \A p \in Runners : pc[p] = "ingest" => todo[p] # <<>>

\* A call is made as of today or of a day that has been; one as of a day before
\* the first requests nothing, as the watermark has passed that day.
InTime(call) ==
    \/ call.asOf \in {0} \union (FirstDay .. today)
    \/ call.asOf \in 1 .. today /\ \A d \in Range(call.left) : call.asOf <= watermark[d] + 1

AsOfInv ==
    /\ today >= FirstDay
    /\ \A p \in Runners : \A i \in DOMAIN todo[p] : InTime(todo[p][i])

StagedInv ==
    \A p \in Runners : \A i \in DOMAIN staged[p] :
        /\ Planned(staged[p][i])
        /\ mode[p] = "live" /\ staged[p][i].status = "success"
              => staged[p][i].rows = staged[p][i].dates

\* The watermark is the last covered day, and the days before it that were
\* once within reach are covered without a gap.
MarkInv ==
    \A d \in Datasets :
        /\ watermark[d] < today
        /\ covered[d] \subseteq 1 .. watermark[d]
        /\ \A x \in 1 .. watermark[d] : x + Backfill[d] > watermark[d] => x \in covered[d]

\* A live process that calls a day covered has loaded it.
LoadedInv ==
    (\A p \in Runners : mode[p] = "live") => \A d \in Datasets : covered[d] \subseteq raw[d]

IngestionInv == TypeOK /\ ProcessTypes /\ AsOfInv /\ StagedInv /\ MarkInv /\ LoadedInv

-----------------------------------------------------------------------------
(* Sequences, days and plans *)

LEMMA AsSequence ==
  ASSUME NEW S, NEW n \in Nat, NEW f \in [1 .. n -> S]
  PROVE  f \in Seq(S)
OBVIOUS

LEMMA InConcatenation ==
  ASSUME NEW S, NEW s \in Seq(S), NEW t \in Seq(S), NEW i \in DOMAIN (s \o t)
  PROVE  \/ i \in DOMAIN s /\ (s \o t)[i] = s[i]
         \/ i - Len(s) \in DOMAIN t /\ (s \o t)[i] = t[i - Len(s)]
OBVIOUS

LEMMA LongerThanOne ==
  ASSUME NEW S, NEW s \in Seq(S), s # <<>>, Len(s) # 1
  PROVE  Tail(s) # <<>>
<1>1. Len(s) \in Nat /\ Len(s) # 0 /\ Len(Tail(s)) = Len(s) - 1
  BY EmptySeq, HeadTailProperties
<1>2. ASSUME Tail(s) = <<>> PROVE Len(Tail(s)) = 0
  BY <1>2, EmptySeq, Zenon
<1>3. Len(Tail(s)) # 0
  BY <1>1
<1> QED
  BY <1>2, <1>3

LEMMA HeadCall ==
  ASSUME NEW S, NEW s \in Seq(S), s # <<>>
  PROVE  1 \in DOMAIN s /\ s[1] \in S
OBVIOUS

\* The last day of a run of days.
LEMMA LastDay ==
  ASSUME NEW a \in Nat, NEW b \in Nat, a <= b
  PROVE  Max(a .. b) = b
BY DEF Max

\* A non-empty set of days has a last one.
LEMMA LastOf ==
  ASSUME NEW n \in Nat, NEW S \in SUBSET (0 .. n), S # {}
  PROVE  \E m \in S : \A x \in S : m >= x
<1> DEFINE T == {n - x : x \in S}
           Less == OpToRel(<, Nat)
<1>1. T \subseteq Nat /\ T # {}
  <2>1. \A x \in S : x \in 0 .. n
    OBVIOUS
  <2>2. \A x \in 0 .. n : n - x \in Nat
    OBVIOUS
  <2>3. T \subseteq Nat
    BY <2>1, <2>2
  <2>4. PICK x \in S : TRUE
    OBVIOUS
  <2>5. n - x \in T
    OBVIOUS
  <2> QED
    BY <2>3, <2>5
<1>2. \A x, y \in Nat : x < y => <<x, y>> \in Less
  BY DEF OpToRel
<1>3. IsWellFoundedOn(Less, Nat)
  BY NatLessThanWellFounded
<1> HIDE DEF Less
<1>4. PICK t \in T : \A y \in T : ~(<<y, t>> \in Less)
  BY <1>1, <1>3, WFMin
<1>5. PICK m \in S : t = n - m
  BY <1>4
<1>6. ASSUME NEW x \in S PROVE m >= x
  <2>1. n - x \in T /\ x \in Nat /\ m \in Nat
    OBVIOUS
  <2> HIDE DEF T
  <2>2. ~(n - x < t)
    BY <1>1, <1>2, <1>4, <2>1
  <2> QED
    BY <1>5, <2>1, <2>2
<1> QED
  BY <1>6

\* plan_dates: the planned days are over, and what is left out above the
\* watermark is beyond the backfill.
LEMMA PlanIsPlanned ==
  ASSUME NEW d \in Datasets, NEW mark \in Nat, NEW asOf \in 1 .. today,
         asOf >= FirstDay \/ asOf <= mark + 1,
         today \in Nat, today >= FirstDay
  PROVE  \E first \in Nat \ {0}, newest \in Nat :
            /\ PlanDates(d, mark, asOf) = first .. newest
            /\ newest < today
            /\ first <= mark + 1 \/ first + Backfill[d] <= newest + 1
<1> DEFINE newest == asOf - 1
           oldest == asOf - Backfill[d]
           wanted == IF mark + 1 < asOf - Reingest THEN mark + 1 ELSE asOf - Reingest
           start  == IF mark = 0 \/ wanted < oldest THEN oldest ELSE wanted
<1>1. /\ Backfill[d] \in Nat /\ Reingest \in Nat \ {0} /\ FirstDay \in Nat
      /\ Reingest <= Backfill[d] /\ Backfill[d] < FirstDay
  BY IngestionAssumption
<1>2. CASE mark >= newest
  <2>1. PlanDates(d, mark, asOf) = 1 .. 0
    BY <1>1, <1>2 DEF PlanDates
  <2> QED
    BY <2>1, <1>1
<1>3. CASE ~(mark >= newest) /\ asOf >= FirstDay
  <2>1. PlanDates(d, mark, asOf) = start .. newest
    BY <1>3 DEF PlanDates
  <2>2. start \in Nat \ {0} /\ newest \in Nat /\ newest < today
    BY <1>1, <1>3
  <2>3. start <= mark + 1 \/ start + Backfill[d] <= newest + 1
    BY <1>1, <1>3
  <2> QED
    BY <2>1, <2>2, <2>3
<1> QED
  BY <1>1, <1>2, <1>3

\* update_watermark with a planned row: the mark only rises, stays behind
\* today, and passes only days of the row and days out of reach.
LEMMA MarkMoves ==
  ASSUME NEW row \in Row, Planned(row), today \in Nat,
         watermark \in [Datasets -> Nat], watermark[row.set] < today
  PROVE  LET mark == watermark[row.set]
             new  == NewMark(row, mark)
         IN  /\ new \in Nat /\ new >= mark /\ new < today
             /\ row.dates \subseteq 1 .. (today - 1)
             /\ row.status = "success" => row.dates \subseteq 1 .. new
             /\ new # mark =>
                   /\ row.status = "success"
                   /\ \A x \in (mark + 1) .. new :
                         x + Backfill[row.set] > new => x \in row.dates
<1> DEFINE mark == watermark[row.set]
           new  == NewMark(row, mark)
<1>1. PICK first \in Nat \ {0}, newest \in Nat :
         /\ row.dates = first .. newest
         /\ newest < today
         /\ first <= mark + 1 \/ first + Backfill[row.set] <= newest + 1
  BY DEF Planned
<1>2. mark \in Nat /\ mark < today /\ Backfill[row.set] \in Nat
  BY IngestionAssumption DEF Row
<1>3. CASE first <= newest
  <2>1. Max(first .. newest) = newest /\ first .. newest # {}
    BY <1>3, LastDay
  <2>2. new = IF row.status = "success" /\ newest > mark THEN newest ELSE mark
    BY <1>1, <2>1 DEF NewMark
  <2> QED
    BY <1>1, <1>2, <1>3, <2>2
<1>4. CASE ~(first <= newest)
  <2>1. row.dates = {}
    BY <1>1, <1>4
  <2>2. new = mark
    BY <2>1 DEF NewMark
  <2> QED
    BY <1>2, <2>1, <2>2
<1> QED
  BY <1>1, <1>3, <1>4

\* A gap reaches up to yesterday, or all of it is behind the watermark.
LEMMA GapEnds ==
  ASSUME TypeOK, AsOfInv, MarkInv, NEW d \in Datasets, Missing(d) # {}
  PROVE  LET asOf == Max(Missing(d)) + 1
         IN  asOf \in 1 .. today /\ (asOf = today \/ asOf <= watermark[d] + 1)
<1>1. CatchUp \in Nat \ {0} /\ FirstDay \in Nat /\ CatchUp < FirstDay
  BY IngestionAssumption
<1>2. /\ today \in Nat /\ today >= FirstDay /\ watermark[d] \in Nat /\ watermark[d] < today
      /\ covered[d] \subseteq 1 .. watermark[d]
  BY DEF TypeOK, AsOfInv, MarkInv
<1>3. Missing(d) = ((today - CatchUp) .. (today - 1)) \ covered[d]
  BY DEF Missing, SuccessfulRunDates
<1>4. IsFiniteSet(Missing(d)) /\ Missing(d) \subseteq 1 .. (today - 1)
  <2>1. IsFiniteSet((today - CatchUp) .. (today - 1))
    BY <1>1, <1>2, FS_Interval
  <2> QED
    BY <1>1, <1>2, <1>3, <2>1, FS_Subset
<1>5. PICK last_ \in Missing(d) : \A x \in Missing(d) : last_ >= x
  <2>1. today - 1 \in Nat /\ Missing(d) \subseteq 0 .. (today - 1)
    BY <1>1, <1>2, <1>4
  <2> QED
    BY <2>1, LastOf
<1>6. Max(Missing(d)) = last_
  BY <1>4, <1>5 DEF Max
<1>7. watermark[d] < today - 1 => today - 1 \in Missing(d)
  BY <1>1, <1>2, <1>3
<1> QED
  BY <1>2, <1>4, <1>5, <1>6, <1>7

\* The calls of the catch-up are in time.
LEMMA ReplayCalls ==
  ASSUME TypeOK, AsOfInv, MarkInv, NEW plan \in CatchUpPlans
  PROVE  /\ Replays(plan) \in Seq(Call)
         /\ \A i \in DOMAIN Replays(plan) : InTime(Replays(plan)[i])
<1> DEFINE behind == {d \in Datasets : Missing(d) # {}}
<1>1. today \in Nat /\ FirstDay \in Nat /\ today >= FirstDay /\ today # 0
  BY IngestionAssumption DEF TypeOK, AsOfInv, Datasets
<1>2. Cardinality(behind) \in Nat
  BY IngestionAssumption, FS_Subset, FS_CardinalityType
<1>3. plan \in [1 .. Cardinality(behind) -> behind]
  BY DEF CatchUpPlans, SetToSeqs
<1>4. ASSUME NEW i \in DOMAIN plan
      PROVE  Replays(plan)[i] \in Call /\ InTime(Replays(plan)[i])
  <2> DEFINE d == plan[i]
             asOf == Max(Missing(d)) + 1
             call == [left |-> <<d>>, asOf |-> asOf]
  <2>1. d \in Datasets /\ Missing(d) # {}
    BY <1>3, <1>4
  <2>2. asOf \in 1 .. today /\ (asOf = today \/ asOf <= watermark[d] + 1)
    BY <2>1, GapEnds
  <2>3. Replays(plan)[i] = call
    BY <1>4 DEF Replays, SalesRun, AdsRun
  <2> HIDE DEF d, asOf
  <2>4. call \in Call /\ call.asOf = asOf /\ call.left = <<d>>
    BY <1>1, <2>1, <2>2 DEF Call
  <2> HIDE DEF call
  <2>5. \A x \in Range(call.left) : x = d
    BY <2>4 DEF Range
  <2>6. InTime(call)
    <3>1. CASE asOf = today
      BY <1>1, <2>4, <3>1 DEF InTime
    <3>2. CASE asOf <= watermark[d] + 1
      BY <2>2, <2>4, <2>5, <3>2 DEF InTime
    <3> QED
      BY <2>2, <3>1, <3>2
  <2> QED
    BY <2>3, <2>4, <2>6
<1>5. Replays(plan) \in [1 .. Cardinality(behind) -> Call]
  BY <1>3, <1>4 DEF Replays
<1>6. Replays(plan) \in Seq(Call)
  BY <1>2, <1>5, AsSequence
<1>7. DOMAIN Replays(plan) = DOMAIN plan
  BY DEF Replays
<1> QED
  BY <1>4, <1>6, <1>7

\* A call stays in time while days begin and watermarks rise.
LEMMA InTimeStays ==
  ASSUME NEW c \in Call, InTime(c), today \in Nat, today' \in Nat, today' >= today,
         watermark \in [Datasets -> Nat], watermark' \in [Datasets -> Nat],
         \A d \in Datasets : watermark'[d] >= watermark[d]
  PROVE  InTime(c)'
<1>1. Range(c.left) \subseteq Datasets /\ FirstDay \in Nat /\ c.asOf \in Nat
  BY IngestionAssumption DEF Call, Range
<1>2. CASE c.asOf \in {0} \union (FirstDay .. today)
  BY <1>1, <1>2 DEF InTime
<1>3. CASE c.asOf \in 1 .. today /\ \A d \in Range(c.left) : c.asOf <= watermark[d] + 1
  BY <1>1, <1>3 DEF InTime
<1> QED
  BY <1>2, <1>3 DEF InTime

\* A call that waits for its turn will request what is missing up to its day: a
\* day that is not covered lies above the watermark or out of Amazon's reach.
LEMMA GapIsPlanned ==
  ASSUME TypeOK, ProcessTypes, AsOfInv, MarkInv
  PROVE  ReplayCoversGap
<1> SUFFICES ASSUME NEW p \in Runners, NEW i \in DOMAIN todo[p],
                    NEW d \in Range(todo[p][i].left), NEW x \in 1 .. (todo[p][i].asOf - 1),
                    x \notin covered[d], ~(x + Backfill[d] < today)
             PROVE  x \in PlanDates(d, watermark[d], todo[p][i].asOf)
  BY DEF ReplayCoversGap
<1> DEFINE call == todo[p][i]
           asOf == call.asOf
<1>1. call \in Call /\ InTime(call)
  BY ElementOfSeq DEF ProcessTypes, AsOfInv
<1> HIDE DEF call
<1>2. d \in Datasets /\ asOf \in Nat
  BY <1>1 DEF Call, Range, call
<1>3. Backfill[d] \in Nat /\ Reingest \in Nat /\ FirstDay \in Nat
  BY <1>2, IngestionAssumption
<1>4. /\ today \in Nat /\ watermark[d] \in Nat /\ watermark[d] < today
      /\ \A y \in 1 .. watermark[d] : y + Backfill[d] > watermark[d] => y \in covered[d]
  BY <1>2 DEF TypeOK, MarkInv
<1>5. asOf <= today
  BY <1>1, <1>2, <1>3, <1>4 DEF InTime
<1> HIDE DEF asOf
<1>6. x \in Nat /\ x >= 1 /\ x <= asOf - 1
  BY <1>2 DEF asOf, call
<1>7. x > watermark[d]
  BY <1>3, <1>4, <1>6
<1>8. x \in PlanDates(d, watermark[d], asOf)
  BY <1>2, <1>3, <1>4, <1>5, <1>6, <1>7 DEF PlanDates
<1> QED
  BY <1>8 DEF asOf, call

\* The calls after a step: each was in time before it.
LEMMA CallsStay ==
  ASSUME today \in Nat, today' \in Nat, today' >= today, today >= FirstDay,
         watermark \in [Datasets -> Nat], watermark' \in [Datasets -> Nat],
         \A d \in Datasets : watermark'[d] >= watermark[d],
         \A q \in Runners : \A i \in DOMAIN todo'[q] :
             \E c \in Call : c = todo'[q][i] /\ InTime(c)
  PROVE  AsOfInv'
<1>1. ASSUME NEW q \in Runners, NEW i \in DOMAIN todo'[q]
      PROVE  InTime(todo[q][i])'
  <2>1. PICK c \in Call : c = todo'[q][i] /\ InTime(c)
    OBVIOUS
  <2>2. InTime(c)'
    BY <2>1, InTimeStays
  <2> QED
    BY <2>1, <2>2 DEF InTime
<1>2. FirstDay \in Nat
  BY IngestionAssumption
<1> QED
  BY <1>1, <1>2 DEF AsOfInv

\* A call in the hands of a process is well formed and in time.
LEMMA CallsInHand ==
  ASSUME ProcessTypes, AsOfInv, NEW q \in Runners, NEW i \in DOMAIN todo[q]
  PROVE  todo[q][i] \in Call /\ InTime(todo[q][i])
BY ElementOfSeq DEF ProcessTypes, AsOfInv

-----------------------------------------------------------------------------
(* The invariant *)

LEMMA InitHolds == Init => IngestionInv
<1> SUFFICES ASSUME Init PROVE IngestionInv
  OBVIOUS
<1>1. FirstDay \in Nat /\ 0 < FirstDay /\ Modes \subseteq {"live", "dry"}
  BY IngestionAssumption DEF Datasets
<1>2. TypeOK
  BY <1>1 DEF Init, TypeOK, Status
<1>3. ProcessTypes /\ AsOfInv
  BY <1>1 DEF Init, ProcessTypes, AsOfInv
<1>4. StagedInv
  BY DEF Init, StagedInv
<1>5. MarkInv /\ LoadedInv
  BY <1>1 DEF Init, MarkInv, LoadedInv
<1> QED
  BY <1>2, <1>3, <1>4, <1>5 DEF IngestionInv

\* The day that begins and a watermark that rises leave a staged row planned.
LEMMA PlannedStays ==
  ASSUME NEW row \in Row, Planned(row), today \in Nat, today' \in Nat, today' >= today,
         watermark \in [Datasets -> Nat], watermark' \in [Datasets -> Nat],
         \A d \in Datasets : watermark'[d] >= watermark[d]
  PROVE  Planned(row)'
<1>1. PICK first \in Nat \ {0}, newest \in Nat :
         /\ row.dates = first .. newest
         /\ newest < today
         /\ first <= watermark[row.set] + 1 \/ first + Backfill[row.set] <= newest + 1
  BY DEF Planned
<1>2. row.set \in Datasets /\ row.rows \subseteq row.dates
  BY DEF Row, Planned
<1>3. newest < today' /\ (first <= watermark'[row.set] + 1 \/ first + Backfill[row.set] <= newest + 1)
  BY <1>1, <1>2
<1> QED
  BY <1>1, <1>2, <1>3 DEF Planned

LEMMA StartCycleKeeps ==
  ASSUME IngestionInv, NEW p \in Runners, StartCycle(p) PROVE IngestionInv'
<1> USE DEF IngestionInv
<1>1. PICK plan \in CatchUpPlans :
         todo' = [todo EXCEPT ![p] =
                     (IF p \in Replayers THEN Replays(plan) ELSE <<>>) \o RunIngestion]
  BY DEF StartCycle
<1>2. UNCHANGED <<today, dbVars, alerts, mode, staged, started, overtaken>>
      /\ pc' = [pc EXCEPT ![p] = "ingest"]
  BY DEF StartCycle
<1> DEFINE calls == IF p \in Replayers THEN Replays(plan) ELSE <<>>
<1>3. calls \in Seq(Call) /\ \A i \in DOMAIN calls : InTime(calls[i])
  <2>1. DOMAIN <<>> = {}
    BY SMT
  <2> QED
    BY <2>1, ReplayCalls
<1>4. /\ RunIngestion \in Seq(Call) /\ Len(RunIngestion) = 2
      /\ RunIngestion[1].asOf = 0 /\ RunIngestion[2].asOf = 0
  <2>1. Ads \in Seq(Datasets) /\ <<Sales>> \in Seq(Datasets)
    BY IngestionAssumption DEF Datasets
  <2>2. AdsRun(Ads, 0) \in Call /\ SalesRun(0) \in Call
        /\ AdsRun(Ads, 0).asOf = 0 /\ SalesRun(0).asOf = 0
    BY <2>1 DEF AdsRun, SalesRun, Call
  <2> QED
    BY <2>2 DEF RunIngestion
<1>5. calls \o RunIngestion \in Seq(Call) /\ calls \o RunIngestion # <<>>
  BY <1>3, <1>4
<1>6. \A i \in DOMAIN (calls \o RunIngestion) : InTime((calls \o RunIngestion)[i])
  <2>1. \A i \in DOMAIN RunIngestion : RunIngestion[i].asOf = 0
    BY <1>4
  <2>2. \A i \in DOMAIN RunIngestion : InTime(RunIngestion[i])
    BY <2>1 DEF InTime
  <2> HIDE DEF calls
  <2> QED
    BY <1>3, <1>4, <2>2, InConcatenation
<1>7. today \in Nat /\ today >= FirstDay /\ FirstDay \in Nat
  BY IngestionAssumption DEF TypeOK, AsOfInv
<1>8. TypeOK' /\ MarkInv' /\ LoadedInv'
  BY <1>2 DEF TypeOK, MarkInv, LoadedInv, dbVars
<1>9. StagedInv'
  BY <1>2 DEF StagedInv, Planned, dbVars
<1> HIDE DEF calls
<1>10. ProcessTypes'
  BY <1>1, <1>2, <1>5 DEF ProcessTypes, TypeOK, calls
<1>11. todo' = [todo EXCEPT ![p] = calls \o RunIngestion]
  BY <1>1 DEF calls
<1>12. AsOfInv'
  <2>1. ASSUME NEW q \in Runners, NEW i \in DOMAIN todo'[q]
        PROVE  todo'[q][i] \in Call /\ InTime(todo'[q][i])
    <3>1. CASE q = p
      <4>1. todo'[q] = calls \o RunIngestion
        BY <1>11, <3>1 DEF ProcessTypes
      <4> QED
        BY <1>5, <1>6, <4>1, ElementOfSeq
    <3>2. CASE q # p
      <4>1. todo'[q] = todo[q]
        BY <1>11, <3>2 DEF ProcessTypes
      <4> QED
        BY <4>1, CallsInHand
    <3> QED
      BY <3>1, <3>2
  <2>2. watermark' = watermark /\ today' = today /\ watermark \in [Datasets -> Nat]
    BY <1>2 DEF dbVars, TypeOK
  <2> QED
    BY <1>7, <2>1, <2>2, CallsStay
<1> QED
  BY <1>8, <1>9, <1>10, <1>12

LEMMA IngestDatasetKeeps ==
  ASSUME IngestionInv, NEW p \in Runners, IngestDataset(p) PROVE IngestionInv'
<1> USE DEF IngestionInv
<1> DEFINE call == todo[p][1]
           d == call.left[1]
           asOf == IF call.asOf = 0 THEN today ELSE call.asOf
           dates == PlanDates(d, watermark[d], asOf)
<1>1. /\ pc[p] = "ingest" /\ call.left # <<>>
      /\ UNCHANGED <<today, dbVars, alerts, pc, mode>>
      /\ todo' = [todo EXCEPT ![p][1].left = Tail(@)]
  BY DEF IngestDataset
<1>2. PICK ok \in RunRequests(p, d, dates) :
         staged' = [staged EXCEPT ![p] = Append(@,
                  [set |-> d, dates |-> dates, rows |-> UpsertRawRows(p, ok),
                   status |-> RunStatus(dates \ ok, ok)])]
  BY Zenon DEF IngestDataset
<1> DEFINE row == [set |-> d, dates |-> dates, rows |-> UpsertRawRows(p, ok),
                   status |-> RunStatus(dates \ ok, ok)]
<1>3. call \in Call /\ 1 \in DOMAIN todo[p] /\ call.left \in Seq(Datasets)
  <2>1. todo[p] \in Seq(Call) /\ todo[p] # <<>>
    BY <1>1 DEF ProcessTypes
  <2>2. 1 \in DOMAIN todo[p] /\ call \in Call
    BY <2>1, HeadCall
  <2> QED
    BY <2>2 DEF Call
<1>4. d \in Datasets /\ Tail(call.left) \in Seq(Datasets)
  BY <1>1, <1>3
<1>5. /\ asOf \in 1 .. today /\ (asOf >= FirstDay \/ asOf <= watermark[d] + 1)
      /\ today \in Nat /\ today >= FirstDay /\ watermark[d] \in Nat
  <2>1. InTime(call) /\ d \in Range(call.left)
    BY <1>1, <1>3, HeadCall DEF AsOfInv, Range
  <2>2. /\ today \in Nat /\ today >= FirstDay /\ watermark[d] \in Nat /\ FirstDay \in Nat
    BY <1>4, IngestionAssumption DEF AsOfInv, TypeOK
  <2>3. FirstDay >= 1
    <3>1. CatchUp \in Nat /\ CatchUp < FirstDay /\ FirstDay \in Nat
      BY IngestionAssumption
    <3> QED
      BY <3>1
  <2> HIDE DEF call, d
  <2> QED
    BY <2>1, <2>2, <2>3 DEF InTime
<1>6. PICK first \in Nat \ {0}, newest \in Nat :
         /\ dates = first .. newest
         /\ newest < today
         /\ first <= watermark[d] + 1 \/ first + Backfill[d] <= newest + 1
  <2>1. dates = PlanDates(d, watermark[d], asOf)
    OBVIOUS
  <2> HIDE DEF dates, asOf, d, call
  <2> QED
    BY <1>4, <1>5, <2>1, PlanIsPlanned
<1> HIDE DEF dates, asOf, d
<1>7. ok \subseteq dates /\ (mode[p] = "dry" => ok = dates)
  BY DEF RunRequests
<1>8. UpsertRawRows(p, ok) \subseteq dates /\ RunStatus(dates \ ok, ok) \in Status
  BY <1>7 DEF UpsertRawRows, RunStatus, Status
<1>9. row \in Row /\ Planned(row)
  BY <1>4, <1>6, <1>8 DEF Row, Planned
<1>10. mode[p] = "live" /\ row.status = "success" => row.rows = row.dates
  BY <1>7 DEF UpsertRawRows, RunStatus
<1> HIDE DEF row
<1>11. staged' = [staged EXCEPT ![p] = Append(staged[p], row)] /\ staged \in [Runners -> Seq(Row)]
  BY <1>2 DEF row, ProcessTypes
<1>12. StagedInv'
  <2>1. ASSUME NEW q \in Runners, NEW i \in DOMAIN staged'[q]
        PROVE  /\ Planned(staged'[q][i])
               /\ mode[q] = "live" /\ staged'[q][i].status = "success"
                     => staged'[q][i].rows = staged'[q][i].dates
    <3>1. CASE q = p /\ i = Len(staged[p]) + 1
      <4>1. staged'[q][i] = row
        BY <1>9, <1>11, <3>1
      <4> QED
        BY <1>9, <1>10, <3>1, <4>1
    <3>2. CASE ~(q = p /\ i = Len(staged[p]) + 1)
      <4>1. i \in DOMAIN staged[q] /\ staged'[q][i] = staged[q][i]
        BY <1>9, <1>11, <2>1, <3>2
      <4> QED
        BY <4>1 DEF StagedInv
    <3> QED
      BY <3>1, <3>2
  <2> QED
    BY <1>1, <2>1 DEF StagedInv, Planned, dbVars
<1>13. started' \in [Runners -> Nat] /\ overtaken' \in [Runners -> SUBSET Datasets]
  <2>1. /\ started \in [Runners -> Nat] /\ overtaken \in [Runners -> SUBSET Datasets]
        /\ today \in Nat
    BY <1>5 DEF ProcessTypes, TypeOK
  <2>2. \/ started' = started /\ overtaken' = overtaken
        \/ /\ started' = [started EXCEPT ![p] = today]
           /\ overtaken' = [overtaken EXCEPT ![p] = {}]
    BY Zenon DEF IngestDataset
  <2> QED
    BY <2>1, <2>2
<1>14. /\ todo' \in [Runners -> Seq(Call)]
       /\ \A q \in Runners : todo[q] # <<>> => todo'[q] # <<>>
       /\ \A q \in Runners : \A i \in DOMAIN todo'[q] :
             todo'[q][i] \in Call /\ InTime(todo'[q][i])
  <2>1. todo \in [Runners -> Seq(Call)]
    BY DEF ProcessTypes
  <2>2. todo' = [todo EXCEPT ![p] = [todo[p] EXCEPT ![1] = [call EXCEPT !.left = Tail(call.left)]]]
    BY <1>1
  <2>3. [call EXCEPT !.left = Tail(call.left)] \in Call
        /\ [call EXCEPT !.left = Tail(call.left)].asOf = call.asOf
        /\ [call EXCEPT !.left = Tail(call.left)].left = Tail(call.left)
    BY <1>3, <1>4 DEF Call
  <2> DEFINE next == [call EXCEPT !.left = Tail(call.left)]
  <2> HIDE DEF next
  <2>4. /\ next \in Call /\ next.asOf = call.asOf /\ next.left = Tail(call.left)
        /\ todo' = [todo EXCEPT ![p] = [todo[p] EXCEPT ![1] = next]]
    BY <2>2, <2>3 DEF next
  <2>6. Range(Tail(call.left)) \subseteq Range(call.left)
    BY <1>1, <1>3, HeadTailProperties DEF Range
  <2>7. InTime(next)
    BY <1>3, <2>4, <2>6, CallsInHand DEF InTime
  <2> HIDE DEF call
  <2>5. todo'[p] \in Seq(Call) /\ Len(todo'[p]) = Len(todo[p]) /\ todo'[p][1] = next
        /\ \A i \in DOMAIN todo[p] : i # 1 => todo'[p][i] = todo[p][i]
    BY <1>3, <2>1, <2>4
  <2>8. ASSUME NEW q \in Runners, NEW i \in DOMAIN todo'[q]
        PROVE  todo'[q][i] \in Call /\ InTime(todo'[q][i])
    <3>1. CASE q = p /\ i = 1
      BY <2>4, <2>5, <2>7, <3>1
    <3>2. CASE q = p /\ i # 1
      <4>1. i \in DOMAIN todo[q] /\ todo'[q][i] = todo[q][i]
        BY <2>1, <2>4, <2>5, <3>2
      <4> QED
        BY <4>1, CallsInHand
    <3>3. CASE q # p
      <4>1. todo'[q] = todo[q]
        BY <2>1, <2>4, <3>3
      <4> QED
        BY <4>1, CallsInHand
    <3> QED
      BY <3>1, <3>2, <3>3
  <2> QED
    BY <2>1, <2>4, <2>5, <2>8
<1>15. ProcessTypes'
  BY <1>1, <1>9, <1>11, <1>13, <1>14 DEF ProcessTypes
<1>16. AsOfInv'
  <2>1. watermark' = watermark /\ today' = today /\ watermark \in [Datasets -> Nat]
    BY <1>1 DEF dbVars, TypeOK
  <2> QED
    BY <1>5, <1>14, <2>1, CallsStay
<1>17. TypeOK'
  BY <1>1, <1>13 DEF TypeOK, dbVars
<1>18. MarkInv' /\ LoadedInv'
  BY <1>1 DEF MarkInv, LoadedInv, dbVars
<1> QED
  BY <1>12, <1>15, <1>16, <1>17, <1>18

\* The row of a dataset that a transaction has staged.
LEMMA StagedRowIs ==
  ASSUME IngestionInv, NEW p \in Runners, NEW d \in StagedSets(p)
  PROVE  /\ d \in Datasets
         /\ StagedRow(p, d) \in Row /\ StagedRow(p, d).set = d
         /\ Planned(StagedRow(p, d))
         /\ mode[p] = "live" /\ StagedRow(p, d).status = "success"
               => StagedRow(p, d).rows = StagedRow(p, d).dates
<1>1. PICK i \in DOMAIN staged[p] : staged[p][i].set = d
  BY DEF StagedSets
<1> DEFINE k == CHOOSE j \in DOMAIN staged[p] : staged[p][j].set = d
<1>2. k \in DOMAIN staged[p] /\ staged[p][k].set = d
  BY <1>1
<1>3. StagedRow(p, d) = staged[p][k]
  BY DEF StagedRow
<1> HIDE DEF k
<1>4. staged[p][k] \in Row
  BY <1>2, ElementOfSeq DEF IngestionInv, ProcessTypes
<1>5. d \in Datasets
  BY <1>2, <1>4 DEF Row
<1> QED
  BY <1>2, <1>3, <1>4, <1>5 DEF IngestionInv, StagedInv

\* What a commit does to the tables, dataset by dataset.
LEMMA CommitWrites ==
  ASSUME IngestionInv, NEW p \in Runners, Commit(p), NEW d \in Datasets
  PROVE  /\ watermark'[d] \in Nat /\ watermark'[d] >= watermark[d] /\ watermark'[d] < today
         /\ raw[d] \subseteq raw'[d] /\ raw'[d] \subseteq 1 .. (today - 1)
         /\ covered'[d] \subseteq 1 .. watermark'[d]
         /\ \A x \in 1 .. watermark'[d] :
               x + Backfill[d] > watermark'[d] => x \in covered'[d]
         /\ mode[p] = "live" => covered'[d] \subseteq covered[d] \union raw'[d]
<1> USE DEF IngestionInv
<1>1. /\ raw'[d] = IF d \in StagedSets(p) THEN raw[d] \union StagedRow(p, d).rows ELSE raw[d]
      /\ covered'[d] = IF d \in StagedSets(p) /\ StagedRow(p, d).status = "success"
                       THEN covered[d] \union StagedRow(p, d).dates ELSE covered[d]
      /\ watermark'[d] = IF d \in StagedSets(p)
                         THEN NewMark(StagedRow(p, d), watermark[d]) ELSE watermark[d]
  BY DEF Commit
<1>2. /\ today \in Nat /\ watermark \in [Datasets -> Nat] /\ watermark[d] < today
      /\ raw[d] \subseteq 1 .. (today - 1)
      /\ covered[d] \subseteq 1 .. watermark[d]
      /\ \A x \in 1 .. watermark[d] : x + Backfill[d] > watermark[d] => x \in covered[d]
      /\ Backfill[d] \in Nat
  BY IngestionAssumption DEF TypeOK, MarkInv
<1>3. CASE d \in StagedSets(p)
  <2> DEFINE row == StagedRow(p, d)
             mark == watermark[d]
             new  == NewMark(row, mark)
  <2>1. /\ row \in Row /\ row.set = d /\ Planned(row)
        /\ mode[p] = "live" /\ row.status = "success" => row.rows = row.dates
    BY <1>3, StagedRowIs, Zenon
  <2>2. /\ new \in Nat /\ new >= mark /\ new < today
        /\ row.dates \subseteq 1 .. (today - 1)
        /\ row.status = "success" => row.dates \subseteq 1 .. new
        /\ new # mark =>
              /\ row.status = "success"
              /\ \A x \in (mark + 1) .. new :
                    x + Backfill[d] > new => x \in row.dates
    BY <1>2, <2>1, MarkMoves
  <2>3. /\ raw'[d] = raw[d] \union row.rows
        /\ covered'[d] = IF row.status = "success" THEN covered[d] \union row.dates ELSE covered[d]
        /\ watermark'[d] = new
    BY <1>1, <1>3
  <2>4. row.rows \subseteq row.dates
    BY <2>1 DEF Planned
  <2> HIDE DEF row, new
  <2>5. \A x \in 1 .. new : x + Backfill[d] > new => x \in covered'[d]
    BY <1>2, <2>2, <2>3
  <2> QED
    BY <1>2, <2>1, <2>2, <2>3, <2>4, <2>5
<1>4. CASE d \notin StagedSets(p)
  BY <1>1, <1>2, <1>4
<1> QED
  BY <1>3, <1>4

LEMMA CommitKeeps ==
  ASSUME IngestionInv, NEW p \in Runners, Commit(p) PROVE IngestionInv'
<1> USE DEF IngestionInv
<1>1. /\ pc[p] = "ingest" /\ UNCHANGED <<today, alerts, mode>>
      /\ staged' = [staged EXCEPT ![p] = <<>>]
      /\ started' = [started EXCEPT ![p] = 0]
      /\ todo' = [todo EXCEPT ![p] = Tail(@)]
      /\ pc' = [pc EXCEPT ![p] = IF Len(todo[p]) = 1 THEN "alerts" ELSE "ingest"]
  BY DEF Commit
<1>2. /\ watermark' = [d \in Datasets |-> watermark'[d]]
      /\ raw' = [d \in Datasets |-> raw'[d]]
      /\ covered' = [d \in Datasets |-> covered'[d]]
  BY DEF Commit
<1>3. /\ watermark' \in [Datasets -> Nat]
      /\ raw' \in [Datasets -> SUBSET (1 .. (today - 1))]
      /\ covered' \in [Datasets -> SUBSET (1 .. (today - 1))]
  <2>1. ASSUME NEW d \in Datasets
        PROVE  /\ watermark'[d] \in Nat /\ raw'[d] \in SUBSET (1 .. (today - 1))
               /\ covered'[d] \in SUBSET (1 .. (today - 1))
    <3>1. today \in Nat
      BY DEF TypeOK
    <3>2. /\ watermark'[d] \in Nat /\ watermark'[d] < today
          /\ raw'[d] \subseteq 1 .. (today - 1) /\ covered'[d] \subseteq 1 .. watermark'[d]
      BY CommitWrites
    <3> QED
      BY <3>1, <3>2
  <2> QED
    BY <1>2, <2>1
<1>4. last' \in [Datasets -> [status : Status \union {"none"}, day : Nat]]
  <2>1. last' = [d \in Datasets |-> LatestRun(p, d)]
    BY DEF Commit
  <2>2. ASSUME NEW d \in Datasets
        PROVE  LatestRun(p, d) \in [status : Status \union {"none"}, day : Nat]
    <3>1. d \in StagedSets(p) => StagedRow(p, d).status \in Status
      BY StagedRowIs DEF Row
    <3> QED
      BY <3>1 DEF LatestRun, TypeOK, ProcessTypes
  <2> QED
    BY <2>1, <2>2
<1>5. overtaken' \in [Runners -> SUBSET Datasets]
  <2>1. StagedSets(p) \subseteq Datasets
    BY StagedRowIs
  <2>2. \A q \in Runners : overtaken'[q] \in {{}, overtaken[q], overtaken[q] \union StagedSets(p)}
    BY DEF Commit
  <2>3. overtaken' = [q \in Runners |-> overtaken'[q]]
    BY DEF Commit
  <2> QED
    BY <2>1, <2>2, <2>3 DEF TypeOK
<1>6. TypeOK'
  BY <1>1, <1>3, <1>4, <1>5 DEF TypeOK
<1>7. todo[p] \in Seq(Call) /\ todo[p] # <<>> /\ Tail(todo[p]) \in Seq(Call)
      /\ \A i \in DOMAIN Tail(todo[p]) : i + 1 \in DOMAIN todo[p] /\ Tail(todo[p])[i] = todo[p][i + 1]
  <2>1. todo[p] \in Seq(Call) /\ todo[p] # <<>>
    BY <1>1 DEF ProcessTypes
  <2> QED
    BY <2>1
<1>8. ProcessTypes'
  <2>1. Len(todo[p]) # 1 => Tail(todo[p]) # <<>>
    BY <1>7, LongerThanOne
  <2> QED
    BY <1>1, <1>7, <2>1 DEF ProcessTypes, TypeOK
<1>9. AsOfInv'
  <2>1. ASSUME NEW q \in Runners, NEW i \in DOMAIN todo'[q]
        PROVE  todo'[q][i] \in Call /\ InTime(todo'[q][i])
    <3>1. CASE q = p
      <4>1. i + 1 \in DOMAIN todo[q] /\ todo'[q][i] = todo[q][i + 1]
        BY <1>1, <1>7, <3>1 DEF ProcessTypes
      <4> QED
        BY <4>1, CallsInHand
    <3>2. CASE q # p
      <4>1. todo'[q] = todo[q]
        BY <1>1, <3>2 DEF ProcessTypes
      <4> QED
        BY <4>1, CallsInHand
    <3> QED
      BY <3>1, <3>2
  <2>2. /\ today' = today /\ today \in Nat /\ today >= FirstDay
        /\ watermark \in [Datasets -> Nat] /\ watermark' \in [Datasets -> Nat]
        /\ \A d \in Datasets : watermark'[d] >= watermark[d]
    BY <1>1, <1>3, CommitWrites DEF TypeOK, AsOfInv
  <2> QED
    BY <2>1, <2>2, IngestionAssumption, CallsStay
<1>10. StagedInv'
  <2>1. DOMAIN <<>> = {}
    BY SMT
  <2>2. today \in Nat /\ watermark \in [Datasets -> Nat]
        /\ \A d \in Datasets : watermark'[d] >= watermark[d]
    BY CommitWrites DEF TypeOK
  <2>3. ASSUME NEW q \in Runners, NEW i \in DOMAIN staged'[q]
        PROVE  \E row \in Row :
                  /\ staged'[q][i] = row
                  /\ Planned(row)'
                  /\ mode'[q] = "live" /\ row.status = "success" => row.rows = row.dates
    <3>1. q # p /\ i \in DOMAIN staged[q] /\ staged'[q] = staged[q]
      BY <1>1, <2>1, <2>3 DEF ProcessTypes
    <3>2. /\ Planned(staged[q][i]) /\ staged[q][i] \in Row
          /\ mode[q] = "live" /\ staged[q][i].status = "success"
                => staged[q][i].rows = staged[q][i].dates
      BY <3>1, ElementOfSeq DEF StagedInv, ProcessTypes
    <3>3. PICK row \in Row : row = staged[q][i]
      BY <3>2
    <3>4. Planned(row)
      BY <3>2, <3>3
    <3>5. Planned(row)'
      BY <1>1, <1>3, <2>2, <3>4, PlannedStays
    <3> QED
      BY <1>1, <3>1, <3>2, <3>3, <3>5
  <2>4. ASSUME NEW q \in Runners, NEW i \in DOMAIN staged'[q]
        PROVE  Planned(staged[q][i])'
    <3>1. PICK row \in Row : staged'[q][i] = row /\ Planned(row)'
      BY <2>3, <2>4
    <3> QED
      BY <3>1 DEF Planned
  <2> QED
    BY <2>3, <2>4 DEF StagedInv
<1>11. MarkInv'
  BY <1>1, CommitWrites DEF MarkInv
<1>12. LoadedInv'
  BY <1>1, CommitWrites DEF LoadedInv
<1> QED
  BY <1>6, <1>8, <1>9, <1>10, <1>11, <1>12

LEMMA AbortKeeps ==
  ASSUME IngestionInv, NEW p \in Runners, Abort(p) PROVE IngestionInv'
<1> USE DEF IngestionInv
<1>1. /\ UNCHANGED <<today, dbVars, alerts, mode>>
      /\ staged' = [staged EXCEPT ![p] = <<>>] /\ todo' = [todo EXCEPT ![p] = <<>>]
      /\ started' = [started EXCEPT ![p] = 0] /\ overtaken' = [overtaken EXCEPT ![p] = {}]
      /\ pc' = [pc EXCEPT ![p] = "idle"]
  BY DEF Abort
<1>2. DOMAIN <<>> = {}
  BY SMT
<1>3. TypeOK' /\ ProcessTypes'
  <2>1. TypeOK'
    BY <1>1 DEF TypeOK, dbVars
  <2>2. <<>> \in Seq(Call) /\ <<>> \in Seq(Row)
    OBVIOUS
  <2>3. \A q \in Runners : pc'[q] = "ingest" => todo'[q] # <<>>
    BY <1>1 DEF TypeOK, ProcessTypes
  <2> QED
    BY <1>1, <2>1, <2>2, <2>3 DEF ProcessTypes
<1>4. AsOfInv' /\ StagedInv'
  <2>1. AsOfInv'
    BY <1>1, <1>2 DEF AsOfInv, ProcessTypes, InTime, dbVars
  <2>2. StagedInv'
    <3>1. ASSUME NEW q \in Runners, NEW i \in DOMAIN staged'[q]
          PROVE  q # p /\ staged'[q] = staged[q] /\ i \in DOMAIN staged[q]
      BY <1>1, <1>2, <3>1 DEF ProcessTypes
    <3> QED
      BY <1>1, <3>1 DEF StagedInv, Planned, dbVars
  <2> QED
    BY <2>1, <2>2
<1>5. MarkInv' /\ LoadedInv'
  BY <1>1 DEF MarkInv, LoadedInv, dbVars
<1> QED
  BY <1>3, <1>4, <1>5

LEMMA RaiseAlertsKeeps ==
  ASSUME IngestionInv, NEW p \in Runners, RaiseAlerts(p) PROVE IngestionInv'
<1> USE DEF IngestionInv
<1>1. /\ UNCHANGED <<today, dbVars, mode, todo, staged, started, overtaken>>
      /\ alerts' = alerts \union UNION {Alert(d) : d \in Datasets}
      /\ pc' = [pc EXCEPT ![p] = "idle"]
  BY DEF RaiseAlerts
<1>2. alerts' \subseteq {"missing", "pipeline_failed", "data_stale"} \X Datasets
  BY <1>1 DEF Alert, TypeOK
<1>3. TypeOK' /\ ProcessTypes'
  BY <1>1, <1>2 DEF TypeOK, ProcessTypes, dbVars
<1>4. AsOfInv' /\ StagedInv' /\ MarkInv' /\ LoadedInv'
  BY <1>1 DEF AsOfInv, InTime, StagedInv, Planned, MarkInv, LoadedInv, dbVars
<1> QED
  BY <1>3, <1>4

LEMMA NextDayKeeps ==
  ASSUME IngestionInv, NextDay PROVE IngestionInv'
<1> USE DEF IngestionInv
<1>1. today \in Nat /\ today' = today + 1 /\ UNCHANGED <<dbVars, alerts, runVars>>
  BY DEF NextDay, TypeOK
<1>2. TypeOK' /\ ProcessTypes'
  BY <1>1 DEF TypeOK, ProcessTypes, dbVars, runVars
<1>3. AsOfInv'
  <2>1. /\ watermark' = watermark /\ watermark \in [Datasets -> Nat] /\ todo' = todo
        /\ today >= FirstDay
    BY <1>1 DEF dbVars, runVars, TypeOK, AsOfInv
  <2>2. \A q \in Runners : \A i \in DOMAIN todo'[q] :
           \E c \in Call : c = todo'[q][i] /\ InTime(c)
    BY <2>1, CallsInHand
  <2> QED
    BY <1>1, <2>1, <2>2, IngestionAssumption, CallsStay
<1>4. StagedInv'
  <2>1. \A d \in Datasets : watermark'[d] = watermark[d]
    BY <1>1 DEF dbVars
  <2> QED
    BY <1>1, <2>1 DEF StagedInv, Planned, dbVars, runVars
<1>5. MarkInv' /\ LoadedInv'
  BY <1>1 DEF MarkInv, LoadedInv, TypeOK, dbVars, runVars
<1> QED
  BY <1>2, <1>3, <1>4, <1>5

\* Every step preserves the invariant.
LEMMA StepKeeps == IngestionInv /\ [Next]_vars => IngestionInv'
<1> SUFFICES ASSUME IngestionInv, [Next]_vars PROVE IngestionInv'
  OBVIOUS
<1>1. CASE UNCHANGED vars
  <2>1. TypeOK' /\ ProcessTypes' /\ AsOfInv'
    BY <1>1 DEF vars, dbVars, runVars, IngestionInv, TypeOK, ProcessTypes, AsOfInv, InTime
  <2>2. StagedInv' /\ MarkInv' /\ LoadedInv'
    BY <1>1 DEF vars, dbVars, runVars, IngestionInv, StagedInv, Planned, MarkInv, LoadedInv
  <2> QED
    BY <2>1, <2>2 DEF IngestionInv
<1> QED
  BY <1>1, StartCycleKeeps, IngestDatasetKeeps, CommitKeeps, AbortKeeps, RaiseAlertsKeeps,
     NextDayKeeps DEF Next, Cycle

LEMMA InvHolds == Spec => []IngestionInv
BY InitHolds, StepKeeps, PTL DEF Spec

-----------------------------------------------------------------------------
(* Theorems *)

\* Every state of the ingestion is well typed, and no run loads or covers a
\* day that is not over yet.
THEOREM TypeCorrect == Spec => []TypeOK
BY InvHolds, PTL DEF IngestionInv

\* A catch-up plan keeps its promise until its call is made, for any windows
\* (also a --catch-up-days beyond the backfill): what is missing of a gap lies
\* above the watermark, from which the replay plans, or out of Amazon's reach.
THEOREM ReplayCoversGapHolds == Spec => []ReplayCoversGap
<1>1. IngestionInv => ReplayCoversGap
  BY GapIsPlanned DEF IngestionInv
<1> QED
  BY <1>1, InvHolds, PTL

\* With live processes, what resolve_source_freshness calls fresh has been
\* loaded: every day up to data_through that is within the backfill.
THEOREM FreshMeansLoadedHolds ==
  ASSUME Modes = {"live"}
  PROVE  Spec => []FreshMeansLoaded
<1>1. IngestionInv => FreshMeansLoaded
  <2> SUFFICES ASSUME IngestionInv, NEW d \in Datasets, NEW x \in 1 .. DataThrough(d),
                      x + Backfill[d] > watermark[d]
               PROVE  x \in raw[d]
    BY DEF FreshMeansLoaded
  <2> USE DEF IngestionInv
  <2>1. watermark[d] \in Nat /\ today \in Nat /\ Lag \in Nat
    BY IngestionAssumption DEF TypeOK
  <2>2. x \in 1 .. watermark[d]
    BY <2>1 DEF DataThrough
  <2>3. x \in covered[d]
    BY <2>2 DEF MarkInv
  <2>4. \A p \in Runners : mode[p] = "live"
    BY DEF ProcessTypes
  <2> QED
    BY <2>3, <2>4 DEF LoadedInv
<1> QED
  BY <1>1, InvHolds, PTL

\* With live processes, every dataset keeps the ledger: its watermark only
\* rises, stays behind today and passes a day only when the day is loaded or
\* Amazon no longer serves it, whatever fails, aborts, overlaps or is
\* replayed.
THEOREM LedgerRefinement ==
  ASSUME Modes = {"live"}
  PROVE  Spec => KeepsLedger
<1>1. Init => \A d \in Datasets : Ledger(d)!Init
  BY DEF Init, Ledger!Init
<1>2. IngestionInv /\ IngestionInv' /\ [Next]_vars
         => [\A d \in Datasets : Ledger(d)!Next]_<<today, watermark, raw>>
  <2> SUFFICES ASSUME IngestionInv, IngestionInv', [Next]_vars,
                      ~UNCHANGED <<today, watermark, raw>>, NEW d \in Datasets
               PROVE  Ledger(d)!Next
    OBVIOUS
  <2> USE DEF IngestionInv
  <2>1. today \in Nat /\ watermark[d] \in Nat
    BY DEF TypeOK
  <2>2. CASE UNCHANGED <<watermark, raw>>
    BY <2>1, <2>2 DEF Ledger!Next
  <2>3. ASSUME NEW p \in Runners, Commit(p) PROVE Ledger(d)!Next
    <3>1. /\ watermark'[d] \in Nat /\ watermark'[d] >= watermark[d] /\ watermark'[d] < today
          /\ raw[d] \subseteq raw'[d]
          /\ \A x \in 1 .. watermark'[d] :
                x + Backfill[d] > watermark'[d] => x \in covered'[d]
      BY <2>3, CommitWrites
    <3>2. covered'[d] \subseteq raw'[d]
      BY DEF LoadedInv, ProcessTypes
    <3>3. today' = today /\ Backfill[d] \in Nat
      BY <2>3, IngestionAssumption DEF Commit
    <3> QED
      BY <2>1, <3>1, <3>2, <3>3 DEF Ledger!Next
  <2> QED
    BY <2>2, <2>3 DEF Next, Cycle, StartCycle, IngestDataset, RaiseAlerts, Abort, NextDay, dbVars,
                      vars
<1> QED
  BY <1>1, <1>2, InvHolds, PTL DEF Spec, KeepsLedger
=============================================================================
