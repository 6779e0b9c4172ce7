------------------------ MODULE ActionOutcome_proofs ------------------------
(***************************************************************************)
(* Proofs about ActionOutcome for any actions, histories, horizons,        *)
(* verifiers, operators, faults and days.                                  *)
(***************************************************************************)
EXTENDS ActionOutcome, FiniteSetTheorems, WellFoundedInduction, TLAPS

-----------------------------------------------------------------------------
(* Natural numbers: least and greatest elements, and induction over a set, *)
(* from the well-foundedness of < that the library states.                 *)

LEMMA NatMin ==
  ASSUME NEW T \in SUBSET Nat, T # {}
  PROVE  \E x \in T : \A y \in T : x <= y
<1> DEFINE R == OpToRel(<, Nat)
<1>1. IsWellFoundedOn(R, Nat)
  BY NatLessThanWellFounded
<1>2. PICK x \in T : \A y \in T : ~(<<y, x>> \in R)
  <2> HIDE DEF R
  <2> QED
    BY <1>1, WFMin
<1>3. \A y \in T : x <= y
  <2> SUFFICES ASSUME NEW y \in T PROVE x <= y
    OBVIOUS
  <2>1. ~(y < x)
    BY <1>2 DEF OpToRel
  <2> HIDE DEF R
  <2> QED
    BY <2>1
<1> HIDE DEF R
<1> QED
  BY <1>3, Zenon

LEMMA Induction ==
  ASSUME NEW S \in SUBSET Nat, 0 \in S, \A n \in S : n + 1 \in S
  PROVE  S = Nat
<1> SUFFICES ASSUME Nat \ S # {} PROVE FALSE
  OBVIOUS
<1>1. PICK x \in Nat \ S : \A y \in Nat \ S : x <= y
  BY NatMin
<1>2. x # 0 /\ x - 1 \in Nat /\ x - 1 \in S
  BY <1>1
<1> QED
  BY <1>1, <1>2

\* A nonempty set of naturals below a bound has a greatest element.
LEMMA NatMax ==
  ASSUME NEW n \in Nat, NEW T \in SUBSET (0 .. n), T # {}
  PROVE  \E x \in T : \A y \in T : y <= x
<1> DEFINE M == {n - y : y \in T}
<1>1. M \in SUBSET Nat /\ M # {}
  <2>1. \A y \in T : n - y \in Nat
    OBVIOUS
  <2>2. PICK y \in T : n - y \in M
    OBVIOUS
  <2> QED
    BY <2>1, <2>2
<1>2. PICK m \in M : \A k \in M : m <= k
  <2> HIDE DEF M
  <2> QED
    BY <1>1, NatMin
<1>3. PICK x \in T : m = n - x
  OBVIOUS
<1>4. \A y \in T : y <= x
  <2> SUFFICES ASSUME NEW y \in T PROVE y <= x
    OBVIOUS
  <2>1. m <= n - y
    BY <1>2
  <2> QED
    BY <1>3, <2>1
<1> QED
  BY <1>4

LEMMA MaxOf ==
  ASSUME NEW n \in Nat, NEW T \in SUBSET (0 .. n), T # {}
  PROVE  Max(T) \in T /\ \A y \in T : y <= Max(T)
<1>1. PICK x \in T : \A y \in T : y <= x
  BY NatMax
<1>2. \A y \in T : x >= y
  BY <1>1
<1>3. Max(T) \in T /\ \A y \in T : Max(T) >= y
  BY <1>2, Zenon DEF Max
<1> QED
  BY <1>3

-----------------------------------------------------------------------------
(* The running sum of a column.                                            *)

IsSum(f, w, start, n) ==
    /\ f \in [-1 .. n -> Nat]
    /\ \A d \in -1 .. n : f[d] = IF d < start \/ d < 0 THEN 0 ELSE f[d - 1] + w[d]

LEMMA SumExtends ==
  ASSUME NEW w \in [Nat -> Nat], NEW start \in Int, NEW n \in Nat,
         NEW f, IsSum(f, w, start, n)
  PROVE  \E g : IsSum(g, w, start, n + 1)
<1> DEFINE last == IF n + 1 < start THEN 0 ELSE f[n] + w[n + 1]
           g == [d \in -1 .. (n + 1) |-> IF d = n + 1 THEN last ELSE f[d]]
<1>1. f \in [-1 .. n -> Nat]
  BY DEF IsSum
<1>2. last \in Nat
  <2>1. n \in -1 .. n
    OBVIOUS
  <2>2. f[n] \in Nat
    BY <1>1, <2>1
  <2>3. w[n + 1] \in Nat
    OBVIOUS
  <2> QED
    BY <2>2, <2>3
<1>3. \A d \in -1 .. n : f[d] \in Nat
  BY <1>1
<1> HIDE DEF last
<1>4. g \in [-1 .. (n + 1) -> Nat]
  BY <1>2, <1>3
<1>5. g[n + 1] = last /\ \A d \in -1 .. n : g[d] = f[d]
  OBVIOUS
<1> HIDE DEF g
<1>6. ASSUME NEW d \in -1 .. (n + 1)
      PROVE  g[d] = IF d < start \/ d < 0 THEN 0 ELSE g[d - 1] + w[d]
  <2>1. CASE d = n + 1
    <3>1. g[d - 1] = f[n] /\ w[d] = w[n + 1]
      <4>1. d - 1 = n /\ n \in -1 .. n
        BY <2>1
      <4> QED
        BY <1>5, <4>1, <2>1
    <3> QED
      BY <1>5, <2>1, <3>1 DEF last
  <2>2. CASE d \in -1 .. n
    <3>1. g[d] = f[d] /\ f[d] = IF d < start \/ d < 0 THEN 0 ELSE f[d - 1] + w[d]
      BY <1>5, <2>2 DEF IsSum
    <3>2. CASE d < start \/ d < 0
      BY <3>1, <3>2
    <3>3. CASE ~(d < start \/ d < 0)
      <4>1. d - 1 \in -1 .. n
        BY <2>2, <3>3
      <4>2. g[d - 1] = f[d - 1]
        BY <1>5, <4>1
      <4> QED
        BY <3>1, <3>3, <4>2
    <3> QED
      BY <3>2, <3>3
  <2> QED
    BY <2>1, <2>2
<1>7. IsSum(g, w, start, n + 1)
  BY <1>4, <1>6 DEF IsSum
<1> QED
  BY <1>7

LEMMA SumExists ==
  ASSUME NEW w \in [Nat -> Nat], NEW start \in Int
  PROVE  \A n \in Nat : \E f : IsSum(f, w, start, n)
<1> DEFINE S == {n \in Nat : \E f : IsSum(f, w, start, n)}
<1>1. 0 \in S
  <2> DEFINE f == [d \in -1 .. 0 |-> IF d < start \/ d < 0 THEN 0 ELSE w[0]]
  <2>1. f \in [-1 .. 0 -> Nat] /\ f[-1] = 0 /\ f[0] = IF 0 < start THEN 0 ELSE w[0]
    OBVIOUS
  <2> HIDE DEF f
  <2>2. IsSum(f, w, start, 0)
    BY <2>1 DEF IsSum
  <2> QED
    BY <2>2
<1>2. \A n \in S : n + 1 \in S
  BY SumExtends
<1> HIDE DEF S
<1>3. S = Nat
  <2>1. S \in SUBSET Nat
    BY DEF S
  <2> QED
    BY <1>1, <1>2, <2>1, Induction
<1>4. \A n \in Nat : n \in S
  BY <1>3
<1> QED
  BY <1>4 DEF S

\* Two running sums of the same weights agree.
LEMMA SumsAgree ==
  ASSUME NEW w, NEW v, NEW start \in Int, NEW n \in Nat, NEW f, NEW g,
         IsSum(f, w, start, n), IsSum(g, v, start, n),
         NEW m \in Nat, m <= n, \A d \in 0 .. m : w[d] = v[d]
  PROVE  \A d \in -1 .. m : f[d] = g[d]
<1> DEFINE S == {i \in Nat : i <= m => f[i] = g[i]}
<1>1. f[-1] = 0 /\ g[-1] = 0
  BY DEF IsSum
<1>2. \A d \in 0 .. m : f[d] = (IF d < start THEN 0 ELSE f[d - 1] + w[d])
  BY DEF IsSum
<1>3. \A d \in 0 .. m : g[d] = (IF d < start THEN 0 ELSE g[d - 1] + w[d])
  BY DEF IsSum
<1>4. 0 \in S
  <2>1. 0 \in 0 .. m /\ 0 - 1 = -1
    OBVIOUS
  <2> QED
    BY <1>1, <1>2, <1>3, <2>1
<1>5. ASSUME NEW i \in S PROVE i + 1 \in S
  <2> SUFFICES ASSUME i + 1 <= m PROVE f[i + 1] = g[i + 1]
    OBVIOUS
  <2>1. i + 1 \in 0 .. m /\ (i + 1) - 1 = i /\ f[i] = g[i]
    OBVIOUS
  <2> QED
    BY <1>2, <1>3, <2>1
<1> HIDE DEF S
<1>6. S = Nat
  <2>1. S \in SUBSET Nat
    BY DEF S
  <2> QED
    BY <1>4, <1>5, <2>1, Induction
<1>7. \A i \in 0 .. m : f[i] = g[i]
  BY <1>6 DEF S
<1> QED
  BY <1>1, <1>7

\* A column of zeros and ones sums up to the number of days at most, less if
\* the days after `last`, where it is zero, begin before the sum ends.
LEMMA SumOfOnes ==
  ASSUME NEW w, NEW start \in Int, NEW n \in Nat, NEW f, IsSum(f, w, start, n),
         NEW last \in Int, \A d \in 0 .. n : w[d] \in 0 .. 1 /\ (d > last => w[d] = 0)
  PROVE  \A d \in -1 .. n : d >= start - 1 =>
            f[d] <= d - start + 1 /\ (d > last /\ d >= start => f[d] <= d - start)
<1> DEFINE Bound(d) ==
        d >= start - 1 =>
            f[d] <= d - start + 1 /\ (d > last /\ d >= start => f[d] <= d - start)
           S == {i \in Nat : i <= n => Bound(i)}
<1>1. f[-1] = 0 /\ \A d \in -1 .. n : f[d] \in Nat
  BY DEF IsSum
<1>2. \A d \in 0 .. n : f[d] = (IF d < start THEN 0 ELSE f[d - 1] + w[d])
  BY DEF IsSum
<1>3. ASSUME NEW d \in 0 .. n, Bound(d - 1) PROVE Bound(d)
  <2>1. w[d] \in 0 .. 1 /\ (d > last => w[d] = 0)
    OBVIOUS
  <2>2. f[d] = (IF d < start THEN 0 ELSE f[d - 1] + w[d])
    BY <1>2
  <2>3. d - 1 \in -1 .. n /\ f[d - 1] \in Nat /\ f[d] \in Nat
    BY <1>1
  <2>4. CASE d < start
    BY <2>2, <2>3, <2>4
  <2>5. CASE d = start
    <3>1. f[d - 1] = 0
      <4>1. CASE d = 0
        BY <1>1, <4>1
      <4>2. CASE d # 0
        <5>1. d - 1 \in 0 .. n /\ d - 1 < start
          BY <4>2, <2>5
        <5> QED
          BY <1>2, <5>1
      <4> QED
        BY <4>1, <4>2
    <3> QED
      BY <2>1, <2>2, <2>5, <3>1
  <2>6. CASE d > start
    <3>1. f[d - 1] <= (d - 1) - start + 1
      BY <1>3, <2>6
    <3> QED
      BY <2>1, <2>2, <2>3, <2>6, <3>1
  <2> QED
    BY <2>4, <2>5, <2>6
<1>4. Bound(-1)
  BY <1>1
<1>5. 0 \in S
  <2>1. 0 \in 0 .. n /\ 0 - 1 = -1
    OBVIOUS
  <2> HIDE DEF Bound
  <2> QED
    BY <1>3, <1>4, <2>1
<1>6. ASSUME NEW i \in S PROVE i + 1 \in S
  <2> SUFFICES ASSUME i + 1 <= n PROVE Bound(i + 1)
    OBVIOUS
  <2> HIDE DEF Bound
  <2>1. i + 1 \in 0 .. n /\ (i + 1) - 1 = i /\ Bound(i)
    OBVIOUS
  <2> QED
    BY <1>3, <2>1
<1> HIDE DEF Bound, S
<1>7. S = Nat
  <2>1. S \in SUBSET Nat
    BY DEF S
  <2> QED
    BY <1>5, <1>6, <2>1, Induction
<1>8. \A d \in 0 .. n : Bound(d)
  BY <1>7 DEF S
<1>9. \A d \in -1 .. n : Bound(d)
  BY <1>4, <1>8
<1> QED
  BY <1>9 DEF Bound

-----------------------------------------------------------------------------
(* Windows of settled rows *)

\* ColumnSum over given rows, settled up to `last`.
UpTo(last, rows, column, start) ==
    LET upTo[d \in -1 .. MaxDay] ==
            IF d < start \/ d < 0 THEN 0
            ELSE upTo[d - 1] + (IF d <= last THEN rows[d][column] ELSE 0)
    IN  upTo

Over(last, rows, start, end) ==
    [column \in {"cost", "sales", "clicks", "orders", "seen"} |->
        UpTo(last, rows, column, start)[IF end - 1 < MaxDay THEN end - 1 ELSE MaxDay]]

LEMMA WindowsAreOver ==
  ASSUME NEW a, NEW start, NEW end
  PROVE  /\ PerformanceWindow(a, start, end) = Over(through, mart[a], start, end)
         /\ PerformanceWindow(a, start, end)' = Over(through', mart'[a], start, end)
BY DEF PerformanceWindow, ColumnSum, Over, UpTo

Weights(last, rows, column) ==
    [d \in Nat |-> IF d <= MaxDay /\ d <= last THEN rows[d][column] ELSE 0]

Columns == {"cost", "sales", "clicks", "orders", "seen"}

LEMMA UpToIsSum ==
  ASSUME NEW last \in Int, NEW rows \in [Days -> Window], NEW column \in Columns,
         NEW start \in Int
  PROVE  IsSum(UpTo(last, rows, column, start), Weights(last, rows, column), start, MaxDay)
<1> DEFINE w == Weights(last, rows, column)
           F(f) == [d \in -1 .. MaxDay |->
                       IF d < start \/ d < 0 THEN 0
                       ELSE f[d - 1] + (IF d <= last THEN rows[d][column] ELSE 0)]
           u == UpTo(last, rows, column, start)
<1>1. MaxDay \in Nat
  BY OutcomeAssumption
<1>2. w \in [Nat -> Nat]
  <2> SUFFICES ASSUME NEW d \in Nat, d <= MaxDay, d <= last PROVE rows[d][column] \in Nat
    BY DEF Weights
  <2>1. rows[d] \in Window
    BY <1>1 DEF Days
  <2> QED
    BY <2>1 DEF Window, Columns
<1>3. PICK f : IsSum(f, w, start, MaxDay)
  <2> HIDE DEF w
  <2> QED
    BY <1>1, <1>2, SumExists
<1>4. f = F(f)
  <2>1. f \in [-1 .. MaxDay -> Nat]
    BY <1>3 DEF IsSum
  <2>2. ASSUME NEW d \in -1 .. MaxDay PROVE f[d] = F(f)[d]
    <3>1. f[d] = IF d < start \/ d < 0 THEN 0 ELSE f[d - 1] + w[d]
      BY <1>3 DEF IsSum
    <3>2. d >= 0 => w[d] = IF d <= last THEN rows[d][column] ELSE 0
      BY <1>1 DEF Weights
    <3> HIDE DEF w
    <3> QED
      BY <3>1, <3>2
  <2> HIDE DEF w
  <2> QED
    BY <2>1, <2>2
<1>5. u = CHOOSE g : g = F(g)
  BY DEF UpTo
<1>6. u = F(u)
  <2> HIDE DEF F, u
  <2> QED
    BY <1>4, <1>5
<1>7. ASSUME NEW g, g = F(g) PROVE IsSum(g, w, start, MaxDay)
  <2>1. \A d \in -1 .. MaxDay : g[d] = IF d < start \/ d < 0 THEN 0 ELSE g[d - 1] + w[d]
    <3> SUFFICES ASSUME NEW d \in -1 .. MaxDay
                 PROVE g[d] = IF d < start \/ d < 0 THEN 0 ELSE g[d - 1] + w[d]
      OBVIOUS
    <3>1. g[d] = F(g)[d]
      <4> HIDE DEF F
      <4> QED
        BY <1>7
    <3>2. d >= 0 => w[d] = IF d <= last THEN rows[d][column] ELSE 0
      BY <1>1 DEF Weights
    <3> HIDE DEF w
    <3> QED
      BY <3>1, <3>2
  <2>2. DOMAIN g = -1 .. MaxDay /\ g = [d \in -1 .. MaxDay |-> g[d]]
    <3>1. DOMAIN F(g) = -1 .. MaxDay /\ F(g) = [d \in -1 .. MaxDay |-> F(g)[d]]
      OBVIOUS
    <3> HIDE DEF F
    <3> QED
      BY <1>7, <3>1
  <2>3. \A d \in -1 .. MaxDay : g[d] \in Nat
    <3> DEFINE S == {i \in Nat : i <= MaxDay => g[i] \in Nat}
    <3>1. g[-1] = 0
      BY <1>1, <2>1
    <3>2. 0 \in S
      <4>1. g[0] = IF 0 < start THEN 0 ELSE g[-1] + w[0]
        BY <1>1, <2>1
      <4>2. w[0] \in Nat
        BY <1>2
      <4> HIDE DEF w
      <4> QED
        BY <3>1, <4>1, <4>2
    <3>3. ASSUME NEW i \in S PROVE i + 1 \in S
      <4> SUFFICES ASSUME i + 1 <= MaxDay PROVE g[i + 1] \in Nat
        OBVIOUS
      <4>1. i + 1 \in -1 .. MaxDay /\ (i + 1) - 1 = i /\ ~(i + 1 < 0) /\ g[i] \in Nat
        BY <1>1
      <4>2. g[i + 1] = IF i + 1 < start THEN 0 ELSE g[i] + w[i + 1]
        BY <2>1, <4>1
      <4>3. w[i + 1] \in Nat
        BY <1>2
      <4> HIDE DEF w
      <4> QED
        BY <4>1, <4>2, <4>3
    <3>4. S = Nat
      <4> HIDE DEF w
      <4>1. S \in SUBSET Nat
        OBVIOUS
      <4> HIDE DEF S
      <4> QED
        BY <3>2, <3>3, <4>1, Induction
    <3>5. \A i \in 0 .. MaxDay : i \in S
      <4> HIDE DEF S
      <4> QED
        BY <3>4
    <3>6. \A i \in 0 .. MaxDay : g[i] \in Nat
      BY <3>5
    <3> QED
      BY <3>1, <3>6
  <2>4. g \in [-1 .. MaxDay -> Nat]
    BY <2>2, <2>3
  <2> QED
    BY <2>1, <2>4 DEF IsSum
<1> HIDE DEF F, w
<1> QED
  BY <1>6, <1>7 DEF w

\* A mature window has all its days among the settled ones.
LEMMA MatureIsSettled ==
  ASSUME NEW last \in Int, NEW rows \in [Days -> Window], NEW start \in Int,
         NEW h \in Nat \ {0}, start <= MaxDay, start + h >= 0,
         Mature(Over(last, rows, start, start + h), h)
  PROVE  start + h - 1 <= last /\ start + h - 1 <= MaxDay
<1> DEFINE w == Weights(last, rows, "seen")
           f == UpTo(last, rows, "seen", start)
           m == IF start + h - 1 < MaxDay THEN start + h - 1 ELSE MaxDay
<1>1. MaxDay \in Nat
  BY OutcomeAssumption
<1>2. IsSum(f, w, start, MaxDay)
  BY UpToIsSum DEF Columns
<1>3. \A d \in 0 .. MaxDay : w[d] \in 0 .. 1 /\ (d > last => w[d] = 0)
  <2> SUFFICES ASSUME NEW d \in 0 .. MaxDay
               PROVE w[d] \in 0 .. 1 /\ (d > last => w[d] = 0)
    OBVIOUS
  <2>1. rows[d].seen \in 0 .. 1
    BY <1>1 DEF Days, Window
  <2>2. w[d] = IF d <= last THEN rows[d].seen ELSE 0
    BY <1>1 DEF Weights
  <2> QED
    BY <1>1, <2>1, <2>2
<1>4. f[m] >= h
  BY DEF Mature, Over
<1>5. m \in -1 .. MaxDay /\ m >= start - 1 /\ m <= start + h - 1
  BY <1>1
<1>6. f[m] \in Nat
  BY <1>2, <1>5 DEF IsSum
<1> HIDE DEF f, w
<1>7. f[m] <= m - start + 1 /\ (m > last /\ m >= start => f[m] <= m - start)
  BY <1>1, <1>2, <1>3, <1>5, SumOfOnes
<1> QED
  BY <1>1, <1>4, <1>5, <1>6, <1>7

\* A window among the settled days is not changed by days settled later.
LEMMA SettledWindow ==
  ASSUME NEW last \in Int, NEW later \in Int, last <= later,
         NEW rows \in [Days -> Window], NEW new \in [Days -> Window],
         NEW start \in Int, NEW end \in Nat, end - 1 <= last, end - 1 <= MaxDay,
         \A d \in Days : d <= last => new[d] = rows[d]
  PROVE  Over(later, new, start, end) = Over(last, rows, start, end)
<1> DEFINE m == IF end - 1 < MaxDay THEN end - 1 ELSE MaxDay
<1>1. MaxDay \in Nat /\ m = end - 1 /\ m \in -1 .. MaxDay
  <2>1. MaxDay \in Nat
    BY OutcomeAssumption
  <2>2. m = end - 1
    BY <2>1
  <2> QED
    BY <2>1, <2>2
<1>2. ASSUME NEW column \in Columns
      PROVE  UpTo(later, new, column, start)[m] = UpTo(last, rows, column, start)[m]
  <2> DEFINE f == UpTo(last, rows, column, start)
             g == UpTo(later, new, column, start)
             v == Weights(last, rows, column)
             w == Weights(later, new, column)
  <2>1. IsSum(f, v, start, MaxDay) /\ IsSum(g, w, start, MaxDay)
    BY UpToIsSum
  <2>2. \A d \in 0 .. m : v[d] = w[d]
    <3> SUFFICES ASSUME NEW d \in 0 .. m PROVE v[d] = w[d]
      OBVIOUS
    <3>1. d \in Nat /\ d <= MaxDay /\ d <= last /\ d <= later /\ d \in Days
      BY <1>1 DEF Days
    <3> QED
      BY <3>1 DEF Weights
  <2> HIDE DEF f, g, v, w
  <2>3. CASE m = -1
    <3>1. -1 \in -1 .. MaxDay
      BY <1>1
    <3> QED
      BY <2>1, <2>3, <3>1 DEF IsSum, f, g
  <2>4. CASE m # -1
    <3> HIDE DEF m
    <3>1. m \in Nat /\ m <= MaxDay /\ m \in -1 .. m /\ MaxDay \in Nat
      BY <1>1, <2>4
    <3>2. \A d \in -1 .. m : f[d] = g[d]
      BY <2>1, <2>2, <3>1, SumsAgree, SMTT(60)
    <3> QED
      BY <3>1, <3>2 DEF f, g
  <2> QED
    BY <2>3, <2>4
<1> QED
  BY <1>2 DEF Over, Columns

\* The outcome `o` follows from two windows of `h` days that are settled.
Settled(last, history, a, h, o) ==
    /\ Mature(Over(last, history[a], AppliedOn[a] - h, AppliedOn[a]), h)
    /\ Mature(Over(last, history[a], AppliedOn[a], AppliedOn[a] + h), h)
    /\ o = Judge(Over(last, history[a], AppliedOn[a] - h, AppliedOn[a]),
                 Over(last, history[a], AppliedOn[a], AppliedOn[a] + h))

LEMMA SettledStays ==
  ASSUME NEW last \in Int, NEW later \in Int, last <= later,
         NEW history \in Histories, NEW changed \in Histories,
         NEW a \in Actions, NEW h \in Horizons,
         \A d \in Days : d <= last => changed[a][d] = history[a][d],
         NEW o, Settled(last, history, a, h, o)
  PROVE  Settled(later, changed, a, h, o)
<1> DEFINE day == AppliedOn[a]
           rows == history[a]
           new == changed[a]
<1>1. /\ MaxDay \in Nat /\ day \in 0 .. MaxDay /\ h \in Nat \ {0}
      /\ rows \in [Days -> Window] /\ new \in [Days -> Window]
      /\ \A d \in Days : d <= last => new[d] = rows[d]
  BY OutcomeAssumption DEF Days
<1>2. /\ Mature(Over(last, rows, day - h, day), h)
      /\ Mature(Over(last, rows, day, day + h), h)
      /\ o = Judge(Over(last, rows, day - h, day), Over(last, rows, day, day + h))
  BY DEF Settled
<1> HIDE DEF day, rows, new
<1>3. day + h - 1 <= last /\ day + h - 1 <= MaxDay
  BY <1>1, <1>2, MatureIsSettled
<1>4. Over(later, new, day, day + h) = Over(last, rows, day, day + h)
  <2>1. day + h \in Nat /\ day \in Int
    BY <1>1
  <2> QED
    BY <1>1, <1>3, <2>1, SettledWindow
<1>5. Over(later, new, day - h, day) = Over(last, rows, day - h, day)
  <2>1. day \in Nat /\ day - h \in Int /\ day - 1 <= last /\ day - 1 <= MaxDay
    BY <1>1, <1>3
  <2> QED
    BY <1>1, <2>1, SettledWindow
<1>6. Settled(later, changed, a, h, o) =
        (/\ Mature(Over(later, new, day - h, day), h)
         /\ Mature(Over(later, new, day, day + h), h)
         /\ o = Judge(Over(later, new, day - h, day), Over(later, new, day, day + h)))
  BY DEF Settled, day, new
<1> QED
  BY <1>2, <1>4, <1>5, <1>6, Zenon

\* What verify_horizon and verify_action compute.
LEMMA EvidenceIsSettled ==
  ASSUME NEW a \in Actions, NEW h \in Horizons, Evidence(a, h).status = "COMPLETE"
  PROVE  Settled(through, mart, a, h, Evidence(a, h).outcome)
<1>1. /\ Mature(Before(a, h), h) /\ Mature(After(a, h), h)
      /\ Evidence(a, h).outcome = Judge(Before(a, h), After(a, h))
  BY DEF Evidence, Judgeable
<1>2. /\ Before(a, h) = Over(through, mart[a], AppliedOn[a] - h, AppliedOn[a])
      /\ After(a, h) = Over(through, mart[a], AppliedOn[a], AppliedOn[a] + h)
  BY WindowsAreOver DEF Before, After
<1> QED
  BY <1>1, <1>2, Zenon DEF Settled

LEMMA VerdictIsSettled ==
  ASSUME NEW a \in Actions, NEW h \in Horizons, NEW o, Settled(through, mart, a, h, o)
  PROVE  Judge(Before(a, h), After(a, h)) = o
<1>1. /\ Before(a, h) = Over(through, mart[a], AppliedOn[a] - h, AppliedOn[a])
      /\ After(a, h) = Over(through, mart[a], AppliedOn[a], AppliedOn[a] + h)
  BY WindowsAreOver DEF Before, After
<1> QED
  BY <1>1, Zenon DEF Settled

LEMMA JudgeIsOutcome ==
  \A b, c : Judge(b, c) \in Outcomes
BY DEF Judge, Outcomes

-----------------------------------------------------------------------------
(* The invariant: types of the tables, and where each process is.          *)

Snapshot ==
    {r \in [status : {"none", "FAILED", "INSUFFICIENT_DATA", "COMPLETE"},
            outcome : Outcomes \union {"none"}] :
        IF r.status = "COMPLETE" THEN r.outcome \in Outcomes ELSE r.outcome = "none"}
ActionRow == [status : {"applied", "verified", "rolled_back"},
              outcome : Outcomes \union {"none"}]
Findings == [status : {"none", "FAILED", "INSUFFICIENT_DATA", "COMPLETE",
                       "verified", "applied", "rolled_back"},
             outcome : Outcomes \union {"none"}]
Kinds == {"verification.result", "rollback.requested", "rollback.succeeded", "rollback.failed"}
Event ==
    {e \in Actions \X Kinds \X (Outcomes \union {"none"}) :
        IF e[2] = "verification.result" THEN e[3] \in Outcomes ELSE e[3] = "none"}
Pair == [act : Actions, days : Horizons \union {0}, status : {"applied", "verified"}]
StagedAction == Actions \X ActionRow
StagedSnap == (Actions \X Horizons) \X Snapshot
Writes == [action : Seq(StagedAction), snap : Seq(StagedSnap), events : Seq(Event)]

Tables ==
    /\ action \in [Actions -> ActionRow]
    /\ snap \in [Actions -> [Horizons -> Snapshot]]
    /\ events \in SUBSET Event

Locals ==
    /\ pc \in [Processes -> {"idle", "fetched", "upsert", "verdict", "update", "call", "written"}]
    /\ due \in [Processes -> SUBSET Pair]
    /\ found \in [Processes -> Findings]
    /\ mine \in [Processes -> Writes]
    /\ \A p \in Processes : pc[p] = "idle" => mine[p] = NoWrites

\* The pairs of a verifier are told apart by action and horizon.
Distinct(pairs) ==
    \A x, y \in pairs : x.act = y.act /\ x.days = y.days => x = y

VerifierAt(v) ==
    /\ pc[v] \in {"idle", "fetched", "upsert", "verdict", "update"}
    /\ Distinct(due[v]) /\ \A x \in due[v] : x.days \in Horizons
    /\ pc[v] \in {"upsert", "verdict", "update"} => due[v] # {}
    /\ pc[v] = "upsert" => found[v] \in Snapshot
    /\ pc[v] \in {"verdict", "update"} => Current(v).days = WindowDays
    /\ pc[v] = "update" => found[v].status = "verified" /\ found[v].outcome \in Outcomes
    /\ \A i \in DOMAIN mine[v].action : mine[v].action[i][2].status = "verified"

\* What an operator writes is about the one action it has read, and the
\* request is staged with it.
OperatorAt(o) ==
    /\ pc[o] \in {"idle", "call", "update", "written"}
    /\ pc[o] # "idle" => \E x \in Pair : due[o] = {x}
    /\ pc[o] # "idle" => \E j \in DOMAIN mine[o].events :
          mine[o].events[j] = <<Current(o).act, "rollback.requested", "none">>
    /\ pc[o] = "update" => found[o].status \in {"applied", "rolled_back"}
    /\ mine[o].snap = <<>>
    /\ \A i \in DOMAIN mine[o].action :
          mine[o].action[i][1] = Current(o).act /\ mine[o].action[i][2].status # "verified"
    /\ \A j \in DOMAIN mine[o].events : mine[o].events[j][2] # "verification.result"

Places ==
    /\ \A v \in Verifiers : VerifierAt(v)
    /\ \A o \in Operators : OperatorAt(o)

\* No two open transactions have written the same snapshot row ...
Locks ==
    \A p, q \in Processes : p # q => Keys(mine[p].snap) \intersect Keys(mine[q].snap) = {}

\* ... and what is staged for complete evidence is that evidence.
StagedKeepsFinal ==
    \A p \in Processes : \A i \in DOMAIN mine[p].snap : \A a \in Actions, h \in Horizons :
        mine[p].snap[i][1] = <<a, h>> /\ snap[a][h].status = "COMPLETE"
            => mine[p].snap[i][2] = snap[a][h]

\* The action has got its verdict, or somebody wanted it undone.
Closed(a) ==
    action[a].status = "verified" \/ <<a, "rollback.requested", "none">> \in events

\* Whoever stages the T+7 evidence of an open action stages its verdict, or
\* is about to; an action that was read as verified is closed.
WillClose(v) ==
    /\ \A x \in due[v] : x.status = "verified" => Closed(x.act)
    /\ \A i \in DOMAIN mine[v].snap : \A a \in Actions :
          mine[v].snap[i][1] = <<a, WindowDays>> /\ mine[v].snap[i][2].status = "COMPLETE"
              => \/ Closed(a)
                 \/ a \in Keys(mine[v].action)
                 \/ pc[v] \in {"verdict", "update"} /\ Current(v).act = a

OutcomeInv ==
    /\ Tables /\ Locals /\ Places
    /\ Locks /\ StagedKeepsFinal
    /\ EvidenceClosesAction /\ \A v \in Verifiers : WillClose(v)

\* What is stored, staged or computed as complete T+7 evidence or as a verdict
\* follows from settled windows, unless their rows were changed since ...
SettledNow(a, o) == a \in restated \/ Settled(through, mart, a, WindowDays, o)

World == through \in Int /\ mart \in Histories

StoredIsSettled ==
    /\ \A a \in Actions : Verdict(a).status = "COMPLETE" => SettledNow(a, Verdict(a).outcome)
    /\ \A a \in Actions, o \in Outcomes :
          <<a, "verification.result", o>> \in events => SettledNow(a, o)

StagedIsSettled(v) ==
    /\ \A i \in DOMAIN mine[v].snap : \A a \in Actions :
          mine[v].snap[i][1] = <<a, WindowDays>> /\ mine[v].snap[i][2].status = "COMPLETE"
              => SettledNow(a, mine[v].snap[i][2].outcome)
    /\ \A j \in DOMAIN mine[v].events : \A a \in Actions, o \in Outcomes :
          mine[v].events[j] = <<a, "verification.result", o>> => SettledNow(a, o)
    /\ pc[v] = "upsert" /\ Current(v).days = WindowDays /\ found[v].status = "COMPLETE"
          => SettledNow(Current(v).act, found[v].outcome)
    /\ pc[v] = "update" => SettledNow(Current(v).act, found[v].outcome)

\* ... and a staged verdict is staged together with its evidence.
HasEvidence(v, a) ==
    /\ <<a, WindowDays>> \in Keys(mine[v].snap)
    /\ \A i \in DOMAIN mine[v].snap :
          mine[v].snap[i][1] = <<a, WindowDays>> => mine[v].snap[i][2].status = "COMPLETE"

\* A pair that is left has not been written.
LeftIsUnwritten(v) ==
    \A x \in due[v] : <<x.act, x.days>> \in Keys(mine[v].snap)
        => pc[v] \in {"verdict", "update"} /\ x = Current(v)

VerdictHasEvidence(v) ==
    /\ pc[v] \in {"verdict", "update"} => HasEvidence(v, Current(v).act)
    /\ \A i \in DOMAIN mine[v].action :
          /\ HasEvidence(v, mine[v].action[i][1])
          /\ SettledNow(mine[v].action[i][1], mine[v].action[i][2].outcome)
          /\ \E j \in DOMAIN mine[v].events : mine[v].events[j] =
                <<mine[v].action[i][1], "verification.result", mine[v].action[i][2].outcome>>

ScoreInv ==
    /\ World /\ StoredIsSettled /\ ScorecardAgrees
    /\ \A v \in Verifiers : StagedIsSettled(v) /\ LeftIsUnwritten(v) /\ VerdictHasEvidence(v)

-----------------------------------------------------------------------------
(* Staged rows and the pair a process is at *)

LEMMA Appended ==
  ASSUME NEW T, NEW s \in Seq(T), NEW e \in T
  PROVE  /\ Append(s, e) \in Seq(T)
         /\ DOMAIN s \subseteq DOMAIN Append(s, e)
         /\ \A i \in DOMAIN s : Append(s, e)[i] = s[i]
         /\ \A i \in DOMAIN Append(s, e) : i \in DOMAIN s \/ Append(s, e)[i] = e
         /\ \E i \in DOMAIN Append(s, e) : Append(s, e)[i] = e
<1>1. Len(s) + 1 \in DOMAIN Append(s, e) /\ Append(s, e)[Len(s) + 1] = e
  OBVIOUS
<1> QED
  BY <1>1

LEMMA KeysAppended ==
  ASSUME NEW T, NEW s \in Seq(T), NEW e \in T
  PROVE  Keys(Append(s, e)) = Keys(s) \union {e[1]}
<1> DEFINE t == Append(s, e)
<1>1. /\ DOMAIN s \subseteq DOMAIN t
      /\ \A i \in DOMAIN s : t[i] = s[i]
      /\ \A i \in DOMAIN t : i \in DOMAIN s \/ t[i] = e
      /\ \E i \in DOMAIN t : t[i] = e
  BY Appended
<1> HIDE DEF t
<1>2. Keys(t) = Keys(s) \union {e[1]}
  BY <1>1 DEF Keys
<1> QED
  BY <1>2 DEF t

LEMMA NothingStaged ==
  /\ NoWrites \in Writes
  /\ DOMAIN NoWrites.action = {} /\ DOMAIN NoWrites.snap = {} /\ DOMAIN NoWrites.events = {}
  /\ Keys(NoWrites.action) = {} /\ Keys(NoWrites.snap) = {}
<1>1. DOMAIN <<>> = {}
  BY SMT
<1> QED
  BY <1>1 DEF NoWrites, Writes, Keys

\* The value of a key is that of one of its entries.
LEMMA ValueIs ==
  ASSUME NEW T, NEW s \in Seq(T), NEW k \in Keys(s)
  PROVE  \E i \in DOMAIN s : s[i][1] = k /\ Value(s, k) = s[i][2]
<1> DEFINE I == {i \in DOMAIN s : s[i][1] = k}
<1>1. Len(s) \in Nat /\ DOMAIN s = 1 .. Len(s)
  OBVIOUS
<1>2. I \in SUBSET (0 .. Len(s)) /\ I # {}
  BY <1>1 DEF Keys
<1>3. Max(I) \in I
  <2> HIDE DEF I
  <2> QED
    BY <1>1, <1>2, MaxOf
<1> QED
  BY <1>3 DEF Value

LEMMA OldestExists ==
  ASSUME NEW D \in SUBSET Pair, D # {}, Distinct(D)
  PROVE  \E x \in D : \A y \in D \ {x} : Older(<<x.act, x.days>>, <<y.act, y.days>>)
<1> DEFINE S == {AppliedOn[x.act] : x \in D}
<1>1. \A x \in D : x.act \in Actions /\ AppliedOn[x.act] \in Nat /\ x.days \in Nat
  <2> SUFFICES ASSUME NEW x \in D
               PROVE x.act \in Actions /\ AppliedOn[x.act] \in Nat /\ x.days \in Nat
    OBVIOUS
  <2>1. x.act \in Actions /\ x.days \in Horizons \union {0}
    BY DEF Pair
  <2>2. AppliedOn[x.act] \in Nat
    BY <2>1, OutcomeAssumption DEF Days
  <2>3. \A h \in Horizons : h \in Nat
    BY OutcomeAssumption
  <2>4. x.days \in Nat
    BY <2>1, <2>3
  <2> QED
    BY <2>1, <2>2, <2>4
<1>2. PICK first \in D : \A y \in D : AppliedOn[first.act] <= AppliedOn[y.act]
  <2>1. S \in SUBSET Nat /\ S # {}
    BY <1>1
  <2>2. PICK m \in S : \A k \in S : m <= k
    <3> HIDE DEF S
    <3> QED
      BY <2>1, NatMin
  <2>3. PICK x \in D : m = AppliedOn[x.act]
    OBVIOUS
  <2> QED
    BY <2>2, <2>3
<1> DEFINE E == {x \in D : x.act = first.act}
           H == {x.days : x \in E}
<1>3. PICK x \in E : \A y \in E : x.days <= y.days
  <2>1. H \in SUBSET Nat /\ H # {}
    BY <1>1
  <2>2. PICK m \in H : \A k \in H : m <= k
    <3> HIDE DEF H
    <3> QED
      BY <2>1, NatMin
  <2>3. PICK x \in E : m = x.days
    OBVIOUS
  <2> QED
    BY <2>2, <2>3
<1>4. ASSUME NEW y \in D \ {x}
      PROVE  AppliedOn[x.act] < AppliedOn[y.act] \/ (x.act = y.act /\ x.days < y.days)
  <2>1. CASE y.act = first.act
    <3>1. y.days # x.days
      BY <2>1 DEF Distinct
    <3>2. x.days <= y.days /\ x.days \in Nat /\ y.days \in Nat
      BY <1>1, <1>3, <2>1
    <3> QED
      BY <2>1, <3>1, <3>2
  <2>2. CASE y.act # first.act
    <3>1. AppliedOn[x.act] # AppliedOn[y.act]
      BY <1>1, <2>2, OutcomeAssumption
    <3>2. AppliedOn[x.act] <= AppliedOn[y.act]
      BY <1>2
    <3>3. AppliedOn[x.act] \in Nat /\ AppliedOn[y.act] \in Nat
      BY <1>1
    <3> QED
      BY <3>1, <3>2, <3>3
  <2> QED
    BY <2>1, <2>2
<1>5. \A y \in D \ {x} : Older(<<x.act, x.days>>, <<y.act, y.days>>)
  BY <1>4 DEF Older
<1>6. x \in D
  OBVIOUS
<1> QED
  BY <1>5, <1>6

LEMMA CurrentIsLeft ==
  ASSUME NEW p, due[p] \in SUBSET Pair, due[p] # {}, Distinct(due[p])
  PROVE  Current(p) \in due[p]
<1>1. \E x \in due[p] : \A y \in due[p] \ {x} :
          Older(<<x.act, x.days>>, <<y.act, y.days>>)
  BY OldestExists
<1> QED
  BY <1>1, Zenon DEF Current

LEMMA CurrentIsOnly ==
  ASSUME NEW p, NEW x
  PROVE  /\ due[p] = {x} => Current(p) = x
         /\ due'[p] = {x} => Current(p)' = x
BY DEF Current

LEMMA CurrentStays ==
  ASSUME NEW p, due'[p] = due[p]
  PROVE  Current(p)' = Current(p)
BY DEF Current

-----------------------------------------------------------------------------
(* Steps that touch no table *)

LEMMA AtStays ==
  ASSUME NEW p, pc'[p] = pc[p], due'[p] = due[p], found'[p] = found[p], mine'[p] = mine[p]
  PROVE  VerifierAt(p)' = VerifierAt(p) /\ OperatorAt(p)' = OperatorAt(p)
<1>1. Current(p)' = Current(p)
  BY CurrentStays
<1> QED
  BY <1>1 DEF VerifierAt, OperatorAt

LEMMA WillCloseStays ==
  ASSUME NEW v, pc'[v] = pc[v], due'[v] = due[v], mine'[v] = mine[v],
         due[v] \in SUBSET Pair, \A a \in Actions : Closed(a) => Closed(a)', WillClose(v)
  PROVE  WillClose(v)'
<1>1. Current(v)' = Current(v)
  BY CurrentStays
<1>2. \A x \in due[v] : x.act \in Actions
  BY DEF Pair
<1> HIDE DEF Closed
<1> QED
  BY <1>1, <1>2 DEF WillClose

\* A step of one process that leaves the tables and the others alone.
LEMMA LocalStep ==
  ASSUME OutcomeInv, UNCHANGED dbVars, Locals', NEW p \in Processes,
         \A q \in Processes \ {p} : pc'[q] = pc[q] /\ due'[q] = due[q]
                                    /\ found'[q] = found[q] /\ mine'[q] = mine[q],
         \A q \in Processes \ {p} : Keys(mine'[p].snap) \intersect Keys(mine[q].snap) = {},
         \A i \in DOMAIN mine'[p].snap : \A a \in Actions, h \in Horizons :
            mine'[p].snap[i][1] = <<a, h>> /\ snap[a][h].status = "COMPLETE"
               => mine'[p].snap[i][2] = snap[a][h],
         p \in Verifiers => VerifierAt(p)' /\ WillClose(p)',
         p \in Operators => OperatorAt(p)'
  PROVE  OutcomeInv'
<1>1. Tables' /\ EvidenceClosesAction' /\ \A a \in Actions : Closed(a) => Closed(a)'
  BY DEF OutcomeInv, Tables, EvidenceClosesAction, Verdict, Closed, dbVars
<1>2. Places'
  <2>1. ASSUME NEW v \in Verifiers PROVE VerifierAt(v)'
    <3>1. CASE v # p
      BY <3>1, AtStays DEF OutcomeInv, Places, Processes
    <3> QED
      BY <3>1
  <2>2. ASSUME NEW o \in Operators PROVE OperatorAt(o)'
    <3>1. CASE o # p
      BY <3>1, AtStays DEF OutcomeInv, Places, Processes
    <3> QED
      BY <3>1
  <2> QED
    BY <2>1, <2>2 DEF Places
<1>3. Locks'
  <2> SUFFICES ASSUME NEW q \in Processes, NEW r \in Processes, q # r
               PROVE  Keys(mine'[q].snap) \intersect Keys(mine'[r].snap) = {}
    BY DEF Locks, Keys
  <2>1. CASE q = p
    <3>1. mine'[r] = mine[r]
      BY <2>1
    <3> QED
      BY <2>1, <3>1
  <2>2. CASE r = p
    <3>1. mine'[q] = mine[q]
      BY <2>2
    <3>2. Keys(mine'[p].snap) \intersect Keys(mine[q].snap) = {}
      BY <2>2
    <3> QED
      BY <2>2, <3>1, <3>2
  <2>3. CASE q # p /\ r # p
    <3>1. mine'[r] = mine[r] /\ mine'[q] = mine[q]
      BY <2>3
    <3> QED
      BY <3>1 DEF OutcomeInv, Locks
  <2> QED
    BY <2>1, <2>2, <2>3
<1>4. StagedKeepsFinal'
  <2> SUFFICES ASSUME NEW q \in Processes
               PROVE  \A i \in DOMAIN mine'[q].snap : \A a \in Actions, h \in Horizons :
                         mine'[q].snap[i][1] = <<a, h>> /\ snap[a][h].status = "COMPLETE"
                            => mine'[q].snap[i][2] = snap[a][h]
    BY DEF StagedKeepsFinal, dbVars
  <2>1. CASE q # p
    <3>1. mine'[q] = mine[q]
      BY <2>1
    <3> QED
      BY <3>1 DEF OutcomeInv, StagedKeepsFinal
  <2> QED
    BY <2>1
<1>5. ASSUME NEW v \in Verifiers PROVE WillClose(v)'
  <2>1. CASE v # p
    <3>1. v \in Processes /\ due[v] \in SUBSET Pair /\ WillClose(v)
      BY DEF OutcomeInv, Processes, Locals
    <3> QED
      BY <1>1, <2>1, <3>1, WillCloseStays
  <2> QED
    BY <2>1
<1> QED
  BY <1>1, <1>2, <1>3, <1>4, <1>5 DEF OutcomeInv

\* The snapshot rows of a process are locked and keep what is final.
LEMMA SameStaged ==
  ASSUME OutcomeInv, NEW p \in Processes, mine'[p].snap = mine[p].snap
  PROVE  /\ \A q \in Processes \ {p} : Keys(mine'[p].snap) \intersect Keys(mine[q].snap) = {}
         /\ \A i \in DOMAIN mine'[p].snap : \A a \in Actions, h \in Horizons :
               mine'[p].snap[i][1] = <<a, h>> /\ snap[a][h].status = "COMPLETE"
                  => mine'[p].snap[i][2] = snap[a][h]
BY DEF OutcomeInv, Locks, StagedKeepsFinal

\* A process that is idle has nothing to keep, whatever else it remembers.
LEMMA IdleIsFine ==
  ASSUME NEW p, pc'[p] = "idle", mine'[p] = NoWrites, due'[p] = {}
  PROVE  VerifierAt(p)' /\ OperatorAt(p)' /\ WillClose(p)'
BY NothingStaged DEF VerifierAt, OperatorAt, WillClose, Distinct, NoWrites

LEMMA LostStep ==
  ASSUME OutcomeInv, NEW p \in Processes, Lost(p), UNCHANGED dbVars
  PROVE  OutcomeInv'
<1>1. /\ UNCHANGED dbVars
      /\ pc' = [pc EXCEPT ![p] = "idle"] /\ due' = [due EXCEPT ![p] = {}]
      /\ found' = [found EXCEPT ![p] = None] /\ mine' = [mine EXCEPT ![p] = NoWrites]
  BY DEF Lost
<1>2. Locals
  BY DEF OutcomeInv
<1>3. Locals'
  <2>1. NoWrites \in Writes
    BY NothingStaged
  <2>2. None \in Findings
    BY DEF None, Findings
  <2>3. mine' \in [Processes -> Writes] /\ due' \in [Processes -> SUBSET Pair]
    BY <1>1, <1>2, <2>1 DEF Locals
  <2>4. found' \in [Processes -> Findings]
    BY <1>1, <1>2, <2>2 DEF Locals
  <2>5. \A q \in Processes : pc'[q] = "idle" => mine'[q] = NoWrites
    BY <1>1, <1>2 DEF Locals
  <2>6. pc' \in [Processes -> {"idle", "fetched", "upsert", "verdict", "update", "call", "written"}]
    BY <1>1, <1>2 DEF Locals
  <2> QED
    BY <2>3, <2>4, <2>5, <2>6 DEF Locals
<1>4. \A q \in Processes \ {p} : pc'[q] = pc[q] /\ due'[q] = due[q]
                                 /\ found'[q] = found[q] /\ mine'[q] = mine[q]
  BY <1>1, <1>2 DEF Locals
<1>5. pc'[p] = "idle" /\ due'[p] = {} /\ mine'[p] = NoWrites
  BY <1>1, <1>2 DEF Locals
<1>6. VerifierAt(p)' /\ OperatorAt(p)' /\ WillClose(p)'
  BY <1>5, IdleIsFine
<1>7. DOMAIN mine'[p].snap = {} /\ Keys(mine'[p].snap) = {}
  BY <1>5, NothingStaged
<1> QED
  BY <1>1, <1>3, <1>4, <1>6, <1>7, LocalStep

-----------------------------------------------------------------------------
(* The steps of a verifier *)

\* The due pairs carry the status their action had when they were fetched.
LEMMA FetchStep ==
  ASSUME OutcomeInv, NEW v \in Verifiers, FetchDueSnapshots(v)
  PROVE  OutcomeInv'
<1>1. PICK first \in SUBSET Due :
        due' = [due EXCEPT ![v] = {[act |-> x[1], days |-> x[2],
                                    status |-> action[x[1]].status] : x \in first}]
  BY DEF FetchDueSnapshots
<1> DEFINE new == {[act |-> x[1], days |-> x[2], status |-> action[x[1]].status] : x \in first}
<1>2. /\ pc[v] = "idle" /\ pc' = [pc EXCEPT ![v] = "fetched"]
      /\ UNCHANGED <<dbVars, found, mine>>
  BY DEF FetchDueSnapshots
<1>3. Locals /\ Tables /\ v \in Processes
  BY DEF OutcomeInv, Processes
<1>4. mine[v] = NoWrites /\ mine'[v] = NoWrites
  BY <1>2, <1>3 DEF Locals
<1>5. \A x \in first : /\ x[1] \in Actions /\ x[2] \in Horizons
                       /\ action[x[1]].status \in {"applied", "verified"}
  BY DEF Due
<1>6. new \in SUBSET Pair /\ Distinct(new) /\ \A y \in new : y.days \in Horizons
  <2>1. \A x \in first : [act |-> x[1], days |-> x[2], status |-> action[x[1]].status] \in Pair
    BY <1>5 DEF Pair
  <2>2. \A y \in new : y.days \in Horizons /\ y.status = action[y.act].status
    BY <1>5
  <2>3. new \in SUBSET Pair
    BY <2>1
  <2>4. Distinct(new)
    <3> SUFFICES ASSUME NEW x \in new, NEW y \in new, x.act = y.act, x.days = y.days
                 PROVE  x = y
      BY DEF Distinct
    <3> HIDE DEF new
    <3> QED
      BY <2>2, <2>3 DEF Pair
  <2> QED
    BY <2>2, <2>3, <2>4
<1>7. \A y \in new : y.act \in Actions /\ y.status = action[y.act].status
  BY <1>5
<1> HIDE DEF new
<1>8. /\ due' = [due EXCEPT ![v] = new] /\ due'[v] = new /\ pc'[v] = "fetched"
      /\ \A q \in Processes \ {v} : pc'[q] = pc[q] /\ due'[q] = due[q]
                                    /\ found'[q] = found[q] /\ mine'[q] = mine[q]
  BY <1>1, <1>2, <1>3 DEF Locals, new
<1>9. Locals'
  BY <1>2, <1>3, <1>4, <1>6, <1>8 DEF Locals
<1>10. VerifierAt(v)'
  BY <1>4, <1>6, <1>8, NothingStaged DEF VerifierAt
<1>11. WillClose(v)'
  <2>1. \A y \in new : y.status = "verified" => Closed(y.act)'
    BY <1>2, <1>7 DEF Closed, dbVars
  <2> QED
    BY <1>4, <1>8, <2>1, NothingStaged DEF WillClose
<1>12. v \notin Operators
  BY OutcomeAssumption
<1>13. mine'[v].snap = mine[v].snap
  BY <1>4
<1> QED
  BY <1>2, <1>3, <1>8, <1>9, <1>10, <1>11, <1>12, <1>13, SameStaged, LocalStep

LEMMA EvidenceIsSnapshot ==
  ASSUME NEW a \in Actions, NEW h \in Horizons
  PROVE  Evidence(a, h) \in Snapshot
<1> DEFINE j == Judge(Before(a, h), After(a, h))
<1>1. j \in Outcomes
  BY JudgeIsOutcome
<1>2. \/ Evidence(a, h) = [status |-> "FAILED", outcome |-> "none"]
      \/ Evidence(a, h) = [status |-> "COMPLETE", outcome |-> j]
      \/ Evidence(a, h) = [status |-> "INSUFFICIENT_DATA", outcome |-> "none"]
  BY DEF Evidence
<1> HIDE DEF j
<1> QED
  BY <1>1, <1>2 DEF Snapshot

LEMMA SnapshotType ==
  ASSUME NEW r \in Snapshot
  PROVE  r \in Findings
BY DEF Snapshot, Findings

\* A pair that is being worked on is one of those left.
LEMMA CurrentPair ==
  ASSUME OutcomeInv, NEW v \in Verifiers, due[v] # {}
  PROVE  /\ Current(v) \in due[v]
         /\ Current(v).act \in Actions /\ Current(v).days \in Horizons
         /\ Current(v).status \in {"applied", "verified"}
<1>1. due[v] \in SUBSET Pair /\ Distinct(due[v]) /\ \A x \in due[v] : x.days \in Horizons
  BY DEF OutcomeInv, Locals, Places, VerifierAt, Processes
<1>2. Current(v) \in due[v]
  BY <1>1, CurrentIsLeft
<1> QED
  BY <1>1, <1>2 DEF Pair

LEMMA ReadWindowsStep ==
  ASSUME OutcomeInv, NEW v \in Verifiers, ReadWindows(v), ~Lost(v)
  PROVE  OutcomeInv'
<1> DEFINE new == Evidence(Current(v).act, Current(v).days)
<1>1. /\ pc[v] = "fetched" /\ due[v] # {}
      /\ found' = [found EXCEPT ![v] = new] /\ pc' = [pc EXCEPT ![v] = "upsert"]
      /\ UNCHANGED <<dbVars, due, mine>>
  BY DEF ReadWindows
<1>2. Locals /\ v \in Processes /\ VerifierAt(v) /\ WillClose(v)
  BY DEF OutcomeInv, Processes, Places
<1>3. new \in Snapshot
  BY <1>1, CurrentPair, EvidenceIsSnapshot
<1> HIDE DEF new
<1>4. new \in Findings
  BY <1>3, SnapshotType
<1>5. /\ pc'[v] = "upsert" /\ found'[v] = new /\ due'[v] = due[v] /\ mine'[v] = mine[v]
      /\ \A q \in Processes \ {v} : pc'[q] = pc[q] /\ due'[q] = due[q]
                                    /\ found'[q] = found[q] /\ mine'[q] = mine[q]
  BY <1>1, <1>2 DEF Locals
<1>6. Locals'
  BY <1>1, <1>2, <1>4 DEF Locals
<1>7. VerifierAt(v)'
  BY <1>1, <1>2, <1>3, <1>5 DEF VerifierAt
<1>8. WillClose(v)'
  <2>1. \A a : Closed(a)' = Closed(a)
    BY <1>1 DEF Closed, dbVars
  <2> HIDE DEF Closed
  <2> QED
    BY <1>1, <1>2, <1>5, <2>1 DEF WillClose
<1>9. v \notin Operators
  BY OutcomeAssumption
<1> QED
  BY <1>1, <1>2, <1>5, <1>6, <1>7, <1>8, <1>9, SameStaged, LocalStep

LEMMA UpsertType ==
  ASSUME NEW old \in Snapshot, NEW new \in Snapshot
  PROVE  /\ Upsert(old, new) \in Snapshot
         /\ old.status = "COMPLETE" => Upsert(old, new) = old
         /\ old.status # "COMPLETE" => Upsert(old, new) = new
BY DEF Upsert

\* What VerifyHorizon does, in terms of the row it stages.
LEMMA HorizonStages ==
  ASSUME OutcomeInv, NEW v \in Verifiers, VerifyHorizon(v)
  PROVE  \E a \in Actions, h \in Horizons, row \in Snapshot :
            /\ a = Current(v).act /\ h = Current(v).days /\ row = Upsert(snap[a][h], found[v])
            /\ pc[v] = "upsert" /\ Current(v) \in due[v]
            /\ mine' = [mine EXCEPT ![v].snap = Append(@, <<<<a, h>>, row>>)]
            /\ \A q \in Processes \ {v} : <<a, h>> \notin Keys(mine[q].snap)
            /\ \/ /\ ToVerdict(Current(v), found[v])
                  /\ pc' = [pc EXCEPT ![v] = "verdict"] /\ due' = due
               \/ /\ ~ToVerdict(Current(v), found[v])
                  /\ pc' = [pc EXCEPT ![v] = "fetched"]
                  /\ due' = [due EXCEPT ![v] = @ \ {Current(v)}]
            /\ UNCHANGED <<worldVars, dbVars, found>>
<1> DEFINE a == Current(v).act
           h == Current(v).days
           row == Upsert(snap[a][h], found[v])
<1>1. pc[v] = "upsert" /\ VerifierAt(v) /\ Tables
  BY DEF OutcomeInv, Places, VerifyHorizon
<1>2. due[v] # {} /\ found[v] \in Snapshot
  BY <1>1 DEF VerifierAt
<1>3. Current(v) \in due[v] /\ a \in Actions /\ h \in Horizons
  BY <1>2, CurrentPair
<1>4. snap[a][h] \in Snapshot
  <2>1. snap \in [Actions -> [Horizons -> Snapshot]]
    BY <1>1 DEF Tables
  <2> HIDE DEF a, h
  <2> QED
    BY <1>3, <2>1
<1>5. row \in Snapshot
  <2> HIDE DEF a, h
  <2> QED
    BY <1>2, <1>4, UpsertType
<1>6. /\ mine' = [mine EXCEPT ![v].snap = Append(@, <<<<a, h>>, row>>)]
      /\ Free(v, "snap", <<a, h>>)
      /\ UNCHANGED <<worldVars, dbVars, found>>
  BY DEF VerifyHorizon
<1>7. \/ /\ ToVerdict(Current(v), found[v])
         /\ pc' = [pc EXCEPT ![v] = "verdict"] /\ due' = due
      \/ /\ ~ToVerdict(Current(v), found[v])
         /\ pc' = [pc EXCEPT ![v] = "fetched"]
         /\ due' = [due EXCEPT ![v] = @ \ {Current(v)}]
  BY DEF VerifyHorizon
<1>8. \A q \in Processes \ {v} : <<a, h>> \notin Keys(mine[q].snap)
  BY <1>6 DEF Free, LockedBy
<1> HIDE DEF a, h, row
<1>9. a = Current(v).act /\ h = Current(v).days /\ row = Upsert(snap[a][h], found[v])
  BY DEF a, h, row
<1> QED
  BY <1>1, <1>3, <1>5, <1>6, <1>7, <1>8, <1>9

\* A writes record after a snapshot row was staged.
WithRow(w, e) == [w EXCEPT !.snap = Append(@, e)]

LEMMA SnapWrites ==
  ASSUME NEW w \in Writes, NEW e \in StagedSnap
  PROVE  /\ WithRow(w, e) \in Writes
         /\ WithRow(w, e).snap = Append(w.snap, e)
         /\ WithRow(w, e).action = w.action /\ WithRow(w, e).events = w.events
         /\ w.snap \in Seq(StagedSnap)
<1>1. w.snap \in Seq(StagedSnap)
  BY DEF Writes
<1>2. Append(w.snap, e) \in Seq(StagedSnap)
  BY <1>1
<1> QED
  BY <1>1, <1>2 DEF Writes, WithRow

\* The row is appended to those the verifier has staged.
LEMMA HorizonRow ==
  ASSUME OutcomeInv, NEW v \in Verifiers, NEW a \in Actions, NEW h \in Horizons,
         NEW row \in Snapshot, mine' = [mine EXCEPT ![v].snap = Append(@, <<<<a, h>>, row>>)]
  PROVE  /\ mine'[v] \in Writes
         /\ mine'[v].action = mine[v].action /\ mine'[v].events = mine[v].events
         /\ \A i \in DOMAIN mine'[v].snap :
              \/ i \in DOMAIN mine[v].snap /\ mine'[v].snap[i] = mine[v].snap[i]
              \/ mine'[v].snap[i] = <<<<a, h>>, row>>
         /\ Keys(mine'[v].snap) = Keys(mine[v].snap) \union {<<a, h>>}
         /\ \A q \in Processes \ {v} : mine'[q] = mine[q]
<1> DEFINE e == <<<<a, h>>, row>>
<1>1. mine \in [Processes -> Writes] /\ v \in Processes
  BY DEF OutcomeInv, Processes, Locals
<1>2. mine[v] \in Writes /\ e \in StagedSnap /\ e[1] = <<a, h>>
  BY <1>1 DEF StagedSnap
<1>3. /\ mine'[v] = WithRow(mine[v], e)
      /\ \A q \in Processes \ {v} : mine'[q] = mine[q]
  BY <1>1 DEF WithRow
<1> HIDE DEF e
<1>4. /\ mine'[v] \in Writes /\ mine'[v].snap = Append(mine[v].snap, e)
      /\ mine'[v].action = mine[v].action /\ mine'[v].events = mine[v].events
      /\ mine[v].snap \in Seq(StagedSnap)
  <2>1. /\ WithRow(mine[v], e) \in Writes /\ WithRow(mine[v], e).snap = Append(mine[v].snap, e)
        /\ WithRow(mine[v], e).action = mine[v].action
        /\ WithRow(mine[v], e).events = mine[v].events
        /\ mine[v].snap \in Seq(StagedSnap)
    BY <1>2, SnapWrites, Zenon
  <2> QED
    BY <1>3, <2>1
<1>5. /\ \A i \in DOMAIN mine'[v].snap :
            \/ i \in DOMAIN mine[v].snap /\ mine'[v].snap[i] = mine[v].snap[i]
            \/ mine'[v].snap[i] = e
      /\ Keys(mine'[v].snap) = Keys(mine[v].snap) \union {e[1]}
  <2> DEFINE s == mine[v].snap
  <2>1. e \in StagedSnap /\ s \in Seq(StagedSnap)
    BY <1>2, <1>4
  <2> HIDE DEF s
  <2>2. \A i \in DOMAIN Append(s, e) :
          \/ i \in DOMAIN s /\ Append(s, e)[i] = s[i]
          \/ Append(s, e)[i] = e
    BY <2>1, Appended
  <2>3. Keys(Append(s, e)) = Keys(s) \union {e[1]}
    BY <2>1, KeysAppended
  <2> QED
    BY <1>4, <2>2, <2>3 DEF s
<1> QED
  BY <1>2, <1>3, <1>4, <1>5 DEF e

LEMMA VerifyHorizonStep ==
  ASSUME OutcomeInv, NEW v \in Verifiers, VerifyHorizon(v)
  PROVE  OutcomeInv'
<1>1. PICK a \in Actions, h \in Horizons, row \in Snapshot :
            /\ a = Current(v).act /\ h = Current(v).days /\ row = Upsert(snap[a][h], found[v])
            /\ pc[v] = "upsert" /\ Current(v) \in due[v]
            /\ mine' = [mine EXCEPT ![v].snap = Append(@, <<<<a, h>>, row>>)]
            /\ \A q \in Processes \ {v} : <<a, h>> \notin Keys(mine[q].snap)
            /\ \/ /\ ToVerdict(Current(v), found[v])
                  /\ pc' = [pc EXCEPT ![v] = "verdict"] /\ due' = due
               \/ /\ ~ToVerdict(Current(v), found[v])
                  /\ pc' = [pc EXCEPT ![v] = "fetched"]
                  /\ due' = [due EXCEPT ![v] = @ \ {Current(v)}]
            /\ UNCHANGED <<worldVars, dbVars, found>>
  BY HorizonStages
<1> DEFINE e == <<<<a, h>>, row>>
<1>2. Locals /\ Tables /\ v \in Processes /\ VerifierAt(v) /\ WillClose(v) /\ v \notin Operators
  BY OutcomeAssumption DEF OutcomeInv, Processes, Places
<1>5. /\ mine'[v] \in Writes
      /\ mine'[v].action = mine[v].action /\ mine'[v].events = mine[v].events
      /\ \A i \in DOMAIN mine'[v].snap :
           \/ i \in DOMAIN mine[v].snap /\ mine'[v].snap[i] = mine[v].snap[i]
           \/ mine'[v].snap[i] = e
      /\ Keys(mine'[v].snap) = Keys(mine[v].snap) \union {<<a, h>>}
  <2>1. mine' = [mine EXCEPT ![v].snap = Append(@, <<<<a, h>>, row>>)]
    BY <1>1
  <2> QED
    BY <2>1, HorizonRow, ZenonT(60)
<1> HIDE DEF e
<1>7. /\ pc'[v] \in {"verdict", "fetched"} /\ due'[v] \in SUBSET due[v]
      /\ pc'[v] = "verdict" => due'[v] = due[v]
      /\ \A q \in Processes \ {v} : pc'[q] = pc[q] /\ due'[q] = due[q]
                                    /\ found'[q] = found[q] /\ mine'[q] = mine[q]
  BY <1>1, <1>2 DEF Locals
<1>8. Locals'
  <2>1. due' \in [Processes -> SUBSET Pair]
    BY <1>1, <1>2 DEF Locals
  <2>2. mine' \in [Processes -> Writes]
    BY <1>1, <1>2, <1>5 DEF Locals
  <2>3. pc' \in [Processes -> {"idle", "fetched", "upsert", "verdict", "update", "call", "written"}]
    BY <1>1, <1>2 DEF Locals
  <2>4. \A q \in Processes : pc'[q] = "idle" => mine'[q] = NoWrites
    BY <1>2, <1>7 DEF Locals
  <2> QED
    BY <1>1, <1>2, <2>1, <2>2, <2>3, <2>4 DEF Locals
<1>9. pc'[v] = "verdict" => Current(v)' = Current(v) /\ ToVerdict(Current(v), found[v])
  BY <1>1, <1>2, <1>7, CurrentStays DEF Locals
<1>10. VerifierAt(v)'
  <2>1. Distinct(due'[v]) /\ \A x \in due'[v] : x.days \in Horizons
    BY <1>2, <1>7 DEF VerifierAt, Distinct
  <2>2. pc'[v] = "verdict" => due'[v] # {} /\ Current(v)'.days = WindowDays
    BY <1>1, <1>7, <1>9 DEF ToVerdict
  <2>3. \A i \in DOMAIN mine'[v].action : mine'[v].action[i][2].status = "verified"
    BY <1>2, <1>5 DEF VerifierAt
  <2> QED
    BY <1>7, <2>1, <2>2, <2>3 DEF VerifierAt
<1>11. \A x : Closed(x)' = Closed(x)
  BY <1>1 DEF Closed, dbVars
<1>12. WillClose(v)'
  <2>1. \A x \in due'[v] : x.status = "verified" => Closed(x.act)'
    BY <1>2, <1>7, <1>11 DEF WillClose
  <2>2. ASSUME NEW i \in DOMAIN mine'[v].snap, NEW b \in Actions,
               mine'[v].snap[i][1] = <<b, WindowDays>>,
               mine'[v].snap[i][2].status = "COMPLETE"
        PROVE  \/ Closed(b)
               \/ b \in Keys(mine'[v].action)
               \/ pc'[v] \in {"verdict", "update"} /\ Current(v)'.act = b
    <3> HIDE DEF Closed
    <3>1. CASE i \in DOMAIN mine[v].snap /\ mine'[v].snap[i] = mine[v].snap[i]
      BY <1>1, <1>2, <1>5, <2>2, <3>1 DEF WillClose
    <3>2. CASE mine'[v].snap[i] = e
      <4>1. b = a /\ WindowDays = h /\ row.status = "COMPLETE"
        BY <2>2, <3>2 DEF e
      <4>2. CASE snap[a][h].status = "COMPLETE"
        <5>1. Closed(b)
          BY <4>1, <4>2 DEF OutcomeInv, EvidenceClosesAction, Verdict, Closed
        <5> QED
          BY <5>1
      <4>3. CASE snap[a][h].status # "COMPLETE"
        <5>1. found[v].status = "COMPLETE"
          BY <1>1, <4>1, <4>3 DEF Upsert
        <5>2. CASE Current(v).status = "verified"
          <6>1. Closed(a)
            BY <1>1, <1>2, <5>2 DEF WillClose
          <6> QED
            BY <4>1, <6>1
        <5>3. CASE Current(v).status = "applied"
          <6>1. ToVerdict(Current(v), found[v])
            BY <1>1, <4>1, <5>1, <5>3 DEF ToVerdict
          <6>2. pc'[v] = "verdict"
            BY <1>1, <1>2, <6>1 DEF Locals
          <6> QED
            BY <1>1, <1>9, <4>1, <6>2
        <5> QED
          BY <1>1, <5>2, <5>3, CurrentPair
      <4> QED
        BY <4>2, <4>3
    <3> QED
      BY <1>5, <3>1, <3>2
  <2> HIDE DEF Closed
  <2> QED
    BY <1>11, <2>1, <2>2 DEF WillClose
<1>13. \A q \in Processes \ {v} : Keys(mine'[v].snap) \intersect Keys(mine[q].snap) = {}
  BY <1>1, <1>2, <1>5 DEF OutcomeInv, Locks
<1>14. ASSUME NEW i \in DOMAIN mine'[v].snap, NEW b \in Actions, NEW k \in Horizons,
              mine'[v].snap[i][1] = <<b, k>>, snap[b][k].status = "COMPLETE"
       PROVE  mine'[v].snap[i][2] = snap[b][k]
  <2>1. CASE i \in DOMAIN mine[v].snap /\ mine'[v].snap[i] = mine[v].snap[i]
    BY <1>2, <1>14, <2>1 DEF OutcomeInv, StagedKeepsFinal
  <2>2. CASE mine'[v].snap[i] = e
    BY <1>1, <1>14, <2>2 DEF e, Upsert
  <2> QED
    BY <1>5, <2>1, <2>2
<1>15. \A i \in DOMAIN mine'[v].snap : \A b \in Actions, k \in Horizons :
          mine'[v].snap[i][1] = <<b, k>> /\ snap[b][k].status = "COMPLETE"
             => mine'[v].snap[i][2] = snap[b][k]
  BY <1>14, Zenon
<1>16. UNCHANGED dbVars /\ \A q \in Processes \ {v} :
          pc'[q] = pc[q] /\ due'[q] = due[q] /\ found'[q] = found[q] /\ mine'[q] = mine[q]
  BY <1>1, <1>7
<1> QED
  BY <1>2, <1>8, <1>10, <1>12, <1>13, <1>15, <1>16, LocalStep

LEMMA ReadVerdictStep ==
  ASSUME OutcomeInv, NEW v \in Verifiers, ReadVerdict(v)
  PROVE  OutcomeInv'
<1>1. PICK o \in Outcomes :
        found' = [found EXCEPT ![v] = [status |-> "verified", outcome |-> o]]
  BY JudgeIsOutcome DEF ReadVerdict
<1>2. /\ pc[v] = "verdict" /\ pc' = [pc EXCEPT ![v] = "update"]
      /\ UNCHANGED <<dbVars, due, mine>>
  BY DEF ReadVerdict
<1>3. Locals /\ v \in Processes /\ VerifierAt(v) /\ WillClose(v) /\ v \notin Operators
  BY OutcomeAssumption DEF OutcomeInv, Processes, Places
<1>4. /\ pc'[v] = "update" /\ found'[v] = [status |-> "verified", outcome |-> o]
      /\ due'[v] = due[v] /\ mine'[v] = mine[v]
      /\ \A q \in Processes \ {v} : pc'[q] = pc[q] /\ due'[q] = due[q]
                                    /\ found'[q] = found[q] /\ mine'[q] = mine[q]
  BY <1>1, <1>2, <1>3 DEF Locals
<1>5. Locals'
  <2>1. [status |-> "verified", outcome |-> o] \in Findings
    BY DEF Findings
  <2> QED
    BY <1>1, <1>2, <1>3, <2>1 DEF Locals
<1>6. Current(v)' = Current(v)
  BY <1>4, CurrentStays
<1>7. VerifierAt(v)'
  BY <1>2, <1>3, <1>4, <1>6 DEF VerifierAt
<1>8. WillClose(v)'
  <2>1. \A a : Closed(a)' = Closed(a)
    BY <1>2 DEF Closed, dbVars
  <2> HIDE DEF Closed
  <2> QED
    BY <1>2, <1>3, <1>4, <1>6, <2>1 DEF WillClose
<1> QED
  BY <1>2, <1>3, <1>4, <1>5, <1>7, <1>8, SameStaged, LocalStep

LEMMA StageType ==
  ASSUME NEW w \in Writes, NEW e \in StagedAction, NEW f \in Event
  PROVE  /\ Stage(w, e, f) \in Writes /\ Stage(w, e, f).snap = w.snap
         /\ Stage(w, e, f).action = Append(w.action, e)
         /\ Stage(w, e, f).events = Append(w.events, f)
         /\ w.action \in Seq(StagedAction) /\ w.events \in Seq(Event)
<1>1. /\ w.action \in Seq(StagedAction) /\ w.events \in Seq(Event)
      /\ w.snap \in Seq(StagedSnap)
  BY DEF Writes
<1>2. Append(w.action, e) \in Seq(StagedAction) /\ Append(w.events, f) \in Seq(Event)
  BY <1>1
<1> QED
  BY <1>1, <1>2 DEF Writes, Stage

\* What VerifyAction does to the process.
LEMMA VerdictStages ==
  ASSUME OutcomeInv, NEW v \in Verifiers, VerifyAction(v)
  PROVE  \E a \in Actions, row \in ActionRow :
            LET e == <<a, row>>
                f == <<a, "verification.result", row.outcome>>
            IN  /\ a = Current(v).act /\ row = found[v] /\ Current(v) \in due[v]
                /\ row.status = "verified" /\ row.outcome \in Outcomes /\ f \in Event
                /\ mine[v].action \in Seq(StagedAction) /\ mine[v].events \in Seq(Event)
                /\ mine'[v] \in Writes /\ mine'[v].snap = mine[v].snap
                /\ mine'[v].action = Append(mine[v].action, e)
                /\ mine'[v].events = Append(mine[v].events, f)
                /\ pc[v] = "update" /\ pc'[v] = "fetched" /\ due'[v] = due[v] \ {Current(v)}
                /\ \A q \in Processes \ {v} : pc'[q] = pc[q] /\ due'[q] = due[q]
                                              /\ found'[q] = found[q] /\ mine'[q] = mine[q]
                /\ UNCHANGED <<worldVars, dbVars, found>> /\ Locals'
<1> DEFINE a == Current(v).act
           row == found[v]
           e == <<a, row>>
           f == <<a, "verification.result", row.outcome>>
<1>1. Locals /\ VerifierAt(v) /\ v \in Processes
  BY DEF OutcomeInv, Places, Processes
<1>2. /\ pc[v] = "update" /\ pc' = [pc EXCEPT ![v] = "fetched"]
      /\ due' = [due EXCEPT ![v] = @ \ {Current(v)}]
      /\ mine' = [mine EXCEPT ![v] = Stage(@, e, f)]
      /\ UNCHANGED <<worldVars, dbVars, found>>
  BY DEF VerifyAction
<1>3. due[v] # {} /\ row.status = "verified" /\ row.outcome \in Outcomes
  BY <1>1, <1>2 DEF VerifierAt
<1>4. Current(v) \in due[v] /\ a \in Actions
  BY <1>3, CurrentPair
<1>5. row \in ActionRow
  BY <1>1, <1>3 DEF Locals, Findings, ActionRow
<1> HIDE DEF a, row
<1>6. e \in StagedAction /\ f \in Event
  BY <1>3, <1>4, <1>5 DEF Event, Kinds, StagedAction
<1>7. mine \in [Processes -> Writes] /\ mine[v] \in Writes
  BY <1>1 DEF Locals
<1> HIDE DEF e, f
<1>8. /\ mine' \in [Processes -> Writes] /\ mine'[v].snap = mine[v].snap
      /\ mine'[v].action = Append(mine[v].action, e)
      /\ mine'[v].events = Append(mine[v].events, f)
      /\ mine[v].action \in Seq(StagedAction) /\ mine[v].events \in Seq(Event)
      /\ \A q \in Processes \ {v} : mine'[q] = mine[q]
  <2>1. mine' = [mine EXCEPT ![v] = Stage(mine[v], e, f)]
    BY <1>2
  <2>2. mine'[v] = Stage(mine[v], e, f) /\ \A q \in Processes \ {v} : mine'[q] = mine[q]
    BY <1>1, <1>7, <2>1
  <2>3. /\ Stage(mine[v], e, f) \in Writes /\ Stage(mine[v], e, f).snap = mine[v].snap
        /\ Stage(mine[v], e, f).action = Append(mine[v].action, e)
        /\ Stage(mine[v], e, f).events = Append(mine[v].events, f)
        /\ mine[v].action \in Seq(StagedAction) /\ mine[v].events \in Seq(Event)
    BY <1>6, <1>7, StageType
  <2>4. mine' \in [Processes -> Writes]
    BY <1>1, <1>7, <2>1, <2>3
  <2> QED
    BY <2>2, <2>3, <2>4
<1>9. mine'[v] \in Writes
  BY <1>1, <1>8
<1>10. /\ pc'[v] = "fetched" /\ due'[v] = due[v] \ {Current(v)}
       /\ \A q \in Processes \ {v} : pc'[q] = pc[q] /\ due'[q] = due[q]
                                     /\ found'[q] = found[q] /\ mine'[q] = mine[q]
  BY <1>1, <1>2, <1>8 DEF Locals
<1>11. Locals'
  <2>1. due' \in [Processes -> SUBSET Pair]
    BY <1>1, <1>2 DEF Locals
  <2>2. mine' \in [Processes -> Writes]
    BY <1>8
  <2>3. pc' \in [Processes -> {"idle", "fetched", "upsert", "verdict", "update", "call", "written"}]
    BY <1>1, <1>2 DEF Locals
  <2>4. \A q \in Processes : pc'[q] = "idle" => mine'[q] = NoWrites
    BY <1>1, <1>10 DEF Locals
  <2> QED
    BY <1>1, <1>2, <2>1, <2>2, <2>3, <2>4 DEF Locals
<1> QED
  BY <1>2, <1>3, <1>4, <1>5, <1>6, <1>8, <1>9, <1>10, <1>11 DEF a, row, e, f

LEMMA VerifyActionStep ==
  ASSUME OutcomeInv, NEW v \in Verifiers, VerifyAction(v)
  PROVE  OutcomeInv'
<1>1. PICK a \in Actions, row \in ActionRow :
            LET e == <<a, row>>
                f == <<a, "verification.result", row.outcome>>
            IN  /\ a = Current(v).act /\ row = found[v] /\ Current(v) \in due[v]
                /\ row.status = "verified" /\ row.outcome \in Outcomes /\ f \in Event
                /\ mine[v].action \in Seq(StagedAction) /\ mine[v].events \in Seq(Event)
                /\ mine'[v] \in Writes /\ mine'[v].snap = mine[v].snap
                /\ mine'[v].action = Append(mine[v].action, e)
                /\ mine'[v].events = Append(mine[v].events, f)
                /\ pc[v] = "update" /\ pc'[v] = "fetched" /\ due'[v] = due[v] \ {Current(v)}
                /\ \A q \in Processes \ {v} : pc'[q] = pc[q] /\ due'[q] = due[q]
                                              /\ found'[q] = found[q] /\ mine'[q] = mine[q]
                /\ UNCHANGED <<worldVars, dbVars, found>> /\ Locals'
  BY VerdictStages
<1> DEFINE e == <<a, row>>
           T == StagedAction
<1>2. v \in Processes /\ VerifierAt(v) /\ WillClose(v) /\ v \notin Operators
  BY OutcomeAssumption DEF OutcomeInv, Processes, Places
<1>3. e \in T
  BY DEF StagedAction
<1> HIDE DEF e
<1>4. mine[v].action \in Seq(T) /\ mine'[v].action = Append(mine[v].action, e)
  BY <1>1 DEF e
<1> HIDE DEF T
<1>5. /\ \A i \in DOMAIN mine'[v].action :
            \/ i \in DOMAIN mine[v].action /\ mine'[v].action[i] = mine[v].action[i]
            \/ mine'[v].action[i] = e
      /\ Keys(mine'[v].action) = Keys(mine[v].action) \union {a}
  <2>1. e[1] = a
    BY DEF e
  <2> QED
    BY <1>3, <1>4, <2>1, Appended, KeysAppended
<1>6. e[2].status = "verified"
  BY <1>1 DEF e
<1>7. pc'[v] = "fetched" /\ due'[v] \in SUBSET due[v] /\ mine'[v].snap = mine[v].snap
  BY <1>1
<1>8. VerifierAt(v)'
  <2>1. \A i \in DOMAIN mine'[v].action : mine'[v].action[i][2].status = "verified"
    BY <1>2, <1>5, <1>6 DEF VerifierAt
  <2>2. Distinct(due'[v]) /\ \A x \in due'[v] : x.days \in Horizons
    BY <1>2, <1>7 DEF VerifierAt, Distinct
  <2> QED
    BY <1>7, <2>1, <2>2 DEF VerifierAt
<1>9. pc[v] = "update" /\ Current(v).act = a /\ UNCHANGED dbVars
  BY <1>1
<1>10. WillClose(v)'
  <2>1. \A b : Closed(b)' = Closed(b)
    BY <1>9 DEF Closed, dbVars
  <2> HIDE DEF Closed
  <2>2. \A x \in due'[v] : x.status = "verified" => Closed(x.act)'
    BY <1>2, <1>7, <2>1 DEF WillClose
  <2>3. ASSUME NEW i \in DOMAIN mine'[v].snap, NEW b \in Actions,
               mine'[v].snap[i][1] = <<b, WindowDays>>,
               mine'[v].snap[i][2].status = "COMPLETE"
        PROVE  Closed(b) \/ b \in Keys(mine'[v].action)
    BY <1>2, <1>5, <1>7, <1>9, <2>3 DEF WillClose
  <2> QED
    BY <2>1, <2>2, <2>3 DEF WillClose
<1>11. /\ Locals' /\ \A q \in Processes \ {v} : pc'[q] = pc[q] /\ due'[q] = due[q]
                                                 /\ found'[q] = found[q] /\ mine'[q] = mine[q]
  BY <1>1
<1> QED
  BY <1>2, <1>7, <1>8, <1>9, <1>10, <1>11, SameStaged, LocalStep

-----------------------------------------------------------------------------
(* The steps of an operator *)

LEMMA EventWrites ==
  ASSUME NEW w \in Writes, NEW f \in Event
  PROVE  /\ [w EXCEPT !.events = Append(@, f)] \in Writes
         /\ [w EXCEPT !.events = Append(@, f)].events = Append(w.events, f)
         /\ [w EXCEPT !.events = Append(@, f)].action = w.action
         /\ [w EXCEPT !.events = Append(@, f)].snap = w.snap
         /\ w.events \in Seq(Event)
<1>1. w.events \in Seq(Event)
  BY DEF Writes
<1>2. Append(w.events, f) \in Seq(Event)
  BY <1>1
<1> QED
  BY <1>1, <1>2 DEF Writes

LEMMA RequestStep ==
  ASSUME OutcomeInv, NEW o \in Operators, RequestRollback(o)
  PROVE  OutcomeInv'
<1>1. PICK a \in Actions :
        /\ action[a].status \in {"applied", "verified"}
        /\ due' = [due EXCEPT ![o] = {[act |-> a, days |-> 0, status |-> action[a].status]}]
        /\ mine' = [mine EXCEPT ![o].events = Append(@, <<a, "rollback.requested", "none">>)]
  BY OutcomeAssumption DEF RequestRollback
<1> DEFINE x == [act |-> a, days |-> 0, status |-> action[a].status]
           f == <<a, "rollback.requested", "none">>
<1>2. pc[o] = "idle" /\ pc' = [pc EXCEPT ![o] = "call"] /\ UNCHANGED <<dbVars, found>>
  BY DEF RequestRollback
<1>3. Locals /\ o \in Processes /\ OperatorAt(o) /\ o \notin Verifiers
  BY OutcomeAssumption DEF OutcomeInv, Processes, Places
<1>4. mine[o] = NoWrites /\ mine[o] \in Writes
  BY <1>2, <1>3 DEF Locals
<1>5. x \in Pair /\ x.act = a
  BY <1>1 DEF Pair
<1>6. f \in Event
  BY DEF Event, Kinds
<1>7. mine'[o] = [mine[o] EXCEPT !.events = Append(@, f)]
  BY <1>1, <1>3 DEF Locals
<1>8. due' = [due EXCEPT ![o] = {x}]
  BY <1>1
<1> HIDE DEF x, f
<1>9. /\ mine'[o] \in Writes /\ mine'[o].events = Append(mine[o].events, f)
      /\ mine'[o].action = mine[o].action /\ mine'[o].snap = mine[o].snap
      /\ mine[o].events \in Seq(Event)
  <2>1. /\ [mine[o] EXCEPT !.events = Append(@, f)] \in Writes
        /\ [mine[o] EXCEPT !.events = Append(@, f)].events = Append(mine[o].events, f)
        /\ [mine[o] EXCEPT !.events = Append(@, f)].action = mine[o].action
        /\ [mine[o] EXCEPT !.events = Append(@, f)].snap = mine[o].snap
        /\ mine[o].events \in Seq(Event)
    BY <1>4, <1>6, EventWrites
  <2> QED
    BY <1>7, <2>1
<1>10. /\ pc'[o] = "call" /\ due'[o] = {x}
       /\ \A q \in Processes \ {o} : pc'[q] = pc[q] /\ due'[q] = due[q]
                                     /\ found'[q] = found[q] /\ mine'[q] = mine[q]
  BY <1>1, <1>2, <1>3, <1>8 DEF Locals
<1>11. Locals'
  <2>1. due' \in [Processes -> SUBSET Pair]
    BY <1>3, <1>5, <1>8 DEF Locals
  <2>2. mine' \in [Processes -> Writes]
    BY <1>1, <1>3, <1>9 DEF Locals
  <2>3. pc' \in [Processes -> {"idle", "fetched", "upsert", "verdict", "update", "call", "written"}]
    BY <1>2, <1>3 DEF Locals
  <2>4. \A q \in Processes : pc'[q] = "idle" => mine'[q] = NoWrites
    BY <1>3, <1>10 DEF Locals
  <2> QED
    BY <1>2, <1>3, <2>1, <2>2, <2>3, <2>4 DEF Locals
<1>12. Current(o)' = x
  BY <1>10, CurrentIsOnly
<1>13. OperatorAt(o)'
  <2>1. \E j \in DOMAIN mine'[o].events : mine'[o].events[j] = f
    BY <1>6, <1>9, Appended
  <2>2. \A j \in DOMAIN mine'[o].events : mine'[o].events[j] = f
    BY <1>4, <1>6, <1>9, Appended, NothingStaged
  <2>3. DOMAIN mine'[o].action = {} /\ mine'[o].snap = <<>>
    BY <1>3, <1>4, <1>9, NothingStaged DEF OperatorAt
  <2>4. f = <<Current(o)'.act, "rollback.requested", "none">> /\ f[2] # "verification.result"
    BY <1>5, <1>12 DEF f
  <2> QED
    BY <1>5, <1>10, <2>1, <2>2, <2>3, <2>4 DEF OperatorAt
<1> QED
  BY <1>2, <1>3, <1>9, <1>10, <1>11, <1>13, SameStaged, LocalStep

LEMMA CallStep ==
  ASSUME OutcomeInv, NEW o \in Operators, CallRollback(o)
  PROVE  OutcomeInv'
<1>1. Locals /\ o \in Processes /\ OperatorAt(o) /\ o \notin Verifiers
  BY OutcomeAssumption DEF OutcomeInv, Processes, Places
<1>2. UNCHANGED dbVars
  BY DEF CallRollback
<1>3. CASE Current(o).status = "applied"
  <2>1. PICK status \in {"applied", "rolled_back"} :
          found' = [found EXCEPT ![o] = [status |-> status, outcome |-> "none"]]
    BY <1>3 DEF CallRollback
  <2>2. pc[o] = "call" /\ pc' = [pc EXCEPT ![o] = "update"] /\ UNCHANGED <<due, mine>>
    BY <1>3 DEF CallRollback
  <2>3. [status |-> status, outcome |-> "none"] \in Findings
    BY DEF Findings
  <2>4. Locals'
    BY <1>1, <2>1, <2>2, <2>3 DEF Locals
  <2>5. /\ pc'[o] = "update" /\ due'[o] = due[o] /\ mine'[o] = mine[o]
        /\ found'[o].status = status
        /\ \A q \in Processes \ {o} : pc'[q] = pc[q] /\ due'[q] = due[q]
                                      /\ found'[q] = found[q] /\ mine'[q] = mine[q]
    BY <1>1, <2>1, <2>2 DEF Locals
  <2>6. Current(o)' = Current(o)
    BY <2>5, CurrentStays
  <2>7. OperatorAt(o)'
    BY <1>1, <2>2, <2>5, <2>6 DEF OperatorAt
  <2> QED
    BY <1>1, <1>2, <2>4, <2>5, <2>7, SameStaged, LocalStep
<1>4. CASE Current(o).status # "applied"
  <2>1. /\ pc' = [pc EXCEPT ![o] = "idle"] /\ due' = [due EXCEPT ![o] = {}]
        /\ mine' = [mine EXCEPT ![o] = NoWrites] /\ UNCHANGED found
    BY <1>4 DEF CallRollback
  <2>2. Locals'
    <3>1. NoWrites \in Writes
      BY NothingStaged
    <3> QED
      BY <1>1, <2>1, <3>1 DEF Locals
  <2>3. /\ pc'[o] = "idle" /\ due'[o] = {} /\ mine'[o] = NoWrites
        /\ \A q \in Processes \ {o} : pc'[q] = pc[q] /\ due'[q] = due[q]
                                      /\ found'[q] = found[q] /\ mine'[q] = mine[q]
    BY <1>1, <2>1 DEF Locals
  <2>4. OperatorAt(o)'
    BY <2>3, IdleIsFine
  <2>5. DOMAIN mine'[o].snap = {} /\ Keys(mine'[o].snap) = {}
    BY <2>3, NothingStaged
  <2> QED
    BY <1>1, <1>2, <2>2, <2>3, <2>4, <2>5, LocalStep
<1> QED
  BY <1>3, <1>4

LEMMA RollbackStep ==
  ASSUME OutcomeInv, NEW o \in Operators, RollbackAction(o)
  PROVE  OutcomeInv'
<1> DEFINE a == Current(o).act
           row == [action[a] EXCEPT !.status = found[o].status]
           e == <<a, row>>
           kind == IF found[o].status = "rolled_back" THEN "rollback.succeeded"
                                                      ELSE "rollback.failed"
           f == <<a, kind, "none">>
<1>1. /\ pc[o] = "update" /\ pc' = [pc EXCEPT ![o] = "written"]
      /\ mine' = [mine EXCEPT ![o] = Stage(@, e, f)]
      /\ UNCHANGED <<dbVars, due, found>>
  BY DEF RollbackAction
<1>2. Locals /\ Tables /\ o \in Processes /\ OperatorAt(o) /\ o \notin Verifiers
  BY OutcomeAssumption DEF OutcomeInv, Processes, Places
<1>3. a \in Actions /\ found[o].status \in {"applied", "rolled_back"}
  <2>1. PICK x \in Pair : due[o] = {x}
    BY <1>1, <1>2 DEF OperatorAt
  <2>2. Current(o) = x
    BY <2>1, CurrentIsOnly
  <2> QED
    BY <1>1, <1>2, <2>2 DEF OperatorAt, Pair
<1>4. a = Current(o).act
  OBVIOUS
<1> HIDE DEF a
<1>5. row \in ActionRow /\ row.status # "verified"
  <2>1. action[a] \in ActionRow
    BY <1>2, <1>3 DEF Tables
  <2> QED
    BY <1>3, <2>1 DEF ActionRow
<1> HIDE DEF row
<1>6. e \in StagedAction /\ e[1] = a /\ e[2].status # "verified"
  BY <1>3, <1>5 DEF StagedAction
<1>7. f \in Event /\ f[2] # "verification.result"
  BY <1>3 DEF Event, Kinds
<1> HIDE DEF e, f
<1>8. mine \in [Processes -> Writes] /\ mine[o] \in Writes
  BY <1>2 DEF Locals
<1>9. mine' = [mine EXCEPT ![o] = Stage(mine[o], e, f)]
  BY <1>1
<1>10. /\ Stage(mine[o], e, f) \in Writes /\ Stage(mine[o], e, f).snap = mine[o].snap
       /\ Stage(mine[o], e, f).action = Append(mine[o].action, e)
       /\ Stage(mine[o], e, f).events = Append(mine[o].events, f)
       /\ mine[o].action \in Seq(StagedAction) /\ mine[o].events \in Seq(Event)
  BY <1>6, <1>7, <1>8, StageType
<1>11. /\ mine'[o] \in Writes /\ mine'[o].snap = mine[o].snap
       /\ mine'[o].action = Append(mine[o].action, e)
       /\ mine'[o].events = Append(mine[o].events, f)
  BY <1>2, <1>8, <1>9, <1>10
<1>12. /\ pc'[o] = "written" /\ due'[o] = due[o]
       /\ \A q \in Processes \ {o} : pc'[q] = pc[q] /\ due'[q] = due[q]
                                     /\ found'[q] = found[q] /\ mine'[q] = mine[q]
  BY <1>1, <1>2, <1>9 DEF Locals
<1>13. Locals'
  <2>1. mine' \in [Processes -> Writes]
    BY <1>2, <1>8, <1>9, <1>10
  <2>2. pc' \in [Processes -> {"idle", "fetched", "upsert", "verdict", "update", "call", "written"}]
    BY <1>1, <1>2 DEF Locals
  <2>3. \A q \in Processes : pc'[q] = "idle" => mine'[q] = NoWrites
    BY <1>2, <1>12 DEF Locals
  <2> QED
    BY <1>1, <1>2, <2>1, <2>2, <2>3 DEF Locals
<1>14. Current(o)' = Current(o)
  BY <1>12, CurrentStays
<1>15. OperatorAt(o)'
  <2>1. \A i \in DOMAIN mine'[o].action :
          mine'[o].action[i][1] = a /\ mine'[o].action[i][2].status # "verified"
    <3>1. \A i \in DOMAIN mine'[o].action :
            \/ i \in DOMAIN mine[o].action /\ mine'[o].action[i] = mine[o].action[i]
            \/ mine'[o].action[i] = e
      BY <1>6, <1>10, <1>11, Appended
    <3> QED
      BY <1>2, <1>4, <1>6, <3>1 DEF OperatorAt
  <2>2. /\ DOMAIN mine[o].events \subseteq DOMAIN mine'[o].events
        /\ \A j \in DOMAIN mine[o].events : mine'[o].events[j] = mine[o].events[j]
        /\ \A j \in DOMAIN mine'[o].events :
             \/ j \in DOMAIN mine[o].events
             \/ mine'[o].events[j] = f
    BY <1>7, <1>10, <1>11, Appended
  <2>3. \E j \in DOMAIN mine'[o].events :
          mine'[o].events[j] = <<Current(o)'.act, "rollback.requested", "none">>
    BY <1>1, <1>2, <1>14, <2>2 DEF OperatorAt
  <2>4. \A j \in DOMAIN mine'[o].events : mine'[o].events[j][2] # "verification.result"
    BY <1>2, <1>7, <2>2 DEF OperatorAt
  <2>5. (\E x \in Pair : due'[o] = {x}) /\ mine'[o].snap = <<>>
    BY <1>1, <1>2, <1>11, <1>12 DEF OperatorAt
  <2> QED
    BY <1>4, <1>12, <1>14, <2>1, <2>3, <2>4, <2>5 DEF OperatorAt
<1>16. UNCHANGED dbVars
  BY <1>1
<1> QED
  BY <1>2, <1>11, <1>12, <1>13, <1>15, <1>16, SameStaged, LocalStep

-----------------------------------------------------------------------------
(* Commit *)

\* A committed row is a staged one; all others are left alone.
LEMMA CommitRows ==
  ASSUME OutcomeInv, NEW p \in Processes, Commit(p)
  PROVE  /\ \A a \in Actions :
              \/ a \notin Keys(mine[p].action) /\ action'[a] = action[a]
              \/ \E i \in DOMAIN mine[p].action :
                    mine[p].action[i][1] = a /\ action'[a] = mine[p].action[i][2]
         /\ \A a \in Actions, h \in Horizons :
              \/ <<a, h>> \notin Keys(mine[p].snap) /\ snap'[a][h] = snap[a][h]
              \/ \E i \in DOMAIN mine[p].snap :
                    mine[p].snap[i][1] = <<a, h>> /\ snap'[a][h] = mine[p].snap[i][2]
         /\ action' \in [Actions -> ActionRow]
         /\ snap' \in [Actions -> [Horizons -> Snapshot]]
<1>1. /\ action' = [a \in Actions |-> IF a \in Keys(mine[p].action)
                                      THEN Value(mine[p].action, a) ELSE action[a]]
      /\ snap' = [a \in Actions |-> [h \in Horizons |->
                     IF <<a, h>> \in Keys(mine[p].snap)
                     THEN Value(mine[p].snap, <<a, h>>) ELSE snap[a][h]]]
  BY DEF Commit, LockedBy
<1>2. /\ mine[p].action \in Seq(StagedAction)
      /\ mine[p].snap \in Seq(StagedSnap)
  <2>1. mine[p] \in Writes
    BY DEF OutcomeInv, Locals
  <2> QED
    BY <2>1 DEF Writes
<1>3. \A k \in Keys(mine[p].action) :
         \E i \in DOMAIN mine[p].action :
            mine[p].action[i][1] = k /\ Value(mine[p].action, k) = mine[p].action[i][2]
  BY <1>2, ValueIs
<1>4. \A k \in Keys(mine[p].snap) :
         \E i \in DOMAIN mine[p].snap :
            mine[p].snap[i][1] = k /\ Value(mine[p].snap, k) = mine[p].snap[i][2]
  BY <1>2, ValueIs
<1>5. /\ \A i \in DOMAIN mine[p].action : mine[p].action[i][2] \in ActionRow
      /\ \A i \in DOMAIN mine[p].snap : mine[p].snap[i][2] \in Snapshot
  <2>1. /\ \A i \in DOMAIN mine[p].action : mine[p].action[i] \in StagedAction
        /\ \A i \in DOMAIN mine[p].snap : mine[p].snap[i] \in StagedSnap
    BY <1>2
  <2> QED
    BY <2>1 DEF StagedAction, StagedSnap
<1>6. Tables
  BY DEF OutcomeInv
<1>7. ASSUME NEW a \in Actions
      PROVE  /\ \/ a \notin Keys(mine[p].action) /\ action'[a] = action[a]
                \/ \E i \in DOMAIN mine[p].action :
                      mine[p].action[i][1] = a /\ action'[a] = mine[p].action[i][2]
             /\ action'[a] \in ActionRow
  <2>1. action[a] \in ActionRow
    BY <1>6 DEF Tables
  <2>2. action'[a] = IF a \in Keys(mine[p].action) THEN Value(mine[p].action, a) ELSE action[a]
    BY <1>1
  <2> QED
    BY <1>3, <1>5, <2>1, <2>2
<1>8. ASSUME NEW a \in Actions, NEW h \in Horizons
      PROVE  /\ \/ <<a, h>> \notin Keys(mine[p].snap) /\ snap'[a][h] = snap[a][h]
                \/ \E i \in DOMAIN mine[p].snap :
                      mine[p].snap[i][1] = <<a, h>> /\ snap'[a][h] = mine[p].snap[i][2]
             /\ snap'[a][h] \in Snapshot
  <2>1. snap[a][h] \in Snapshot
    BY <1>6 DEF Tables
  <2>2. snap'[a][h] = IF <<a, h>> \in Keys(mine[p].snap)
                      THEN Value(mine[p].snap, <<a, h>>) ELSE snap[a][h]
    BY <1>1
  <2> QED
    BY <1>4, <1>5, <2>1, <2>2
<1>9. action' \in [Actions -> ActionRow]
  <2>1. DOMAIN action' = Actions /\ action' = [a \in Actions |-> action'[a]]
    BY <1>1
  <2> QED
    BY <1>7, <2>1
<1>10. snap' \in [Actions -> [Horizons -> Snapshot]]
  <2>1. snap' = [a \in Actions |-> [h \in Horizons |-> snap'[a][h]]]
    BY <1>1
  <2> QED
    BY <1>8, <2>1
<1> QED
  BY <1>7, <1>8, <1>9, <1>10

\* A committed event is in the ledger, or one of its action and type is.
LEMMA CommitEvents ==
  ASSUME OutcomeInv, NEW p \in Processes, Commit(p)
  PROVE  /\ events \subseteq events' /\ events' \in SUBSET Event
         /\ \A e \in events' : e \in events \/ \E j \in DOMAIN mine[p].events : e = mine[p].events[j]
         /\ \A j \in DOMAIN mine[p].events :
              \/ mine[p].events[j] \in events'
              \/ \E o \in events : o[1] = mine[p].events[j][1] /\ o[2] = mine[p].events[j][2]
<1>1. events' = AppendEvents(events, Range(mine[p].events))
  BY DEF Commit
<1>2. \A j \in DOMAIN mine[p].events : mine[p].events[j] \in Event
  <2>1. mine[p] \in Writes
    BY DEF OutcomeInv, Locals
  <2>2. mine[p].events \in Seq(Event)
    BY <2>1 DEF Writes
  <2> QED
    BY <2>2
<1>3. events \in SUBSET Event
  BY DEF OutcomeInv, Tables
<1> QED
  BY <1>1, <1>2, <1>3 DEF AppendEvents, Range

LEMMA CommitLocals ==
  ASSUME OutcomeInv, NEW p \in Processes, Commit(p)
  PROVE  /\ Locals'
         /\ pc[p] \in {"fetched", "written"} /\ (p \in Verifiers => due[p] = {})
         /\ pc'[p] = "idle" /\ due'[p] = {} /\ mine'[p] = NoWrites
         /\ \A q \in Processes \ {p} : pc'[q] = pc[q] /\ due'[q] = due[q]
                                       /\ found'[q] = found[q] /\ mine'[q] = mine[q]
         /\ UNCHANGED worldVars
<1>1. /\ pc' = [pc EXCEPT ![p] = "idle"] /\ due' = [due EXCEPT ![p] = {}]
      /\ found' = [found EXCEPT ![p] = None] /\ mine' = [mine EXCEPT ![p] = NoWrites]
      /\ UNCHANGED worldVars
      /\ pc[p] \in {"fetched", "written"} /\ (p \in Verifiers => due[p] = {})
  BY DEF Commit
<1>2. Locals
  BY DEF OutcomeInv
<1>3. NoWrites \in Writes
  BY NothingStaged
<1>4. None \in Findings
  BY DEF None, Findings
<1>5. mine' \in [Processes -> Writes] /\ due' \in [Processes -> SUBSET Pair]
  BY <1>1, <1>2, <1>3 DEF Locals
<1>6. found' \in [Processes -> Findings]
  BY <1>1, <1>2, <1>4 DEF Locals
<1>7. \A q \in Processes : pc'[q] = "idle" => mine'[q] = NoWrites
  BY <1>1, <1>2 DEF Locals
<1>8. pc' \in [Processes -> {"idle", "fetched", "upsert", "verdict", "update", "call", "written"}]
  BY <1>1, <1>2 DEF Locals
<1>9. /\ pc'[p] = "idle" /\ due'[p] = {} /\ mine'[p] = NoWrites
      /\ \A q \in Processes \ {p} : pc'[q] = pc[q] /\ due'[q] = due[q]
                                    /\ found'[q] = found[q] /\ mine'[q] = mine[q]
  BY <1>1, <1>2 DEF Locals
<1> QED
  BY <1>1, <1>5, <1>6, <1>7, <1>8, <1>9 DEF Locals

\* The request of a rollback is in the ledger with the row it writes.
LEMMA OperatorCommits ==
  ASSUME OutcomeInv, NEW p \in Operators, Commit(p),
         NEW a \in Actions, NEW i \in DOMAIN mine[p].action, mine[p].action[i][1] = a
  PROVE  <<a, "rollback.requested", "none">> \in events'
<1>1. OperatorAt(p) /\ pc[p] # "idle" /\ p \in Processes
  BY CommitLocals DEF OutcomeInv, Places, Processes
<1>2. PICK j \in DOMAIN mine[p].events :
        mine[p].events[j] = <<Current(p).act, "rollback.requested", "none">>
  BY <1>1 DEF OperatorAt
<1>3. mine[p].events[j] = <<a, "rollback.requested", "none">>
  BY <1>1, <1>2 DEF OperatorAt
<1>4. ASSUME NEW o \in events, o[1] = a, o[2] = "rollback.requested"
      PROVE  o = <<a, "rollback.requested", "none">>
  <2>1. o \in Event
    BY DEF OutcomeInv, Tables
  <2> QED
    BY <1>4, <2>1 DEF Event
<1> QED
  BY <1>1, <1>3, <1>4, CommitEvents

\* An action that is written is closed, one that was closed stays so.
LEMMA CommitCloses ==
  ASSUME OutcomeInv, NEW p \in Processes, Commit(p), NEW a \in Actions,
         Closed(a) \/ a \in Keys(mine[p].action)
  PROVE  Closed(a)'
<1>1. CASE <<a, "rollback.requested", "none">> \in events
  BY <1>1, CommitEvents DEF Closed
<1>2. CASE a \notin Keys(mine[p].action) /\ action'[a] = action[a]
  BY <1>1, <1>2 DEF Closed
<1>3. ASSUME NEW i \in DOMAIN mine[p].action,
             mine[p].action[i][1] = a, action'[a] = mine[p].action[i][2]
      PROVE  Closed(a)'
  <2>1. CASE p \in Verifiers
    BY <1>3, <2>1 DEF Closed, OutcomeInv, Places, VerifierAt
  <2>2. CASE p \in Operators
    BY <1>3, <2>2, OperatorCommits DEF Closed
  <2> QED
    BY <2>1, <2>2 DEF Processes
<1> QED
  BY <1>1, <1>2, <1>3, CommitRows DEF Closed

LEMMA CommitStep ==
  ASSUME OutcomeInv, NEW p \in Processes, Commit(p)
  PROVE  OutcomeInv'
<1>1. /\ Locals' /\ pc[p] \in {"fetched", "written"}
      /\ pc'[p] = "idle" /\ due'[p] = {} /\ mine'[p] = NoWrites
      /\ \A q \in Processes \ {p} : pc'[q] = pc[q] /\ due'[q] = due[q]
                                    /\ found'[q] = found[q] /\ mine'[q] = mine[q]
  BY CommitLocals
<1>2. Tables'
  BY CommitRows, CommitEvents DEF Tables
<1>3. VerifierAt(p)' /\ OperatorAt(p)' /\ WillClose(p)'
  BY <1>1, IdleIsFine
<1>4. \A a \in Actions : Closed(a) \/ a \in Keys(mine[p].action) => Closed(a)'
  BY CommitCloses
<1>5. Places'
  <2>1. ASSUME NEW v \in Verifiers PROVE VerifierAt(v)'
    <3>1. CASE v # p
      BY <1>1, <3>1, AtStays DEF OutcomeInv, Places, Processes
    <3> QED
      BY <1>3, <3>1
  <2>2. ASSUME NEW o \in Operators PROVE OperatorAt(o)'
    <3>1. CASE o # p
      BY <1>1, <3>1, AtStays DEF OutcomeInv, Places, Processes
    <3> QED
      BY <1>3, <3>1
  <2> QED
    BY <2>1, <2>2 DEF Places
<1>6. Locks'
  <2> SUFFICES ASSUME NEW q \in Processes, NEW r \in Processes, q # r
               PROVE  Keys(mine'[q].snap) \intersect Keys(mine'[r].snap) = {}
    BY DEF Locks, Keys
  <2>1. Keys(mine'[p].snap) = {}
    BY <1>1, NothingStaged
  <2>2. CASE q # p /\ r # p
    <3>1. mine'[r] = mine[r] /\ mine'[q] = mine[q]
      BY <1>1, <2>2
    <3> QED
      BY <3>1 DEF OutcomeInv, Locks
  <2> QED
    BY <2>1, <2>2
<1>7. StagedKeepsFinal'
  <2> SUFFICES ASSUME NEW q \in Processes, NEW i \in DOMAIN mine'[q].snap,
                      NEW a \in Actions, NEW h \in Horizons,
                      mine'[q].snap[i][1] = <<a, h>>, snap'[a][h].status = "COMPLETE"
               PROVE  mine'[q].snap[i][2] = snap'[a][h]
    BY DEF StagedKeepsFinal
  <2>1. q # p /\ mine'[q] = mine[q]
    BY <1>1, NothingStaged
  <2>2. <<a, h>> \notin Keys(mine[p].snap)
    BY <2>1 DEF OutcomeInv, Locks, Keys
  <2>3. snap'[a][h] = snap[a][h]
    <3>1. \A k \in DOMAIN mine[p].snap : mine[p].snap[k][1] # <<a, h>>
      BY <2>2 DEF Keys
    <3> QED
      BY <3>1, CommitRows
  <2> QED
    BY <2>1, <2>3 DEF OutcomeInv, StagedKeepsFinal
<1>8. EvidenceClosesAction'
  <2> SUFFICES ASSUME NEW a \in Actions, Verdict(a)'.status = "COMPLETE"
               PROVE  Closed(a)'
    BY DEF EvidenceClosesAction, Closed
  <2> HIDE DEF Closed
  <2>1. WindowDays \in Horizons /\ snap'[a][WindowDays].status = "COMPLETE"
    BY OutcomeAssumption DEF Verdict
  <2>2. CASE snap'[a][WindowDays] = snap[a][WindowDays]
    <3>1. Closed(a)
      BY <2>1, <2>2 DEF OutcomeInv, EvidenceClosesAction, Verdict, Closed
    <3> QED
      BY <1>4, <3>1
  <2>3. ASSUME NEW i \in DOMAIN mine[p].snap, mine[p].snap[i][1] = <<a, WindowDays>>,
               mine[p].snap[i][2].status = "COMPLETE"
        PROVE  Closed(a) \/ a \in Keys(mine[p].action)
    <3>1. p \in Verifiers
      <4>1. CASE p \in Operators
        <5>1. DOMAIN <<>> = {}
          BY SMT
        <5>2. mine[p].snap = <<>>
          BY <4>1 DEF OutcomeInv, Places, OperatorAt
        <5> QED
          BY <5>1, <5>2
      <4> QED
        BY <4>1 DEF Processes
    <3>2. WillClose(p)
      BY <3>1 DEF OutcomeInv
    <3> QED
      BY <1>1, <2>3, <3>2 DEF WillClose
  <2>4. \/ snap'[a][WindowDays] = snap[a][WindowDays]
        \/ \E i \in DOMAIN mine[p].snap :
              /\ mine[p].snap[i][1] = <<a, WindowDays>>
              /\ snap'[a][WindowDays] = mine[p].snap[i][2]
    BY <2>1, CommitRows
  <2>5. CASE \E i \in DOMAIN mine[p].snap :
               /\ mine[p].snap[i][1] = <<a, WindowDays>>
               /\ snap'[a][WindowDays] = mine[p].snap[i][2]
    <3>1. PICK i \in DOMAIN mine[p].snap :
            /\ mine[p].snap[i][1] = <<a, WindowDays>>
            /\ snap'[a][WindowDays] = mine[p].snap[i][2]
      BY <2>5
    <3>2. Closed(a) \/ a \in Keys(mine[p].action)
      BY <2>1, <2>3, <3>1
    <3> QED
      BY <1>4, <3>2
  <2> QED
    BY <2>2, <2>4, <2>5
<1>9. ASSUME NEW v \in Verifiers PROVE WillClose(v)'
  <2>1. CASE v # p
    <3>1. v \in Processes /\ due[v] \in SUBSET Pair /\ WillClose(v)
      BY DEF OutcomeInv, Processes, Locals
    <3> QED
      BY <1>1, <1>4, <2>1, <3>1, WillCloseStays
  <2> QED
    BY <1>3, <2>1
<1> QED
  BY <1>1, <1>2, <1>5, <1>6, <1>7, <1>8, <1>9 DEF OutcomeInv

-----------------------------------------------------------------------------
(* The invariant, and what it implies *)

LEMMA OutcomeInit == Init => OutcomeInv
<1> SUFFICES ASSUME Init PROVE OutcomeInv
  OBVIOUS
<1>1. Tables
  <2>1. None \in Snapshot
    BY DEF None, Snapshot
  <2>2. [status |-> "applied", outcome |-> "none"] \in ActionRow
    BY DEF ActionRow
  <2> QED
    BY <2>1, <2>2 DEF Init, Tables
<1>2. Locals
  <2>1. None \in Findings
    BY DEF None, Findings
  <2>2. NoWrites \in Writes
    BY NothingStaged
  <2> QED
    BY <2>1, <2>2 DEF Init, Locals
<1>3. \A p \in Processes : pc[p] = "idle" /\ due[p] = {} /\ mine[p] = NoWrites
  BY DEF Init
<1>4. Places
  <2>1. \A p \in Processes : mine[p].snap = <<>>
    BY <1>3 DEF NoWrites
  <2> QED
    BY <1>3, <2>1, NothingStaged DEF Places, VerifierAt, OperatorAt, Distinct, Processes
<1>5. Locks /\ StagedKeepsFinal
  BY <1>3, NothingStaged DEF Locks, StagedKeepsFinal
<1>6. EvidenceClosesAction
  <2>1. WindowDays \in Horizons
    BY OutcomeAssumption
  <2> QED
    BY <2>1 DEF Init, EvidenceClosesAction, Verdict, None
<1>7. \A v \in Verifiers : WillClose(v)
  BY <1>3, NothingStaged DEF WillClose, Processes
<1> QED
  BY <1>1, <1>2, <1>4, <1>5, <1>6, <1>7 DEF OutcomeInv

\* Days pass, marts are rebuilt, or nothing happens.
LEMMA QuietStep ==
  ASSUME OutcomeInv, UNCHANGED <<dbVars, pc, due, found, mine>>
  PROVE  OutcomeInv'
<1>1. Tables' /\ Locals' /\ Locks' /\ StagedKeepsFinal' /\ EvidenceClosesAction'
  <2>1. Tables'
    BY DEF OutcomeInv, Tables, dbVars
  <2>2. Locals'
    BY DEF OutcomeInv, Locals
  <2>3. Locks'
    <3> SUFFICES ASSUME NEW q \in Processes, NEW r \in Processes, q # r
                 PROVE  Keys(mine'[q].snap) \intersect Keys(mine'[r].snap) = {}
      BY DEF Locks, Keys
    <3>1. mine'[q] = mine[q] /\ mine'[r] = mine[r]
      OBVIOUS
    <3> QED
      BY <3>1 DEF OutcomeInv, Locks
  <2>4. StagedKeepsFinal'
    BY DEF OutcomeInv, StagedKeepsFinal, dbVars
  <2>5. EvidenceClosesAction'
    BY DEF OutcomeInv, EvidenceClosesAction, Verdict, dbVars
  <2> QED
    BY <2>1, <2>2, <2>3, <2>4, <2>5
<1>2. Places'
  BY AtStays DEF OutcomeInv, Places
<1>3. ASSUME NEW v \in Verifiers PROVE WillClose(v)'
  <2>1. WillClose(v) /\ due[v] \in SUBSET Pair
    BY DEF OutcomeInv, Locals, Processes
  <2>2. \A a \in Actions : Closed(a) => Closed(a)'
    BY DEF Closed, dbVars
  <2> QED
    BY <2>1, <2>2, WillCloseStays
<1> QED
  BY <1>1, <1>2, <1>3 DEF OutcomeInv

LEMMA OutcomeStep == OutcomeInv /\ [Next]_vars => OutcomeInv'
<1> SUFFICES ASSUME OutcomeInv, [Next]_vars PROVE OutcomeInv'
  OBVIOUS
<1>1. CASE NextDay
  BY <1>1, QuietStep DEF NextDay
<1>2. CASE RefreshMart
  BY <1>2, QuietStep DEF RefreshMart
<1>3. ASSUME NEW v \in Verifiers, Verify(v) PROVE OutcomeInv'
  <2>1. CASE ReadWindows(v) /\ Lost(v)
    BY <2>1, LostStep DEF ReadWindows, Processes
  <2> QED
    BY <1>3, <2>1, FetchStep, ReadWindowsStep, VerifyHorizonStep, ReadVerdictStep,
       VerifyActionStep, CommitStep DEF Verify, Processes
<1>4. ASSUME NEW o \in Operators, Rollback(o) PROVE OutcomeInv'
  BY <1>4, RequestStep, CallStep, RollbackStep, CommitStep DEF Rollback, Processes
<1>5. ASSUME NEW p \in Processes, Abort(p) PROVE OutcomeInv'
  BY <1>5, LostStep DEF Abort
<1>6. CASE UNCHANGED vars
  BY <1>6, QuietStep DEF vars
<1> QED
  BY <1>1, <1>2, <1>3, <1>4, <1>5, <1>6 DEF Next

LEMMA OutcomeInvHolds == Spec => []OutcomeInv
BY OutcomeInit, OutcomeStep, PTL DEF Spec

\* The tables and the processes keep their types.
THEOREM TypeCorrect == Spec => []TypeOK
<1>1. OutcomeInv => TypeOK
  BY DEF OutcomeInv, Tables, Locals, TypeOK, ActionRow, Snapshot
<1> QED
  BY <1>1, OutcomeInvHolds, PTL

\* However runs overlap with each other and with rollbacks, and whatever
\* aborts: complete T+7 evidence comes with the verdict, in one transaction,
\* or with the request to undo the action (run_once, rollback_action).
THEOREM EvidenceClosesActionHolds == Spec => []EvidenceClosesAction
<1>1. OutcomeInv => EvidenceClosesAction
  BY DEF OutcomeInv
<1> QED
  BY <1>1, OutcomeInvHolds, PTL

\* The tables change by a commit only.
LEMMA OnlyCommits ==
  ASSUME [Next]_vars
  PROVE  UNCHANGED dbVars \/ \E p \in Processes : Commit(p)
BY DEF Next, vars, dbVars, NextDay, RefreshMart, Verify, Rollback, Abort, Processes,
       FetchDueSnapshots, ReadWindows, VerifyHorizon, ReadVerdict, VerifyAction,
       RequestRollback, CallRollback, RollbackAction

\* Complete evidence is never overwritten, by however many verifiers and for
\* every mart, restated ones included (the upsert of verify_horizon).
THEOREM EvidenceIsFinalHolds == Spec => EvidenceIsFinal
<1>1. ASSUME OutcomeInv, [Next]_vars
      PROVE  \A a \in Actions, h \in Horizons :
                snap[a][h].status = "COMPLETE" => snap'[a][h] = snap[a][h]
  <2>1. ASSUME NEW p \in Processes, Commit(p), NEW a \in Actions, NEW h \in Horizons,
               snap[a][h].status = "COMPLETE"
        PROVE  snap'[a][h] = snap[a][h]
    <3>1. StagedKeepsFinal
      BY <1>1 DEF OutcomeInv
    <3>2. \/ snap'[a][h] = snap[a][h]
          \/ \E i \in DOMAIN mine[p].snap :
                mine[p].snap[i][1] = <<a, h>> /\ snap'[a][h] = mine[p].snap[i][2]
      BY <1>1, <2>1, CommitRows
    <3> QED
      BY <2>1, <3>1, <3>2 DEF StagedKeepsFinal
  <2>2. snap' = snap \/ \E p \in Processes : Commit(p)
    BY <1>1, OnlyCommits DEF dbVars
  <2> QED
    BY <2>1, <2>2
<1> QED
  BY <1>1, OutcomeInvHolds, PTL DEF Spec, EvidenceIsFinal

-----------------------------------------------------------------------------
(* What a rollback may reopen *)

\* A rolled back action has its request in the ledger.
RollbackIsAsked ==
    \A a \in Actions :
        action[a].status = "rolled_back" => <<a, "rollback.requested", "none">> \in events

\* A row that a commit gives another status is an operator's, or is verified.
LEMMA CommitStatus ==
  ASSUME OutcomeInv, NEW p \in Processes, Commit(p), NEW a \in Actions
  PROVE  \/ action'[a] = action[a]
         \/ action'[a].status = "verified"
         \/ <<a, "rollback.requested", "none">> \in events'
<1>1. ASSUME NEW i \in DOMAIN mine[p].action,
             mine[p].action[i][1] = a, action'[a] = mine[p].action[i][2]
      PROVE  \/ action'[a].status = "verified"
             \/ <<a, "rollback.requested", "none">> \in events'
  <2>1. CASE p \in Verifiers
    BY <1>1, <2>1 DEF OutcomeInv, Places, VerifierAt
  <2>2. CASE p \in Operators
    BY <1>1, <2>2, OperatorCommits
  <2> QED
    BY <2>1, <2>2 DEF Processes
<1> QED
  BY <1>1, CommitRows

LEMMA RollbackStaysAsked ==
  ASSUME OutcomeInv, RollbackIsAsked, [Next]_vars
  PROVE  RollbackIsAsked'
<1>1. ASSUME NEW p \in Processes, Commit(p) PROVE RollbackIsAsked'
  <2> SUFFICES ASSUME NEW a \in Actions, action'[a].status = "rolled_back"
               PROVE  <<a, "rollback.requested", "none">> \in events'
    BY DEF RollbackIsAsked
  <2>1. CASE action'[a] = action[a]
    BY <1>1, <2>1, CommitEvents DEF RollbackIsAsked
  <2>2. CASE action'[a] # action[a]
    BY <1>1, <2>2, CommitStatus
  <2> QED
    BY <2>1, <2>2
<1>2. CASE UNCHANGED dbVars
  BY <1>2 DEF RollbackIsAsked, dbVars
<1> QED
  BY <1>1, <1>2, OnlyCommits

\* An update by id undoes a terminal state only when somebody asked for a
\* rollback: verification runs, however many overlap, never undo each other
\* (verify_action, rollback_action).
THEOREM OnlyRollbackReopensHolds == Spec => OnlyRollbackReopens
<1>1. Init => RollbackIsAsked
  BY DEF Init, RollbackIsAsked
<1>2. ASSUME OutcomeInv, RollbackIsAsked, [Next]_vars
      PROVE  \A a \in Actions :
                /\ action[a].status \in {"verified", "rolled_back"}
                /\ action'[a].status # action[a].status
                => <<a, "rollback.requested", "none">> \in events'
  <2> SUFFICES ASSUME NEW a \in Actions,
                      action[a].status \in {"verified", "rolled_back"},
                      action'[a].status # action[a].status
               PROVE  <<a, "rollback.requested", "none">> \in events'
    OBVIOUS
  <2>1. PICK p \in Processes : Commit(p)
    BY <1>2, OnlyCommits DEF dbVars
  <2>2. CASE action[a].status = "rolled_back"
    BY <1>2, <2>1, <2>2, CommitEvents DEF RollbackIsAsked
  <2>3. CASE action[a].status = "verified"
    BY <1>2, <2>1, <2>3, CommitStatus
  <2> QED
    BY <2>2, <2>3
<1>3. OutcomeInv /\ RollbackIsAsked /\ [Next]_vars => RollbackIsAsked'
  BY RollbackStaysAsked
<1> QED
  BY <1>1, <1>2, <1>3, OutcomeInvHolds, PTL DEF Spec, OnlyRollbackReopens

-----------------------------------------------------------------------------
(* The scorecard *)

\* A process that leaves windows, tables and itself alone.
LEMMA EvidenceStays ==
  ASSUME NEW v, pc'[v] = pc[v], due'[v] = due[v], found'[v] = found[v], mine'[v] = mine[v],
         UNCHANGED <<through, mart, restated>>
  PROVE  /\ StagedIsSettled(v) => StagedIsSettled(v)'
         /\ LeftIsUnwritten(v) => LeftIsUnwritten(v)'
         /\ VerdictHasEvidence(v) => VerdictHasEvidence(v)'
<1>1. Current(v)' = Current(v)
  BY CurrentStays
<1>2. \A a, o : SettledNow(a, o)' = SettledNow(a, o)
  BY DEF SettledNow
<1>3. StagedIsSettled(v) => StagedIsSettled(v)'
  <2> HIDE DEF SettledNow
  <2> QED
    BY <1>1, <1>2 DEF StagedIsSettled
<1>4. LeftIsUnwritten(v) => LeftIsUnwritten(v)'
  BY <1>1 DEF LeftIsUnwritten, Keys
<1>5. \A a : HasEvidence(v, a)' = HasEvidence(v, a)
  BY DEF HasEvidence, Keys
<1>6. VerdictHasEvidence(v) => VerdictHasEvidence(v)'
  <2> HIDE DEF SettledNow, HasEvidence
  <2> QED
    BY <1>1, <1>2, <1>5 DEF VerdictHasEvidence
<1> QED
  BY <1>3, <1>4, <1>6

LEMMA ScoreLocalStep ==
  ASSUME ScoreInv, UNCHANGED <<dbVars, through, mart, restated>>, NEW p \in Processes,
         \A q \in Processes \ {p} : pc'[q] = pc[q] /\ due'[q] = due[q]
                                    /\ found'[q] = found[q] /\ mine'[q] = mine[q],
         p \in Verifiers => StagedIsSettled(p)' /\ LeftIsUnwritten(p)' /\ VerdictHasEvidence(p)'
  PROVE  ScoreInv'
<1>1. World' /\ StoredIsSettled' /\ ScorecardAgrees'
  <2>1. \A a, o : SettledNow(a, o)' = SettledNow(a, o)
    BY DEF SettledNow
  <2>2. \A a : Verdict(a)' = Verdict(a)
    BY DEF Verdict, dbVars
  <2>3. World'
    BY DEF ScoreInv, World
  <2>4. StoredIsSettled'
    <3> HIDE DEF SettledNow, Verdict
    <3> QED
      BY <2>1, <2>2 DEF ScoreInv, StoredIsSettled, dbVars
  <2>5. ScorecardAgrees'
    <3> HIDE DEF Verdict
    <3> QED
      BY <2>2 DEF ScoreInv, ScorecardAgrees, dbVars
  <2> QED
    BY <2>3, <2>4, <2>5
<1>2. ASSUME NEW v \in Verifiers, v # p
      PROVE  StagedIsSettled(v)' /\ LeftIsUnwritten(v)' /\ VerdictHasEvidence(v)'
  <2>1. v \in Processes \ {p}
    BY <1>2 DEF Processes
  <2>2. pc'[v] = pc[v] /\ due'[v] = due[v] /\ found'[v] = found[v] /\ mine'[v] = mine[v]
    BY <2>1
  <2>3. StagedIsSettled(v) /\ LeftIsUnwritten(v) /\ VerdictHasEvidence(v)
    BY DEF ScoreInv
  <2> QED
    BY <2>2, <2>3, EvidenceStays
<1> QED
  BY <1>1, <1>2 DEF ScoreInv

\* An operator leaves what verifiers have staged alone.
LEMMA ScoreOperatorStep ==
  ASSUME ScoreInv, UNCHANGED <<dbVars, through, mart, restated>>, NEW o \in Operators,
         \A q \in Processes \ {o} : pc'[q] = pc[q] /\ due'[q] = due[q]
                                    /\ found'[q] = found[q] /\ mine'[q] = mine[q]
  PROVE  ScoreInv'
BY ScoreLocalStep, OutcomeAssumption DEF Processes

\* A process that has nothing staged and nothing left.
LEMMA NothingToSettle ==
  ASSUME NEW p, pc'[p] \in {"idle", "fetched"}, mine'[p] = NoWrites
  PROVE  StagedIsSettled(p)' /\ LeftIsUnwritten(p)' /\ VerdictHasEvidence(p)'
BY NothingStaged DEF StagedIsSettled, LeftIsUnwritten, VerdictHasEvidence

LEMMA ScoreFetchStep ==
  ASSUME OutcomeInv, ScoreInv, NEW v \in Verifiers, FetchDueSnapshots(v)
  PROVE  ScoreInv'
<1>1. PICK new : due' = [due EXCEPT ![v] = new]
  BY DEF FetchDueSnapshots
<1>2. /\ pc[v] = "idle" /\ pc' = [pc EXCEPT ![v] = "fetched"]
      /\ UNCHANGED <<dbVars, through, mart, restated, found, mine>>
  BY DEF FetchDueSnapshots, worldVars
<1>3. Locals /\ v \in Processes
  BY DEF OutcomeInv, Processes
<1>4. mine'[v] = NoWrites /\ pc'[v] = "fetched"
  BY <1>2, <1>3 DEF Locals
<1>5. \A q \in Processes \ {v} : pc'[q] = pc[q] /\ due'[q] = due[q]
                                 /\ found'[q] = found[q] /\ mine'[q] = mine[q]
  BY <1>1, <1>2, <1>3 DEF Locals
<1> QED
  BY <1>2, <1>3, <1>4, <1>5, NothingToSettle, ScoreLocalStep

LEMMA ScoreReadStep ==
  ASSUME OutcomeInv, ScoreInv, NEW v \in Verifiers, ReadWindows(v), ~Lost(v)
  PROVE  ScoreInv'
<1> DEFINE a == Current(v).act
           h == Current(v).days
           new == Evidence(a, h)
<1>1. /\ pc[v] = "fetched" /\ due[v] # {}
      /\ found' = [found EXCEPT ![v] = new] /\ pc' = [pc EXCEPT ![v] = "upsert"]
      /\ UNCHANGED <<dbVars, through, mart, restated, due, mine>>
  BY DEF ReadWindows, worldVars
<1>2. Locals /\ v \in Processes
  BY DEF OutcomeInv, Processes
<1>3. a \in Actions /\ h \in Horizons
  BY <1>1, CurrentPair
<1>4. new.status = "COMPLETE" => Settled(through, mart, a, h, new.outcome)
  <2> HIDE DEF a, h
  <2> QED
    BY <1>3, EvidenceIsSettled
<1> HIDE DEF new
<1>5. /\ pc'[v] = "upsert" /\ found'[v] = new /\ due'[v] = due[v] /\ mine'[v] = mine[v]
      /\ \A q \in Processes \ {v} : pc'[q] = pc[q] /\ due'[q] = due[q]
                                    /\ found'[q] = found[q] /\ mine'[q] = mine[q]
  BY <1>1, <1>2 DEF Locals
<1>6. Current(v)' = Current(v)
  BY <1>5, CurrentStays
<1>7. StagedIsSettled(v) /\ LeftIsUnwritten(v) /\ VerdictHasEvidence(v)
  BY DEF ScoreInv
<1>8. \A b, o : SettledNow(b, o)' = SettledNow(b, o)
  BY <1>1 DEF SettledNow
<1>9. StagedIsSettled(v)'
  <2>1. h = WindowDays /\ new.status = "COMPLETE" => SettledNow(a, new.outcome)
    BY <1>4 DEF SettledNow
  <2> HIDE DEF SettledNow
  <2> QED
    BY <1>5, <1>6, <1>7, <1>8, <2>1 DEF StagedIsSettled
<1>10. LeftIsUnwritten(v)'
  BY <1>1, <1>5, <1>7 DEF LeftIsUnwritten, Keys
<1>11. VerdictHasEvidence(v)'
  <2>1. \A b : HasEvidence(v, b)' = HasEvidence(v, b)
    BY <1>5 DEF HasEvidence, Keys
  <2> HIDE DEF SettledNow, HasEvidence
  <2> QED
    BY <1>5, <1>7, <1>8, <2>1 DEF VerdictHasEvidence
<1> QED
  BY <1>1, <1>2, <1>5, <1>9, <1>10, <1>11, ScoreLocalStep

LEMMA ScoreHorizonStep ==
  ASSUME OutcomeInv, ScoreInv, NEW v \in Verifiers, VerifyHorizon(v)
  PROVE  ScoreInv'
<1>1. PICK a \in Actions, h \in Horizons, row \in Snapshot :
            /\ a = Current(v).act /\ h = Current(v).days /\ row = Upsert(snap[a][h], found[v])
            /\ pc[v] = "upsert" /\ Current(v) \in due[v]
            /\ mine' = [mine EXCEPT ![v].snap = Append(@, <<<<a, h>>, row>>)]
            /\ \A q \in Processes \ {v} : <<a, h>> \notin Keys(mine[q].snap)
            /\ \/ /\ ToVerdict(Current(v), found[v])
                  /\ pc' = [pc EXCEPT ![v] = "verdict"] /\ due' = due
               \/ /\ ~ToVerdict(Current(v), found[v])
                  /\ pc' = [pc EXCEPT ![v] = "fetched"]
                  /\ due' = [due EXCEPT ![v] = @ \ {Current(v)}]
            /\ UNCHANGED <<worldVars, dbVars, found>>
  BY HorizonStages
<1> DEFINE e == <<<<a, h>>, row>>
<1>2. Locals /\ v \in Processes /\ VerifierAt(v)
  BY DEF OutcomeInv, Processes, Places
<1>6. /\ mine'[v].action = mine[v].action /\ mine'[v].events = mine[v].events
      /\ \A i \in DOMAIN mine'[v].snap :
           \/ i \in DOMAIN mine[v].snap /\ mine'[v].snap[i] = mine[v].snap[i]
           \/ mine'[v].snap[i] = e
      /\ Keys(mine'[v].snap) = Keys(mine[v].snap) \union {<<a, h>>}
  <2>1. mine' = [mine EXCEPT ![v].snap = Append(@, <<<<a, h>>, row>>)]
    BY <1>1
  <2> QED
    BY <2>1, HorizonRow, ZenonT(60)
<1>14. e[1] = <<a, h>> /\ e[2] = row
  OBVIOUS
<1> HIDE DEF e
<1>7. /\ \/ pc'[v] = "verdict" /\ ToVerdict(Current(v), found[v]) /\ due'[v] = due[v]
         \/ pc'[v] = "fetched" /\ due'[v] = due[v] \ {Current(v)}
      /\ \A q \in Processes \ {v} : pc'[q] = pc[q] /\ due'[q] = due[q]
                                    /\ found'[q] = found[q] /\ mine'[q] = mine[q]
  BY <1>1, <1>2 DEF Locals
<1>8. UNCHANGED <<dbVars, through, mart, restated>>
  BY <1>1 DEF worldVars
<1>9. \A b, o : SettledNow(b, o)' = SettledNow(b, o)
  BY <1>8 DEF SettledNow
<1>10. StagedIsSettled(v) /\ LeftIsUnwritten(v) /\ VerdictHasEvidence(v) /\ StoredIsSettled
  BY DEF ScoreInv
<1> HIDE DEF SettledNow
<1>11. pc'[v] = "verdict" => Current(v)' = Current(v)
  BY <1>7, CurrentStays
<1>12. <<a, h>> \notin Keys(mine[v].snap)
  BY <1>1, <1>10 DEF LeftIsUnwritten
<1>13. \A i \in DOMAIN mine[v].snap : mine[v].snap[i][1] # <<a, h>>
  BY <1>12 DEF Keys
<1>15. StagedIsSettled(v)'
  <2>1. ASSUME NEW i \in DOMAIN mine'[v].snap, NEW b \in Actions,
               mine'[v].snap[i][1] = <<b, WindowDays>>,
               mine'[v].snap[i][2].status = "COMPLETE"
        PROVE  SettledNow(b, mine'[v].snap[i][2].outcome)
    <3>1. CASE i \in DOMAIN mine[v].snap /\ mine'[v].snap[i] = mine[v].snap[i]
      BY <1>10, <2>1, <3>1 DEF StagedIsSettled
    <3>2. CASE mine'[v].snap[i] = e
      <4>1. b = a /\ WindowDays = h /\ row.status = "COMPLETE"
        BY <1>14, <2>1, <3>2
      <4>2. CASE snap[a][h].status = "COMPLETE"
        <5>1. row = snap[a][h]
          BY <1>1, <4>2 DEF Upsert
        <5>2. SettledNow(a, snap[a][h].outcome)
          BY <1>10, <4>1, <4>2 DEF StoredIsSettled, Verdict
        <5> QED
          BY <1>14, <3>2, <4>1, <5>1, <5>2
      <4>3. CASE snap[a][h].status # "COMPLETE"
        <5>1. row = found[v]
          BY <1>1, <4>3 DEF Upsert
        <5>2. SettledNow(a, found[v].outcome)
          BY <1>1, <1>10, <4>1, <5>1 DEF StagedIsSettled
        <5> QED
          BY <1>14, <3>2, <4>1, <5>1, <5>2
      <4> QED
        BY <4>2, <4>3
    <3> QED
      BY <1>6, <3>1, <3>2
  <2> QED
    BY <1>6, <1>7, <1>9, <1>10, <2>1 DEF StagedIsSettled
<1>16. LeftIsUnwritten(v)'
  <2> SUFFICES ASSUME NEW x \in due'[v], <<x.act, x.days>> \in Keys(mine'[v].snap)
               PROVE  pc'[v] \in {"verdict", "update"} /\ x = Current(v)'
    BY DEF LeftIsUnwritten, Keys
  <2>1. x \in due[v]
    BY <1>7
  <2>2. <<x.act, x.days>> \notin Keys(mine[v].snap)
    BY <1>1, <1>10, <2>1 DEF LeftIsUnwritten
  <2>3. x.act = a /\ x.days = h
    BY <1>6, <2>2
  <2>4. x = Current(v)
    BY <1>1, <1>2, <2>1, <2>3 DEF VerifierAt, Distinct
  <2> QED
    BY <1>7, <1>11, <2>4
<1>17. VerdictHasEvidence(v)'
  <2>1. pc'[v] \in {"verdict", "update"} => Current(v)'.act = a /\ HasEvidence(v, a)'
    <3> SUFFICES ASSUME pc'[v] = "verdict" PROVE Current(v)'.act = a /\ HasEvidence(v, a)'
      BY <1>7
    <3>1. Current(v)'.act = a /\ h = WindowDays /\ found[v].status = "COMPLETE"
      BY <1>1, <1>7, <1>11 DEF ToVerdict
    <3>2. row.status = "COMPLETE"
      BY <1>1, <3>1 DEF Upsert
    <3>3. <<a, WindowDays>> \in Keys(mine'[v].snap)
      BY <1>6, <3>1
    <3>4. \A i \in DOMAIN mine'[v].snap :
             mine'[v].snap[i][1] = <<a, WindowDays>> => mine'[v].snap[i][2].status = "COMPLETE"
      BY <1>6, <1>13, <1>14, <3>1, <3>2
    <3>5. HasEvidence(v, a)'
      BY <3>3, <3>4 DEF HasEvidence, Keys
    <3> QED
      BY <3>1, <3>5
  <2>2. ASSUME NEW b, HasEvidence(v, b) PROVE HasEvidence(v, b)'
    <3>1. <<b, WindowDays>> \in Keys(mine[v].snap)
      BY <2>2 DEF HasEvidence
    <3>2. <<b, WindowDays>> \in Keys(mine'[v].snap) /\ <<b, WindowDays>> # <<a, h>>
      BY <1>6, <1>12, <3>1
    <3>3. \A i \in DOMAIN mine'[v].snap :
             mine'[v].snap[i][1] = <<b, WindowDays>> => mine'[v].snap[i][2].status = "COMPLETE"
      BY <1>6, <1>14, <2>2, <3>2 DEF HasEvidence
    <3> QED
      BY <3>2, <3>3 DEF HasEvidence, Keys
  <2> HIDE DEF HasEvidence
  <2> QED
    BY <1>6, <1>9, <1>10, <2>1, <2>2 DEF VerdictHasEvidence
<1> QED
  BY <1>2, <1>7, <1>8, <1>15, <1>16, <1>17, ScoreLocalStep

LEMMA ScoreVerdictStep ==
  ASSUME OutcomeInv, ScoreInv, NEW v \in Verifiers, ReadVerdict(v)
  PROVE  ScoreInv'
<1> DEFINE a == Current(v).act
           o == Judge(Before(a, WindowDays), After(a, WindowDays))
<1>1. /\ pc[v] = "verdict" /\ pc' = [pc EXCEPT ![v] = "update"]
      /\ found' = [found EXCEPT ![v] = [status |-> "verified", outcome |-> o]]
      /\ UNCHANGED <<dbVars, through, mart, restated, due, mine>>
  BY DEF ReadVerdict, worldVars
<1>2. Locals /\ v \in Processes /\ VerifierAt(v)
  BY DEF OutcomeInv, Processes, Places
<1>3. a \in Actions
  BY <1>1, <1>2, CurrentPair DEF VerifierAt
<1>4. StagedIsSettled(v) /\ LeftIsUnwritten(v) /\ VerdictHasEvidence(v)
  BY DEF ScoreInv
<1>5. SettledNow(a, o)
  <2>1. HasEvidence(v, a)
    BY <1>1, <1>4 DEF VerdictHasEvidence
  <2>2. PICK i \in DOMAIN mine[v].snap :
          mine[v].snap[i][1] = <<a, WindowDays>> /\ mine[v].snap[i][2].status = "COMPLETE"
    <3> HIDE DEF a
    <3> QED
      BY <2>1 DEF HasEvidence, Keys
  <2> DEFINE w == mine[v].snap[i][2].outcome
  <2> HIDE DEF a
  <2>3. SettledNow(a, w)
    BY <1>3, <1>4, <2>2 DEF StagedIsSettled
  <2> HIDE DEF w
  <2>4. CASE a \in restated
    BY <2>4 DEF SettledNow
  <2>5. CASE a \notin restated
    <3>1. o = w
      BY <1>3, <2>3, <2>5, VerdictIsSettled, OutcomeAssumption DEF SettledNow
    <3> HIDE DEF o, SettledNow
    <3> QED
      BY <2>3, <3>1
  <2> QED
    BY <2>4, <2>5
<1> HIDE DEF o
<1>6. /\ pc'[v] = "update" /\ found'[v].outcome = o /\ due'[v] = due[v] /\ mine'[v] = mine[v]
      /\ \A q \in Processes \ {v} : pc'[q] = pc[q] /\ due'[q] = due[q]
                                    /\ found'[q] = found[q] /\ mine'[q] = mine[q]
  BY <1>1, <1>2 DEF Locals
<1>7. Current(v)' = Current(v)
  BY <1>6, CurrentStays
<1>8. \A b, x : SettledNow(b, x)' = SettledNow(b, x)
  BY <1>1 DEF SettledNow
<1>9. StagedIsSettled(v)'
  <2> HIDE DEF SettledNow
  <2> QED
    BY <1>4, <1>5, <1>6, <1>7, <1>8 DEF StagedIsSettled
<1>10. LeftIsUnwritten(v)'
  BY <1>4, <1>6, <1>7 DEF LeftIsUnwritten, Keys
<1>11. VerdictHasEvidence(v)'
  <2>1. \A b : HasEvidence(v, b)' = HasEvidence(v, b)
    BY <1>6 DEF HasEvidence, Keys
  <2> HIDE DEF SettledNow, HasEvidence
  <2> QED
    BY <1>1, <1>4, <1>6, <1>7, <1>8, <2>1 DEF VerdictHasEvidence
<1> QED
  BY <1>1, <1>2, <1>6, <1>9, <1>10, <1>11, ScoreLocalStep

LEMMA ScoreActionStep ==
  ASSUME OutcomeInv, ScoreInv, NEW v \in Verifiers, VerifyAction(v)
  PROVE  ScoreInv'
<1>1. PICK a \in Actions, row \in ActionRow :
            LET e == <<a, row>>
                f == <<a, "verification.result", row.outcome>>
            IN  /\ a = Current(v).act /\ row = found[v] /\ Current(v) \in due[v]
                /\ row.status = "verified" /\ row.outcome \in Outcomes /\ f \in Event
                /\ mine[v].action \in Seq(StagedAction) /\ mine[v].events \in Seq(Event)
                /\ mine'[v] \in Writes /\ mine'[v].snap = mine[v].snap
                /\ mine'[v].action = Append(mine[v].action, e)
                /\ mine'[v].events = Append(mine[v].events, f)
                /\ pc[v] = "update" /\ pc'[v] = "fetched" /\ due'[v] = due[v] \ {Current(v)}
                /\ \A q \in Processes \ {v} : pc'[q] = pc[q] /\ due'[q] = due[q]
                                              /\ found'[q] = found[q] /\ mine'[q] = mine[q]
                /\ UNCHANGED <<worldVars, dbVars, found>> /\ Locals'
  BY VerdictStages
<1> DEFINE e == <<a, row>>
           f == <<a, "verification.result", row.outcome>>
           T == StagedAction
<1>2. /\ mine[v].action \in Seq(T) /\ mine'[v].action = Append(mine[v].action, e)
      /\ mine[v].events \in Seq(Event) /\ mine'[v].events = Append(mine[v].events, f)
      /\ e \in T /\ f \in Event
  BY <1>1 DEF StagedAction
<1>3. /\ Current(v).act = a /\ found[v].outcome = row.outcome
      /\ pc[v] = "update" /\ pc'[v] = "fetched" /\ due'[v] = due[v] \ {Current(v)}
      /\ mine'[v].snap = mine[v].snap
  BY <1>1
<1>4. /\ UNCHANGED <<dbVars, through, mart, restated>> /\ v \in Processes
      /\ \A q \in Processes \ {v} : pc'[q] = pc[q] /\ due'[q] = due[q]
                                    /\ found'[q] = found[q] /\ mine'[q] = mine[q]
  BY <1>1 DEF worldVars, Processes
<1>5. StagedIsSettled(v) /\ LeftIsUnwritten(v) /\ VerdictHasEvidence(v)
  BY DEF ScoreInv
<1>6. e[1] = a /\ e[2] = row /\ e[2].outcome = row.outcome
  OBVIOUS
<1>7. SettledNow(a, row.outcome) /\ HasEvidence(v, a)
  <2> HIDE DEF SettledNow, HasEvidence
  <2> QED
    BY <1>3, <1>5 DEF StagedIsSettled, VerdictHasEvidence
<1>8. \A b, x : SettledNow(b, x)' = SettledNow(b, x)
  BY <1>4 DEF SettledNow
<1>9. \A b : HasEvidence(v, b)' = HasEvidence(v, b)
  BY <1>3 DEF HasEvidence, Keys
<1>10. ASSUME NEW b \in Actions, NEW o \in Outcomes, f = <<b, "verification.result", o>>
       PROVE  b = a /\ o = row.outcome
  BY <1>10
<1> HIDE DEF e, f, T, SettledNow, HasEvidence
<1>11. /\ \A i \in DOMAIN mine'[v].action :
             \/ i \in DOMAIN mine[v].action /\ mine'[v].action[i] = mine[v].action[i]
             \/ mine'[v].action[i] = e
  <2>1. \A i \in DOMAIN Append(mine[v].action, e) :
          \/ i \in DOMAIN mine[v].action /\ Append(mine[v].action, e)[i] = mine[v].action[i]
          \/ Append(mine[v].action, e)[i] = e
    <3>1. mine[v].action \in Seq(T) /\ e \in T
      BY <1>2
    <3> QED
      BY <3>1, Appended
  <2> QED
    BY <1>2, <2>1
<1>12. /\ DOMAIN mine[v].events \subseteq DOMAIN mine'[v].events
       /\ \A j \in DOMAIN mine[v].events : mine'[v].events[j] = mine[v].events[j]
       /\ \A j \in DOMAIN mine'[v].events : j \in DOMAIN mine[v].events \/ mine'[v].events[j] = f
       /\ \E j \in DOMAIN mine'[v].events : mine'[v].events[j] = f
  <2> DEFINE g == Append(mine[v].events, f)
  <2>1. mine[v].events \in Seq(Event) /\ f \in Event /\ mine'[v].events = g
    BY <1>2
  <2>2. /\ DOMAIN mine[v].events \subseteq DOMAIN g
        /\ \A j \in DOMAIN mine[v].events : g[j] = mine[v].events[j]
        /\ \A j \in DOMAIN g : j \in DOMAIN mine[v].events \/ g[j] = f
        /\ \E j \in DOMAIN g : g[j] = f
    BY <2>1, Appended
  <2> HIDE DEF g
  <2> QED
    BY <2>1, <2>2, Zenon
<1>13. StagedIsSettled(v)'
  <2>1. ASSUME NEW j \in DOMAIN mine'[v].events, NEW b \in Actions, NEW o \in Outcomes,
               mine'[v].events[j] = <<b, "verification.result", o>>
        PROVE  SettledNow(b, o)
    <3>1. CASE j \in DOMAIN mine[v].events
      BY <1>5, <1>12, <2>1, <3>1 DEF StagedIsSettled
    <3>2. CASE mine'[v].events[j] = f
      BY <1>7, <1>10, <2>1, <3>2
    <3> QED
      BY <1>12, <3>1, <3>2
  <2> QED
    BY <1>3, <1>5, <1>8, <2>1 DEF StagedIsSettled
<1>14. LeftIsUnwritten(v)'
  BY <1>3, <1>5 DEF LeftIsUnwritten, Keys
<1>15. VerdictHasEvidence(v)'
  <2>1. ASSUME NEW i \in DOMAIN mine'[v].action
        PROVE  /\ HasEvidence(v, mine'[v].action[i][1])
               /\ SettledNow(mine'[v].action[i][1], mine'[v].action[i][2].outcome)
               /\ \E j \in DOMAIN mine'[v].events : mine'[v].events[j] =
                     <<mine'[v].action[i][1], "verification.result", mine'[v].action[i][2].outcome>>
    <3>1. CASE i \in DOMAIN mine[v].action /\ mine'[v].action[i] = mine[v].action[i]
      <4>1. /\ HasEvidence(v, mine[v].action[i][1])
            /\ SettledNow(mine[v].action[i][1], mine[v].action[i][2].outcome)
            /\ \E j \in DOMAIN mine[v].events : mine[v].events[j] =
                  <<mine[v].action[i][1], "verification.result", mine[v].action[i][2].outcome>>
        BY <1>5, <3>1 DEF VerdictHasEvidence
      <4> QED
        BY <1>12, <3>1, <4>1
    <3>2. CASE mine'[v].action[i] = e
      <4>1. f = <<a, "verification.result", row.outcome>>
        BY DEF f
      <4> QED
        BY <1>6, <1>7, <1>12, <3>2, <4>1
    <3> QED
      BY <1>11, <3>1, <3>2
  <2> QED
    BY <1>3, <1>8, <1>9, <2>1 DEF VerdictHasEvidence
<1> QED
  BY <1>4, <1>13, <1>14, <1>15, ScoreLocalStep

\* A verdict that commits finds its evidence and its event in the tables.
LEMMA CommitScore ==
  ASSUME OutcomeInv, ScoreInv, NEW v \in Verifiers, Commit(v), StoredIsSettled',
         NEW i \in DOMAIN mine[v].action, NEW a \in Actions, NEW o \in Outcomes,
         mine[v].action[i][1] = a, mine[v].action[i][2].outcome = o
  PROVE  /\ Verdict(a)'.status = "COMPLETE"
         /\ \E e \in events' : e[1] = a /\ e[2] = "verification.result"
         /\ a \notin restated => /\ Verdict(a)'.outcome = o
                                /\ <<a, "verification.result", o>> \in events'
<1>1. /\ HasEvidence(v, a) /\ SettledNow(a, o)
      /\ \E j \in DOMAIN mine[v].events :
            mine[v].events[j] = <<a, "verification.result", o>>
  <2>1. VerdictHasEvidence(v)
    BY DEF ScoreInv
  <2> HIDE DEF HasEvidence, SettledNow
  <2> QED
    BY <2>1 DEF VerdictHasEvidence
<1>2. WindowDays \in Horizons /\ v \in Processes
  BY OutcomeAssumption DEF Processes
<1>3. PICK k \in DOMAIN mine[v].snap :
        mine[v].snap[k][1] = <<a, WindowDays>> /\ snap'[a][WindowDays] = mine[v].snap[k][2]
  <2>1. <<a, WindowDays>> \in Keys(mine[v].snap)
    BY <1>1 DEF HasEvidence
  <2> QED
    BY <1>2, <2>1, CommitRows
<1>4. snap'[a][WindowDays].status = "COMPLETE"
  BY <1>1, <1>3 DEF HasEvidence
<1>5. SettledNow(a, snap'[a][WindowDays].outcome)
  <2>1. StagedIsSettled(v)
    BY DEF ScoreInv
  <2> HIDE DEF SettledNow
  <2> QED
    BY <1>3, <1>4, <2>1 DEF StagedIsSettled
<1>6. a \notin restated => \A x, y : SettledNow(a, x) /\ SettledNow(a, y) => x = y
  BY <1>2, VerdictIsSettled DEF SettledNow
<1>7. a \notin restated => snap'[a][WindowDays].outcome = o
  <2> HIDE DEF SettledNow
  <2> QED
    BY <1>1, <1>5, <1>6
<1>9. \E e \in events' : e[1] = a /\ e[2] = "verification.result"
  <2>1. PICK j \in DOMAIN mine[v].events :
          mine[v].events[j] = <<a, "verification.result", o>>
    BY <1>1
  <2>2. mine[v].events[j][1] = a /\ mine[v].events[j][2] = "verification.result"
    BY <2>1
  <2> QED
    BY <1>2, <2>2, CommitEvents
<1>8. ASSUME a \notin restated PROVE <<a, "verification.result", o>> \in events'
  <2>1. PICK j \in DOMAIN mine[v].events :
          mine[v].events[j] = <<a, "verification.result", o>>
    BY <1>1
  <2>2. CASE mine[v].events[j] \in events'
    BY <2>1, <2>2
  <2>3. ASSUME NEW x \in events, x[1] = a, x[2] = "verification.result"
        PROVE  <<a, "verification.result", o>> \in events'
    <3>1. x \in Event
      BY DEF OutcomeInv, Tables
    <3>2. x[3] \in Outcomes /\ x = <<a, "verification.result", x[3]>>
      BY <2>3, <3>1 DEF Event
    <3>3. StoredIsSettled
      BY DEF ScoreInv
    <3> HIDE DEF SettledNow
    <3>4. SettledNow(a, x[3])
      BY <3>2, <3>3 DEF StoredIsSettled
    <3>5. x[3] = o
      BY <1>1, <1>6, <1>8, <3>4
    <3> QED
      BY <1>2, <3>2, <3>5, CommitEvents
  <2> QED
    BY <1>2, <2>1, <2>2, <2>3, CommitEvents
<1> QED
  BY <1>4, <1>7, <1>8, <1>9 DEF Verdict

LEMMA ScoreCommitStep ==
  ASSUME OutcomeInv, ScoreInv, NEW p \in Processes, Commit(p)
  PROVE  ScoreInv'
<1>1. /\ pc'[p] = "idle" /\ mine'[p] = NoWrites /\ UNCHANGED <<through, mart, restated>>
      /\ \A q \in Processes \ {p} : pc'[q] = pc[q] /\ due'[q] = due[q]
                                    /\ found'[q] = found[q] /\ mine'[q] = mine[q]
  BY CommitLocals DEF worldVars
<1>2. \A a, o : SettledNow(a, o)' = SettledNow(a, o)
  BY <1>1 DEF SettledNow
<1>3. World'
  BY <1>1 DEF ScoreInv, World
<1>4. WindowDays \in Horizons /\ StoredIsSettled
  BY OutcomeAssumption DEF ScoreInv
<1>5. CASE p \in Operators
  <2>1. OperatorAt(p)
    BY <1>5 DEF OutcomeInv, Places
  <2>2. DOMAIN mine[p].snap = {}
    <3>1. DOMAIN <<>> = {}
      BY SMT
    <3> QED
      BY <2>1, <3>1 DEF OperatorAt
  <2>3. ASSUME NEW a \in Actions PROVE snap'[a][WindowDays] = snap[a][WindowDays]
    <3>1. \/ snap'[a][WindowDays] = snap[a][WindowDays]
          \/ \E i \in DOMAIN mine[p].snap :
                /\ mine[p].snap[i][1] = <<a, WindowDays>>
                /\ snap'[a][WindowDays] = mine[p].snap[i][2]
      BY <1>4, CommitRows
    <3> QED
      BY <2>2, <3>1
  <2>4. \A a \in Actions : Verdict(a)' = Verdict(a)
    BY <2>3 DEF Verdict
  <2>5. \A a \in Actions, o \in Outcomes :
          <<a, "verification.result", o>> \in events' => <<a, "verification.result", o>> \in events
    <3> SUFFICES ASSUME NEW a \in Actions, NEW o \in Outcomes,
                        <<a, "verification.result", o>> \in events'
                 PROVE  <<a, "verification.result", o>> \in events
      OBVIOUS
    <3>1. \A j \in DOMAIN mine[p].events : mine[p].events[j] # <<a, "verification.result", o>>
      BY <2>1 DEF OperatorAt
    <3> QED
      BY <3>1, CommitEvents
  <2>6. StoredIsSettled'
    <3> HIDE DEF SettledNow, Verdict
    <3> QED
      BY <1>2, <1>4, <2>4, <2>5 DEF StoredIsSettled
  <2>7. ScorecardAgrees'
    <3> SUFFICES ASSUME NEW a \in Actions, action'[a].status = "verified"
                 PROVE  /\ Verdict(a)'.status = "COMPLETE"
                        /\ \E e \in events' : e[1] = a /\ e[2] = "verification.result"
                        /\ a \notin restated =>
                              /\ action'[a].outcome = Verdict(a)'.outcome
                              /\ <<a, "verification.result", action'[a].outcome>> \in events'
      BY <1>1 DEF ScorecardAgrees
    <3>1. action'[a] = action[a]
      BY <2>1, CommitRows DEF OperatorAt
    <3> HIDE DEF Verdict
    <3>2. /\ Verdict(a).status = "COMPLETE"
          /\ \E e \in events : e[1] = a /\ e[2] = "verification.result"
          /\ a \notin restated =>
                /\ action[a].outcome = Verdict(a).outcome
                /\ <<a, "verification.result", action[a].outcome>> \in events
      BY <3>1 DEF ScoreInv, ScorecardAgrees
    <3> QED
      BY <2>4, <3>1, <3>2, CommitEvents
  <2>8. ASSUME NEW v \in Verifiers
        PROVE  StagedIsSettled(v)' /\ LeftIsUnwritten(v)' /\ VerdictHasEvidence(v)'
    <3>1. v \in Processes \ {p}
      BY <1>5, OutcomeAssumption DEF Processes
    <3>2. pc'[v] = pc[v] /\ due'[v] = due[v] /\ found'[v] = found[v] /\ mine'[v] = mine[v]
      BY <1>1, <3>1
    <3>3. StagedIsSettled(v) /\ LeftIsUnwritten(v) /\ VerdictHasEvidence(v)
      BY DEF ScoreInv
    <3> QED
      BY <1>1, <3>2, <3>3, EvidenceStays
  <2> QED
    BY <1>3, <2>6, <2>7, <2>8 DEF ScoreInv
<1>6. CASE p \in Verifiers
  <2>1. StagedIsSettled(p)
    BY <1>6 DEF ScoreInv
  <2>2. StoredIsSettled'
    <3> HIDE DEF SettledNow
    <3>1. ASSUME NEW a \in Actions, snap'[a][WindowDays].status = "COMPLETE"
          PROVE  SettledNow(a, snap'[a][WindowDays].outcome)
      <4>1. \/ snap'[a][WindowDays] = snap[a][WindowDays]
            \/ \E i \in DOMAIN mine[p].snap :
                  /\ mine[p].snap[i][1] = <<a, WindowDays>>
                  /\ snap'[a][WindowDays] = mine[p].snap[i][2]
        BY <1>4, CommitRows
      <4> QED
        BY <1>4, <2>1, <3>1, <4>1 DEF StoredIsSettled, StagedIsSettled, Verdict
    <3>2. ASSUME NEW a \in Actions, NEW o \in Outcomes,
                 <<a, "verification.result", o>> \in events'
          PROVE  SettledNow(a, o)
      <4>1. \/ <<a, "verification.result", o>> \in events
            \/ \E j \in DOMAIN mine[p].events :
                  mine[p].events[j] = <<a, "verification.result", o>>
        BY <3>2, CommitEvents
      <4> QED
        BY <1>4, <2>1, <4>1 DEF StoredIsSettled, StagedIsSettled
    <3> QED
      BY <1>2, <3>1, <3>2 DEF StoredIsSettled, Verdict
  <2>3. ScorecardAgrees'
    <3> SUFFICES ASSUME NEW a \in Actions, action'[a].status = "verified"
                 PROVE  /\ Verdict(a)'.status = "COMPLETE"
                        /\ \E e \in events' : e[1] = a /\ e[2] = "verification.result"
                        /\ a \notin restated =>
                              /\ action'[a].outcome = Verdict(a)'.outcome
                              /\ <<a, "verification.result", action'[a].outcome>> \in events'
      BY <1>1 DEF ScorecardAgrees
    <3>1. CASE action'[a] = action[a]
      <4>1. /\ snap[a][WindowDays].status = "COMPLETE"
            /\ \E e \in events : e[1] = a /\ e[2] = "verification.result"
            /\ a \notin restated =>
                  /\ action[a].outcome = snap[a][WindowDays].outcome
                  /\ <<a, "verification.result", action[a].outcome>> \in events
        BY <3>1 DEF ScoreInv, ScorecardAgrees, Verdict
      <4>2. snap'[a][WindowDays] = snap[a][WindowDays]
        <5>1. StagedKeepsFinal
          BY DEF OutcomeInv
        <5>2. \/ snap'[a][WindowDays] = snap[a][WindowDays]
              \/ \E i \in DOMAIN mine[p].snap :
                    /\ mine[p].snap[i][1] = <<a, WindowDays>>
                    /\ snap'[a][WindowDays] = mine[p].snap[i][2]
          BY <1>4, CommitRows
        <5> QED
          BY <1>4, <4>1, <5>1, <5>2 DEF StagedKeepsFinal
      <4> QED
        BY <3>1, <4>1, <4>2, CommitEvents DEF Verdict
    <3>2. ASSUME NEW i \in DOMAIN mine[p].action,
                 mine[p].action[i][1] = a, action'[a] = mine[p].action[i][2]
          PROVE  /\ Verdict(a)'.status = "COMPLETE"
                 /\ \E e \in events' : e[1] = a /\ e[2] = "verification.result"
                 /\ a \notin restated =>
                       /\ action'[a].outcome = Verdict(a)'.outcome
                       /\ <<a, "verification.result", action'[a].outcome>> \in events'
      <4> DEFINE o == action'[a].outcome
      <4>1. o \in Outcomes
        <5>1. HasEvidence(p, a) /\ \E j \in DOMAIN mine[p].events :
                mine[p].events[j] = <<a, "verification.result", o>>
          BY <1>6, <3>2 DEF ScoreInv, VerdictHasEvidence
        <5>2. PICK j \in DOMAIN mine[p].events :
                mine[p].events[j] = <<a, "verification.result", o>>
          BY <5>1
        <5>3. mine[p].events[j] \in Event
          <6>1. mine[p] \in Writes
            BY DEF OutcomeInv, Locals
          <6>2. mine[p].events \in Seq(Event)
            BY <6>1 DEF Writes
          <6> QED
            BY <6>2
        <5> HIDE DEF o
        <5> QED
          BY <5>2, <5>3 DEF Event
      <4> HIDE DEF o
      <4>2. mine[p].action[i][2].outcome = o
        BY <3>2 DEF o
      <4>3. /\ Verdict(a)'.status = "COMPLETE"
            /\ \E e \in events' : e[1] = a /\ e[2] = "verification.result"
            /\ a \notin restated => /\ Verdict(a)'.outcome = o
                                   /\ <<a, "verification.result", o>> \in events'
        BY <1>6, <2>2, <3>2, <4>1, <4>2, CommitScore
      <4> QED
        BY <4>3 DEF o
    <3> QED
      BY <3>1, <3>2, CommitRows
  <2>4. ASSUME NEW v \in Verifiers
        PROVE  StagedIsSettled(v)' /\ LeftIsUnwritten(v)' /\ VerdictHasEvidence(v)'
    <3>1. CASE v = p
      BY <1>1, <3>1, NothingToSettle
    <3>2. CASE v # p
      <4>1. v \in Processes \ {p}
        BY <3>2 DEF Processes
      <4>2. pc'[v] = pc[v] /\ due'[v] = due[v] /\ found'[v] = found[v] /\ mine'[v] = mine[v]
        BY <1>1, <4>1
      <4>3. StagedIsSettled(v) /\ LeftIsUnwritten(v) /\ VerdictHasEvidence(v)
        BY DEF ScoreInv
      <4> QED
        BY <1>1, <4>2, <4>3, EvidenceStays
    <3> QED
      BY <3>1, <3>2
  <2> QED
    BY <1>3, <2>2, <2>3, <2>4 DEF ScoreInv
<1> QED
  BY <1>5, <1>6 DEF Processes

LEMMA ScoreLostStep ==
  ASSUME OutcomeInv, ScoreInv, NEW p \in Processes, Lost(p),
         UNCHANGED <<dbVars, through, mart, restated>>
  PROVE  ScoreInv'
<1>1. /\ UNCHANGED <<dbVars, through, mart, restated>>
      /\ pc' = [pc EXCEPT ![p] = "idle"] /\ due' = [due EXCEPT ![p] = {}]
      /\ found' = [found EXCEPT ![p] = None] /\ mine' = [mine EXCEPT ![p] = NoWrites]
  BY DEF Lost
<1>2. /\ pc'[p] = "idle" /\ mine'[p] = NoWrites
      /\ \A q \in Processes \ {p} : pc'[q] = pc[q] /\ due'[q] = due[q]
                                    /\ found'[q] = found[q] /\ mine'[q] = mine[q]
  BY <1>1 DEF OutcomeInv, Locals
<1> QED
  BY <1>1, <1>2, NothingToSettle, ScoreLocalStep

\* Days pass, marts are rebuilt, or nothing happens: what follows from settled
\* windows still does, or their rows were changed.
LEMMA ScoreQuietStep ==
  ASSUME OutcomeInv, ScoreInv, UNCHANGED <<dbVars, pc, due, found, mine>>,
         mart' \in Histories, through' \in Int, through <= through', restated \subseteq restated',
         \A a \in Actions : Judgeable(a, WindowDays) /\ a \notin restated'
            => \A d \in Days : d <= through => mart'[a][d] = mart[a][d]
  PROVE  ScoreInv'
<1>1. World /\ WindowDays \in Horizons
  BY OutcomeAssumption DEF ScoreInv
<1>2. ASSUME NEW a \in Actions, NEW o, SettledNow(a, o) PROVE SettledNow(a, o)'
  <2> SUFFICES ASSUME a \notin restated' PROVE Settled(through', mart', a, WindowDays, o)
    BY DEF SettledNow
  <2>1. Settled(through, mart, a, WindowDays, o)
    BY <1>2 DEF SettledNow
  <2>2. Judgeable(a, WindowDays)
    <3>1. /\ Before(a, WindowDays) = Over(through, mart[a], AppliedOn[a] - WindowDays, AppliedOn[a])
          /\ After(a, WindowDays) = Over(through, mart[a], AppliedOn[a], AppliedOn[a] + WindowDays)
      BY WindowsAreOver DEF Before, After
    <3> QED
      BY <2>1, <3>1, Zenon DEF Settled, Judgeable
  <2>3. \A d \in Days : d <= through => mart'[a][d] = mart[a][d]
    BY <2>2
  <2> QED
    BY <1>1, <2>1, <2>3, SettledStays DEF World
<1>3. World'
  BY <1>1 DEF World
<1> HIDE DEF SettledNow
<1>4. StoredIsSettled'
  BY <1>2 DEF ScoreInv, StoredIsSettled, Verdict, dbVars
<1>5. ScorecardAgrees'
  <2>1. \A a : Verdict(a)' = Verdict(a)
    BY DEF Verdict, dbVars
  <2> HIDE DEF Verdict
  <2> QED
    BY <2>1 DEF ScoreInv, ScorecardAgrees, dbVars
<1>6. ASSUME NEW v \in Verifiers
      PROVE  StagedIsSettled(v)' /\ LeftIsUnwritten(v)' /\ VerdictHasEvidence(v)'
  <2>1. Current(v)' = Current(v) /\ v \in Processes
    BY CurrentStays DEF Processes
  <2>2. StagedIsSettled(v) /\ LeftIsUnwritten(v) /\ VerdictHasEvidence(v)
    BY DEF ScoreInv
  <2>3. pc[v] \in {"upsert", "update"} => Current(v).act \in Actions
    <3>1. VerifierAt(v)
      BY DEF OutcomeInv, Places
    <3> QED
      BY <3>1, CurrentPair DEF VerifierAt
  <2>4. \A i \in DOMAIN mine[v].action : mine[v].action[i][1] \in Actions
    <3>1. mine[v] \in Writes
      BY <2>1 DEF OutcomeInv, Locals
    <3>2. mine[v].action \in Seq(StagedAction)
      BY <3>1 DEF Writes
    <3>3. \A i \in DOMAIN mine[v].action : mine[v].action[i] \in StagedAction
      BY <3>2
    <3> QED
      BY <3>3 DEF StagedAction
  <2>5. StagedIsSettled(v)'
    BY <1>2, <2>1, <2>2, <2>3 DEF StagedIsSettled
  <2>6. LeftIsUnwritten(v)'
    BY <2>1, <2>2 DEF LeftIsUnwritten, Keys
  <2>7. \A b : HasEvidence(v, b)' = HasEvidence(v, b)
    BY DEF HasEvidence, Keys
  <2>8. VerdictHasEvidence(v)'
    <3> HIDE DEF HasEvidence
    <3> QED
      BY <1>2, <2>1, <2>2, <2>4, <2>7 DEF VerdictHasEvidence
  <2> QED
    BY <2>5, <2>6, <2>8
<1> QED
  BY <1>3, <1>4, <1>5, <1>6 DEF ScoreInv

LEMMA ScoreInit == Init => ScoreInv
<1> SUFFICES ASSUME Init PROVE ScoreInv
  OBVIOUS
<1>1. World
  <2> DEFINE S == {AppliedOn[a] : a \in Actions}
  <2>1. MaxDay \in Nat /\ S \in SUBSET (0 .. MaxDay) /\ S # {}
    BY OutcomeAssumption DEF Days
  <2> HIDE DEF S
  <2>2. Max(S) \in 0 .. MaxDay
    BY <2>1, MaxOf
  <2>3. today = Max(S) + 1 /\ through = today - 2 /\ mart \in Histories
    BY DEF Init, S
  <2> QED
    BY <2>1, <2>2, <2>3 DEF World
<1>2. \A p \in Processes : pc[p] = "idle" /\ due[p] = {} /\ mine[p] = NoWrites
  BY DEF Init
<1>3. \A a \in Actions : Verdict(a) = None /\ action[a].status = "applied"
  BY OutcomeAssumption DEF Init, Verdict
<1>4. StoredIsSettled /\ ScorecardAgrees
  <2>1. events = {}
    BY DEF Init
  <2> HIDE DEF SettledNow, Verdict
  <2> QED
    BY <1>3, <2>1 DEF StoredIsSettled, ScorecardAgrees, None
<1>5. \A v \in Verifiers : StagedIsSettled(v) /\ LeftIsUnwritten(v) /\ VerdictHasEvidence(v)
  BY <1>2, NothingStaged DEF StagedIsSettled, LeftIsUnwritten, VerdictHasEvidence, Processes
<1> QED
  BY <1>1, <1>4, <1>5 DEF ScoreInv

LEMMA ScoreStep ==
  ASSUME OutcomeInv, ScoreInv, [Next]_vars
  PROVE  ScoreInv'
<1>1. World
  BY DEF ScoreInv
<1>2. CASE NextDay
  BY <1>1, <1>2, ScoreQuietStep DEF NextDay, World
<1>3. CASE RefreshMart
  <2>1. /\ mart' \in Histories /\ through' \in {through, through + 1}
        /\ UNCHANGED <<dbVars, pc, due, found, mine>>
    BY <1>3 DEF RefreshMart
  <2>2. through' \in Int /\ through <= through'
    BY <1>1, <2>1 DEF World
  <2>3. /\ restated \subseteq restated'
        /\ \A a \in Actions : Judgeable(a, WindowDays) /\ a \notin restated'
             => \A d \in Days : d <= through => mart'[a][d] = mart[a][d]
    <3> HIDE DEF Judgeable
    <3> QED
      BY <1>3 DEF RefreshMart
  <2> QED
    BY <2>1, <2>2, <2>3, ScoreQuietStep
<1>4. ASSUME NEW v \in Verifiers, Verify(v) PROVE ScoreInv'
  <2>1. CASE ReadWindows(v) /\ Lost(v)
    BY <2>1, ScoreLostStep DEF ReadWindows, worldVars, Processes
  <2> QED
    BY <1>4, <2>1, ScoreFetchStep, ScoreReadStep, ScoreHorizonStep, ScoreVerdictStep,
       ScoreActionStep, ScoreCommitStep DEF Verify, Processes
<1>5. ASSUME NEW o \in Operators, Rollback(o) PROVE ScoreInv'
  <2>1. CASE Commit(o)
    BY <2>1, ScoreCommitStep DEF Processes
  <2>2. CASE RequestRollback(o) \/ CallRollback(o) \/ RollbackAction(o)
    <3>1. UNCHANGED <<dbVars, through, mart, restated>>
      BY <2>2 DEF RequestRollback, CallRollback, RollbackAction, worldVars
    <3>2. \A q \in Processes \ {o} : pc'[q] = pc[q] /\ due'[q] = due[q]
                                     /\ found'[q] = found[q] /\ mine'[q] = mine[q]
      <4>1. Locals
        BY DEF OutcomeInv
      <4>2. CASE RequestRollback(o)
        BY <4>1, <4>2 DEF RequestRollback, Locals
      <4>3. CASE CallRollback(o)
        BY <4>1, <4>3 DEF CallRollback, Locals
      <4>4. CASE RollbackAction(o)
        BY <4>1, <4>4 DEF RollbackAction, Locals
      <4> QED
        BY <2>2, <4>2, <4>3, <4>4
    <3> QED
      BY <3>1, <3>2, ScoreOperatorStep
  <2> QED
    BY <1>5, <2>1, <2>2 DEF Rollback
<1>6. ASSUME NEW p \in Processes, Abort(p) PROVE ScoreInv'
  BY <1>6, ScoreLostStep DEF Abort, worldVars
<1>7. CASE UNCHANGED vars
  BY <1>1, <1>7, ScoreQuietStep DEF vars, worldVars, World
<1> QED
  BY <1>2, <1>3, <1>4, <1>5, <1>6, <1>7 DEF Next

\* A verified action has its T+7 evidence and its result in the tables, and
\* they tell the same outcome unless rows already judged were changed: for any
\* number of verifiers and rollbacks and any rebuilding of the marts (run_once,
\* verify_horizon, verify_action).
THEOREM ScorecardAgreesHolds == Spec => []ScorecardAgrees
<1>1. ScoreInv => ScorecardAgrees
  BY DEF ScoreInv
<1>2. OutcomeInv /\ ScoreInv /\ [Next]_vars => ScoreInv'
  BY ScoreStep
<1> QED
  BY <1>1, <1>2, ScoreInit, OutcomeInvHolds, PTL DEF Spec
=============================================================================
