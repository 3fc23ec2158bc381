------------------------ MODULE AdaptThresholdProofs ------------------------
(***************************************************************************)
(* Proofs about AdaptThreshold, for every number of grey values and every  *)
(* size of the sample.                                                     *)
(***************************************************************************)
EXTENDS AdaptThreshold, WellFoundedInduction, TLAPS

(* Sums over the levels.                                                    *)

\* A set of naturals that is not empty has a least element.
LEMMA LeastNatural ==
  ASSUME NEW S \in SUBSET Nat, S # {}
  PROVE  \E x \in S : \A y \in S : x <= y
<1> DEFINE R == OpToRel(<, Nat)
<1>1. IsWellFoundedOn(R, Nat)
  BY NatLessThanWellFounded
<1>2. PICK x \in S : \A y \in S : ~ (<<y, x>> \in R)
  <2> HIDE DEF R
  <2> QED
    BY <1>1, WFMin
<1>3. \A y \in S : ~ (y < x)
  BY <1>2 DEF OpToRel
<1> QED
  BY <1>3

\* f sums up v, level by level, as CountUpTo and SumUpTo do.
Accumulates(f, v) ==
  /\ f \in [Grays -> Nat]
  /\ \A g \in Grays : f[g] = v[g] + IF g = 0 THEN 0 ELSE f[g - 1]

\* The levels.
LEMMA Levels ==
  /\ 0 \in Grays /\ GrayScale - 1 \in Grays
  /\ \A g \in Grays : g \in Nat /\ (g # 0 => g - 1 \in Grays)
  /\ \A g \in Grays : \A h \in Nat : h <= g => h \in Grays
  BY ThresholdAssumption DEF Grays

\* The sums exist.
LEMMA SumsExist ==
  ASSUME NEW v \in [Grays -> Nat]
  PROVE  \E f : Accumulates(f, v)
<1> DEFINE Up(f, k) == /\ f \in [0 .. k -> Nat]
                       /\ \A g \in 0 .. k : f[g] = v[g] + IF g = 0 THEN 0 ELSE f[g - 1]
           T == {k \in Grays : ~ \E f : Up(f, k)}
<1>1. T = {}
  <2> SUFFICES ASSUME T # {} PROVE FALSE
    OBVIOUS
  <2>1. T \in SUBSET Nat
    BY Levels
  <2>2. PICK k \in T : \A y \in T : k <= y
    <3> HIDE DEF T
    <3> QED
      BY <2>1, LeastNatural
  <2>3. k \in Grays /\ k \in Nat /\ v[k] \in Nat
    BY <2>1, <2>2
  <2>4. CASE k = 0
    <3>1. Up([x \in 0 .. 0 |-> v[0]], 0)
      BY <2>3, <2>4
    <3> QED
      BY <2>4, <3>1
  <2>5. CASE k # 0
    <3>1. k - 1 \in Grays /\ ~(k <= k - 1)
      BY <2>3, <2>5, Levels
    <3>2. PICK f : Up(f, k - 1)
      BY <2>2, <3>1
    <3> DEFINE e == [x \in 0 .. k |-> IF x = k THEN v[k] + f[k - 1] ELSE f[x]]
    <3>3. f[k - 1] \in Nat /\ \A x \in 0 .. k - 1 : f[x] \in Nat
      BY <2>3, <2>5, <3>2
    <3>4. e \in [0 .. k -> Nat]
      BY <2>3, <3>3
    <3>5. ASSUME NEW g \in 0 .. k
          PROVE  e[g] = v[g] + IF g = 0 THEN 0 ELSE e[g - 1]
      <4>1. CASE g = k
        <5>1. e[g - 1] = f[k - 1]
          BY <2>3, <2>5, <4>1
        <5> QED
          BY <2>3, <2>5, <4>1, <5>1
      <4>2. CASE g # k
        <5>1. g \in 0 .. k - 1
          BY <2>3, <4>2
        <5>2. e[g] = f[g] /\ (g # 0 => e[g - 1] = f[g - 1])
          BY <2>3, <5>1
        <5> QED
          BY <3>2, <5>1, <5>2
      <4> QED
        BY <4>1, <4>2
    <3>6. Up(e, k)
      BY <3>4, <3>5
    <3> QED
      BY <3>6
  <2> QED
    BY <2>4, <2>5
<1>2. PICK f : Up(f, GrayScale - 1)
  BY <1>1, Levels
<1> QED
  BY <1>2 DEF Accumulates, Grays

\* There is only one such sum.
LEMMA SumsUnique ==
  ASSUME NEW v \in [Grays -> Nat], NEW f, Accumulates(f, v),
         NEW h, h = [g \in Grays |-> v[g] + IF g = 0 THEN 0 ELSE h[g - 1]]
  PROVE  f = h
<1>0. \A g \in Grays : h[g] = v[g] + IF g = 0 THEN 0 ELSE h[g - 1]
  OBVIOUS
<1>a. h = [g \in Grays |-> h[g]]
  OBVIOUS
<1> DEFINE T == {g \in Grays : f[g] # h[g]}
<1>1. T = {}
  <2> SUFFICES ASSUME T # {} PROVE FALSE
    OBVIOUS
  <2>1. T \in SUBSET Nat
    BY Levels
  <2>2. PICK g \in T : \A y \in T : g <= y
    <3> HIDE DEF T
    <3> QED
      BY <2>1, LeastNatural
  <2>3. g \in Grays /\ g \in Nat /\ f[g] # h[g]
    BY <2>1, <2>2
  <2>4. CASE g = 0
    BY <1>0, <2>3, <2>4 DEF Accumulates
  <2>5. CASE g # 0
    <3>1. g - 1 \in Grays /\ ~(g <= g - 1)
      BY <2>3, <2>5, Levels
    <3>2. f[g - 1] = h[g - 1]
      BY <2>2, <3>1
    <3> QED
      BY <1>0, <2>3, <2>5, <3>2 DEF Accumulates
  <2> QED
    BY <2>4, <2>5
<1> QED
  BY <1>1, <1>a DEF Accumulates

\* Two functions that accumulate the same levels are the same function.
LEMMA SumsSame ==
  ASSUME NEW v \in [Grays -> Nat], NEW f, NEW h, Accumulates(f, v), Accumulates(h, v)
  PROVE  f = h
<1>1. h = [g \in Grays |-> v[g] + IF g = 0 THEN 0 ELSE h[g - 1]]
  BY DEF Accumulates
<1> QED
  BY <1>1, SumsUnique

\* The sums never fall, and they stay where nothing is added.
LEMMA SumsGrow ==
  ASSUME NEW v \in [Grays -> Nat], NEW f, Accumulates(f, v), NEW a \in Grays
  PROVE  /\ \A b \in Grays : a <= b => f[a] <= f[b]
         /\ \A b \in Grays : a <= b /\ (\A g \in Grays : a < g => v[g] = 0) => f[a] = f[b]
<1> DEFINE flat == \A g \in Grays : a < g => v[g] = 0
           T == {b \in Grays : a <= b /\ ~(f[a] <= f[b] /\ (flat => f[a] = f[b]))}
<1>1. T = {}
  <2> SUFFICES ASSUME T # {} PROVE FALSE
    OBVIOUS
  <2>1. T \in SUBSET Nat
    BY Levels
  <2>2. PICK b \in T : \A y \in T : b <= y
    <3> HIDE DEF T
    <3> QED
      BY <2>1, LeastNatural
  <2>3. b \in Grays /\ a <= b /\ a \in Nat /\ b \in Nat /\ f[a] \in Nat /\ f[b] \in Nat
    BY <2>1, <2>2, Levels DEF Accumulates
  <2>4. a # b
    BY <2>2, <2>3
  <2>5. b - 1 \in Grays /\ a <= b - 1 /\ ~(b <= b - 1) /\ b # 0
    BY <2>3, <2>4, Levels
  <2>6. f[a] <= f[b - 1] /\ (flat => f[a] = f[b - 1])
    <3> HIDE DEF flat
    <3> QED
      BY <2>2, <2>5
  <2>7. f[b] = v[b] + f[b - 1] /\ v[b] \in Nat /\ f[b - 1] \in Nat
    BY <2>3, <2>5 DEF Accumulates
  <2>8. flat => v[b] = 0
    BY <2>3, <2>4
  <2>9. f[a] <= f[b] /\ (flat => f[a] = f[b])
    <3> HIDE DEF flat
    <3> QED
      BY <2>3, <2>6, <2>7, <2>8
  <2> QED
    BY <2>2, <2>9
<1> HIDE DEF flat
<1>2. \A b \in Grays : a <= b => f[a] <= f[b] /\ (flat => f[a] = f[b])
  BY <1>1
<1> QED
  BY <1>2 DEF flat

\* What is added to one level is added to all sums from there on.
LEMMA SumsOfOneMore ==
  ASSUME NEW v \in [Grays -> Nat], NEW f, Accumulates(f, v), NEW a \in Grays, NEW d \in Nat,
         NEW w, w = [v EXCEPT ![a] = v[a] + d]
  PROVE  Accumulates([h \in Grays |-> IF h >= a THEN f[h] + d ELSE f[h]], w)
<1> DEFINE e == [h \in Grays |-> IF h >= a THEN f[h] + d ELSE f[h]]
<1>1. e \in [Grays -> Nat]
  BY DEF Accumulates
<1>2. ASSUME NEW g \in Grays PROVE e[g] = w[g] + IF g = 0 THEN 0 ELSE e[g - 1]
  <2>1. /\ f[g] = v[g] + IF g = 0 THEN 0 ELSE f[g - 1]
        /\ v[g] \in Nat /\ f[g] \in Nat /\ a \in Nat /\ g \in Nat
        /\ g # 0 => g - 1 \in Grays /\ f[g - 1] \in Nat
    BY Levels DEF Accumulates
  <2>2. CASE g = 0
    BY <2>1, <2>2
  <2>3. CASE g # 0
    <3>1. e[g - 1] = IF g - 1 >= a THEN f[g - 1] + d ELSE f[g - 1]
      BY <2>1, <2>3
    <3>2. e[g] = IF g >= a THEN f[g] + d ELSE f[g]
      OBVIOUS
    <3>3. w[g] = IF g = a THEN v[g] + d ELSE v[g]
      OBVIOUS
    <3> HIDE DEF e
    <3> QED
      BY <2>1, <2>3, <3>1, <3>2, <3>3
  <2> QED
    BY <2>2, <2>3
<1> QED
  BY <1>1, <1>2 DEF Accumulates

\* The reference sums of the histogram are such sums.
Weighted == [g \in Grays |-> g * pixelCount[g]]

Histogram == pixelCount \in [Grays -> Nat]

Sums ==
  /\ Weighted \in [Grays -> Nat]
  /\ Accumulates(CountUpTo, pixelCount) /\ Accumulates(SumUpTo, Weighted)

\* The recursive functions of the model do accumulate, as long as the histogram
\* counts pixels: their recursion has a solution, and CHOOSE finds it.
LEMMA UpTo == Histogram => Sums
<1> SUFFICES ASSUME pixelCount \in [Grays -> Nat] PROVE Sums
  BY DEF Histogram
<1>1. Weighted \in [Grays -> Nat]
  BY Levels DEF Weighted
<1>2. PICK f : Accumulates(f, pixelCount)
  BY SumsExist
<1>3. f = [g \in Grays |-> pixelCount[g] + IF g = 0 THEN 0 ELSE f[g - 1]]
  BY <1>2 DEF Accumulates
<1>4. CountUpTo = [g \in Grays |-> pixelCount[g] + IF g = 0 THEN 0 ELSE CountUpTo[g - 1]]
  BY <1>3 DEF CountUpTo
<1>5. CountUpTo = f
  BY <1>2, <1>4, SumsUnique
<1>6. PICK q : Accumulates(q, Weighted)
  BY <1>1, SumsExist
<1>7. q = [g \in Grays |-> g * pixelCount[g] + IF g = 0 THEN 0 ELSE q[g - 1]]
  BY <1>6 DEF Accumulates, Weighted
<1>8. SumUpTo = [g \in Grays |-> g * pixelCount[g] + IF g = 0 THEN 0 ELSE SumUpTo[g - 1]]
  BY <1>7 DEF SumUpTo
<1>9. SumUpTo = [g \in Grays |-> Weighted[g] + IF g = 0 THEN 0 ELSE SumUpTo[g - 1]]
  BY <1>8 DEF Weighted
<1>10. SumUpTo = q
  BY <1>1, <1>6, <1>9, SumsUnique
<1> QED
  BY <1>1, <1>2, <1>5, <1>6, <1>10 DEF Sums

\* So they are after a step.
LEMMA UpToNext == Histogram' => Sums'
  BY UpTo, PTL
-----------------------------------------------------------------------------
(* Comparing variances.                                                     *)

\* A fraction as the loop compares them.
Fractions == [num : Nat, den : Nat \ {0}]

\* Products keep the order, and a positive factor can be taken out.
LEMMA Products ==
  ASSUME NEW x \in Nat, NEW y \in Nat, NEW k \in Nat
  PROVE  /\ x * k \in Nat
         /\ x <= y => x * k <= y * k
         /\ k # 0 /\ x * k <= y * k => x <= y
  OBVIOUS

\* Not exceeding is transitive.
LEMMA ExceedsNot ==
  ASSUME NEW a \in Fractions, NEW b \in Fractions, NEW d \in Fractions,
         ~Exceeds(a, b), ~Exceeds(b, d)
  PROVE  ~Exceeds(a, d)
<1>1. /\ a.num \in Nat /\ b.num \in Nat /\ d.num \in Nat
      /\ a.den \in Nat /\ b.den \in Nat /\ d.den \in Nat /\ b.den # 0
  BY DEF Fractions
<1>2. ASSUME NEW an \in Nat, NEW bn \in Nat, NEW dn \in Nat,
             NEW ad \in Nat, NEW bd \in Nat, NEW dd \in Nat, bd # 0,
             an * bd <= bn * ad, bn * dd <= dn * bd
      PROVE  an * dd <= dn * ad
  <2>1. (an * bd) * dd <= (bn * ad) * dd
    BY <1>2, Products
  <2>2. (bn * dd) * ad <= (dn * bd) * ad
    BY <1>2, Products
  <2>3. (bn * ad) * dd = (bn * dd) * ad
    OBVIOUS
  <2>4. (an * bd) * dd = (an * dd) * bd /\ (dn * bd) * ad = (dn * ad) * bd
    OBVIOUS
  <2>5. an * dd \in Nat /\ dn * ad \in Nat /\ bn * ad \in Nat /\ bn * dd \in Nat
    OBVIOUS
  <2>6. (an * dd) * bd <= (dn * ad) * bd
    BY <2>1, <2>2, <2>3, <2>4, <2>5
  <2> QED
    BY <1>2, <2>5, <2>6, Products
<1>3. a.num * b.den <= b.num * a.den /\ b.num * d.den <= d.num * b.den
  <2>1. /\ a.num * b.den \in Nat /\ b.num * a.den \in Nat
        /\ b.num * d.den \in Nat /\ d.num * b.den \in Nat
    BY <1>1, Products
  <2> QED
    BY <2>1 DEF Exceeds
<1>4. a.num * d.den <= d.num * a.den
  BY <1>1, <1>2, <1>3
<1> QED
  BY <1>1, <1>4, Products DEF Exceeds

\* Of two fractions at most one exceeds the other, and what exceeds one fraction
\* exceeds all that do not.
LEMMA ExceedsStrictly ==
  ASSUME NEW a \in Fractions, NEW b \in Fractions, Exceeds(a, b)
  PROVE  /\ ~Exceeds(b, a)
         /\ \A d \in Fractions : ~Exceeds(d, b) => Exceeds(a, d)
<1>1. /\ a.num \in Nat /\ b.num \in Nat /\ a.den \in Nat /\ b.den \in Nat
  BY DEF Fractions
<1>2. a.num * b.den \in Nat /\ b.num * a.den \in Nat
  BY <1>1, Products
<1>3. ~Exceeds(b, a)
  BY <1>2 DEF Exceeds
<1> QED
  BY <1>3, ExceedsNot

\* The mean is the truncated one.
LEMMA MeanIs ==
  ASSUME gray_sum \in Nat
  PROVE  Mean \in Nat /\ gray_sum < (Mean + 1) * pixelSum
  BY ThresholdAssumption DEF Mean

\* The variance between some pixels of the sample and the others is such a fraction.
LEMMA VarianceIs ==
  ASSUME gray_sum \in Nat, NEW count \in Nat, NEW sum \in Nat, 0 < count, count < pixelSum
  PROVE  /\ Variance(count, sum) \in Fractions
         /\ ~Exceeds(Variance(count, sum), [num |-> 0, den |-> 1]) => sum = count * Mean
         /\ ~Exceeds([num |-> 0, den |-> 1], Variance(count, sum))
<1> DEFINE x == sum - count * Mean
           y == pixelSum - count
<1>1. x \in Int /\ Mean \in Nat /\ y \in Nat /\ y # 0
  <2>1. Mean \in Nat /\ count * Mean \in Nat
    BY MeanIs
  <2> QED
    BY <2>1, ThresholdAssumption
<1>2. Variance(count, sum) = [num |-> x * x, den |-> count * y]
  BY DEF Variance
<1> HIDE DEF x, y
<1>3. x * x \in Nat /\ (x # 0 => x * x > 0)
  BY <1>1
<1>4. count * y \in Nat \ {0}
  BY <1>1
<1>5. x = 0 => sum = count * Mean
  <2>1. count * Mean \in Nat
    BY <1>1
  <2> QED
    BY <2>1 DEF x
<1>6. ~Exceeds(Variance(count, sum), [num |-> 0, den |-> 1]) => x = 0
  BY <1>1, <1>2, <1>3, <1>4 DEF Exceeds
<1>7. ~Exceeds([num |-> 0, den |-> 1], Variance(count, sum))
  BY <1>2, <1>3, <1>4 DEF Exceeds
<1> QED
  BY <1>2, <1>3, <1>4, <1>5, <1>6, <1>7 DEF Fractions
-----------------------------------------------------------------------------
(* The invariant.                                                           *)

Last == GrayScale - 1
Zero == [num |-> 0, den |-> 1]

\* The histogram is one of n pixels, whose values add up to gray_sum.
Sampled ==
  /\ n > 0 => Occurring # {}
  /\ \A g \in Grays : pixelCount[g] <= n
  /\ gray_sum <= n * Last
  /\ CountUpTo[Last] = n /\ SumUpTo[Last] = gray_sum
  /\ pc = "sample" <=> n < pixelSum
  /\ pc = "sample" => j = 0

\* What the loop has computed when it is at level k, with the sums count and sum,
\* the largest variance max, the threshold t and the program counter at.

\* It has summed up the levels below k, and nothing before the first pixel.
Position(k, count, sum, max, t, at) ==
  /\ count = IF k = 0 THEN 0 ELSE CountUpTo[k - 1]
  /\ sum = IF k = 0 THEN 0 ELSE SumUpTo[k - 1]
  /\ at = "levels" => k < GrayScale
  /\ t < k \/ t = 0
  /\ (\A g \in Occurring : g >= k) => count = 0 /\ sum = 0 /\ t = 0 /\ max = Zero

\* The levels that were judged.  max is the variance of the threshold, if that is
\* one of them, and is not exceeded by any; the variance has not fallen up to the
\* threshold, and nowhere as long as the loop goes on.
Past(k) == {g \in Inner : g < k}

Peak(k, max, t, at) ==
  /\ \A g \in Past(k) : ~Exceeds(VarianceAt(g), max)
  /\ at = "levels" => NeverFalls(Past(k))
  /\ NeverFalls({g \in Past(k) : g <= t})
  /\ t \in Past(k) =>
       /\ ~Exceeds(max, VarianceAt(t))
       /\ \A g \in Past(k) : g < t => Exceeds(VarianceAt(t), VarianceAt(g))
  /\ at = "done" => Inner = Past(k) \/ (\E h \in Past(k) : h = k - 1 /\ t < h)

\* What is known of a threshold at the brightest level, or below the darkest.
Whole(k, t, at) ==
  /\ t = Brightest => NeverFalls(Inner)
  /\ Darkest < k /\ t < Darkest => gray_sum < (Darkest + 1) * pixelSum
  /\ at = "done" => Darkest < k

Reached == Position(j, c, s, deltaMax, threshold, pc)
PeakSoFar == Peak(j, deltaMax, threshold, pc)
WholeSoFar == Whole(j, threshold, pc)

IInv == TypeOK /\ Sampled /\ Reached /\ (pc # "sample" => PeakSoFar /\ WholeSoFar)
-----------------------------------------------------------------------------
(* Sampling.                                                                *)

\* There is a brightest and a darkest level if any pixel was sampled.
Extreme ==
  /\ Occurring \subseteq Grays
  /\ Brightest \in Occurring /\ \A h \in Occurring : h <= Brightest
  /\ Darkest \in Occurring /\ \A h \in Occurring : h >= Darkest

\* The least and the greatest gray value that occurs are occurring ones.
LEMMA Extremes == Occurring # {} => Extreme
<1> SUFFICES ASSUME Occurring # {} PROVE Extreme
  OBVIOUS
<1>1. Occurring \subseteq Grays /\ Occurring \in SUBSET Nat
  BY Levels DEF Occurring
<1>2. \E g \in Occurring : \A h \in Occurring : h >= g
  <2>1. PICK g \in Occurring : \A h \in Occurring : g <= h
    BY <1>1, LeastNatural
  <2> QED
    BY <1>1, <2>1
<1>3. \E g \in Occurring : \A h \in Occurring : h <= g
  <2> DEFINE T == {Last - g : g \in Occurring}
  <2>1. \A g \in Occurring : Last - g \in Nat /\ g \in Nat /\ Last \in Nat
    BY <1>1, ThresholdAssumption DEF Grays, Last
  <2>2. T \in SUBSET Nat /\ T # {}
    BY <2>1
  <2>3. PICK t \in T : \A y \in T : t <= y
    <3> HIDE DEF T
    <3> QED
      BY <2>2, LeastNatural
  <2>4. PICK g \in Occurring : t = Last - g
    OBVIOUS
  <2>5. \A h \in Occurring : Last - g <= Last - h
    BY <2>3, <2>4
  <2> QED
    BY <2>1, <2>5
<1> QED
  BY <1>1, <1>2, <1>3 DEF Extreme, Brightest, Darkest

\* The same in the next state.
LEMMA ExtremesNext == (Occurring # {})' => Extreme'
  BY Extremes, PTL

\* The next pixel of the sample.
LEMMA SampleCounts ==
  ASSUME IInv, NEW g \in Grays, Sample(g)
  PROVE  /\ TypeOK' /\ Sampled' /\ j' = 0 /\ c' = 0 /\ s' = 0
         /\ threshold' = 0 /\ deltaMax' = Zero /\ pc' \in {"sample", "levels"}
         /\ (Occurring # {})'
<1>1. /\ TypeOK /\ Sampled /\ Reached /\ pc = "sample" /\ n < pixelSum /\ j = 0
  BY DEF IInv, Sample, Sampled
<1>2. c = 0 /\ s = 0 /\ threshold = 0 /\ deltaMax = Zero
  <2>1. \A h \in Occurring : h >= 0
    BY Levels DEF Occurring
  <2> QED
    BY <1>1, <2>1 DEF Reached, Position
<1>3. /\ pixelCount' = [pixelCount EXCEPT ![g] = pixelCount[g] + 1]
      /\ gray_sum' = gray_sum + g /\ n' = n + 1
      /\ pc' = IF n + 1 = pixelSum THEN "levels" ELSE "sample"
      /\ j' = j /\ c' = c /\ s' = s /\ deltaMax' = deltaMax /\ threshold' = threshold
  BY DEF Sample
<1>4. /\ Last \in Nat /\ pixelSum \in Nat /\ n \in Nat /\ gray_sum \in Nat /\ Last \in Grays
      /\ g \in Nat /\ g <= Last /\ n + 1 <= pixelSum
      /\ pixelCount \in [Grays -> Nat]
  BY <1>1, ThresholdAssumption DEF TypeOK, Last, Grays
<1>5. gray_sum' \in Nat /\ gray_sum' <= n' * Last /\ n' * Last <= pixelSum * Last
  <2>1. gray_sum <= n * Last /\ n * Last \in Nat
    BY <1>1, <1>4, Products DEF Sampled
  <2>2. (n + 1) * Last = n * Last + Last
    BY <1>4
  <2>3. (n + 1) * Last <= pixelSum * Last
    BY <1>4, Products
  <2> QED
    BY <1>3, <1>4, <2>1, <2>2, <2>3
<1>6. \A h \in Grays : pixelCount'[h] \in Nat /\ pixelCount'[h] <= n'
  <2> TAKE h \in Grays
  <2>1. pixelCount[h] \in Nat /\ pixelCount[h] <= n
    BY <1>1, <1>4 DEF Sampled
  <2>2. pixelCount'[h] = IF h = g THEN pixelCount[h] + 1 ELSE pixelCount[h]
    BY <1>3, <1>4
  <2> QED
    BY <1>3, <1>4, <2>1, <2>2
<1>7. pixelCount' = [h \in Grays |-> pixelCount'[h]]
  BY <1>3, <1>4
<1>8. Histogram'
  BY <1>6, <1>7 DEF Histogram
<1>9. TypeOK'
  <2>1. pixelCount' \in [Grays -> 0 .. pixelSum]
    BY <1>3, <1>4, <1>6, <1>7
  <2>2. gray_sum' \in 0 .. pixelSum * (GrayScale - 1)
    <3>1. n' * Last \in Nat /\ pixelSum * Last \in Nat
      BY <1>3, <1>4, Products
    <3> QED
      BY <1>5, <3>1 DEF Last
  <2>3. n' \in 0 .. pixelSum
    BY <1>3, <1>4
  <2>4. c' \in 0 .. pixelSum /\ s' \in 0 .. gray_sum' /\ j' \in 0 .. GrayScale
    BY <1>1, <1>2, <1>3, <1>4, <1>5, ThresholdAssumption
  <2> QED
    BY <1>1, <1>3, <2>1, <2>2, <2>3, <2>4 DEF TypeOK
<1>10. Sums /\ Sums'
  BY <1>4, <1>8, UpTo, UpToNext DEF Histogram
<1>11. CountUpTo'[Last] = n'
  <2> DEFINE e == [h \in Grays |-> IF h >= g THEN CountUpTo[h] + 1 ELSE CountUpTo[h]]
  <2>1. Accumulates(e, pixelCount')
    <3>1. Accumulates(CountUpTo, pixelCount) /\ 1 \in Nat
      BY <1>10 DEF Sums
    <3> QED
      BY <1>3, <1>4, <3>1, SumsOfOneMore
  <2>2. Accumulates(CountUpTo', pixelCount')
    BY <1>10 DEF Sums, Accumulates
  <2>3. CountUpTo' = e
    <3> HIDE DEF e
    <3> QED
      BY <1>8, <2>1, <2>2, SumsSame DEF Histogram
  <2>4. e[Last] = CountUpTo[Last] + 1
    BY <1>4
  <2> QED
    BY <1>1, <1>3, <2>3, <2>4 DEF Sampled
<1>12. SumUpTo'[Last] = gray_sum'
  <2> DEFINE e == [h \in Grays |-> IF h >= g THEN SumUpTo[h] + g ELSE SumUpTo[h]]
  <2>1. Weighted' = [Weighted EXCEPT ![g] = Weighted[g] + g]
    <3>1. \A h \in Grays : pixelCount'[h] = IF h = g THEN pixelCount[h] + 1 ELSE pixelCount[h]
      BY <1>3, <1>4
    <3>2. g * (pixelCount[g] + 1) = g * pixelCount[g] + g
      BY <1>4
    <3>3. Weighted' = [h \in Grays |-> h * pixelCount'[h]]
      BY DEF Weighted
    <3>4. \A h \in Grays : h * pixelCount'[h] =
            IF h = g THEN Weighted[g] + g ELSE Weighted[h]
      BY <3>1, <3>2 DEF Weighted
    <3>5. [Weighted EXCEPT ![g] = Weighted[g] + g] =
            [h \in Grays |-> IF h = g THEN Weighted[g] + g ELSE Weighted[h]]
      BY DEF Weighted
    <3> QED
      BY <3>3, <3>4, <3>5
  <2>2. Accumulates(e, Weighted')
    <3>1. Accumulates(SumUpTo, Weighted) /\ Weighted \in [Grays -> Nat]
      BY <1>10 DEF Sums
    <3> QED
      BY <1>4, <2>1, <3>1, SumsOfOneMore
  <2>3. Accumulates(SumUpTo', Weighted') /\ Weighted' \in [Grays -> Nat]
    BY <1>10 DEF Sums, Accumulates
  <2>4. SumUpTo' = e
    <3> HIDE DEF e
    <3> QED
      BY <2>2, <2>3, SumsSame
  <2>5. e[Last] = SumUpTo[Last] + g
    BY <1>4
  <2> QED
    BY <1>1, <1>3, <2>4, <2>5 DEF Sampled
<1>13. (Occurring # {})'
  <2>1. pixelCount'[g] > 0
    BY <1>3, <1>4
  <2> QED
    BY <2>1 DEF Occurring
<1>14. Sampled'
  <2>1. pc' = "sample" <=> n' < pixelSum
    BY <1>3, <1>4
  <2> QED
    BY <1>1, <1>3, <1>5, <1>6, <1>11, <1>12, <1>13, <2>1 DEF Sampled
<1> QED
  BY <1>1, <1>2, <1>3, <1>9, <1>13, <1>14
\* When the sample is complete no level is judged yet.
LEMMA SampleKeeps ==
  ASSUME IInv, NEW g \in Grays, Sample(g)
  PROVE  IInv'
<1>1. /\ TypeOK' /\ Sampled' /\ j' = 0 /\ c' = 0 /\ s' = 0
      /\ threshold' = 0 /\ deltaMax' = Zero /\ pc' \in {"sample", "levels"}
      /\ (Occurring # {})'
  BY SampleCounts
<1>2. Extreme'
  BY <1>1, ExtremesNext
<1>3. Occurring' \subseteq Nat
  BY Levels DEF Occurring
<1>4. Reached'
  BY <1>1, ThresholdAssumption DEF Reached, Position, Zero
<1>5. Past(0)' = {}
  <2>1. \A h \in Inner' : ~(h < 0)
    BY <1>3 DEF Inner
  <2>2. Past(0)' = {h \in Inner' : h < 0}
    BY DEF Past
  <2> QED
    BY <2>1, <2>2
<1>6. PeakSoFar'
  <2>1. NeverFalls(Past(0))'
    BY <1>5 DEF NeverFalls
  <2>2. NeverFalls({h \in Past(0) : h <= 0})'
    BY <1>5 DEF NeverFalls
  <2>3. Peak(0, Zero, 0, "levels")' /\ Peak(0, Zero, 0, "sample")'
    BY <1>5, <2>1, <2>2 DEF Peak
  <2> QED
    BY <1>1, <2>3 DEF PeakSoFar, Peak, Past, NeverFalls, VarianceAt, Variance, Mean, Zero
<1>7. WholeSoFar'
  <2>1. threshold' = Brightest' => Inner' = {}
    <3> SUFFICES ASSUME threshold' = Brightest', NEW h \in Occurring' PROVE h = Brightest'
      BY DEF Inner
    <3>1. h <= Brightest' /\ Brightest' = 0 /\ h \in Nat
      BY <1>1, <1>2, <1>3 DEF Extreme
    <3> QED
      BY <3>1
  <2>2. threshold' = Brightest' => NeverFalls(Inner)'
    BY <2>1 DEF NeverFalls
  <2>3. Darkest' \in Nat
    BY <1>2, <1>3 DEF Extreme
  <2>4. ~(Darkest' < j')
    BY <1>1, <2>3
  <2> QED
    BY <1>1, <2>2, <2>4 DEF WholeSoFar, Whole
<1> QED
  BY <1>1, <1>4, <1>6, <1>7 DEF IInv
-----------------------------------------------------------------------------
(* The levels.                                                              *)

\* The sums at a level, and which levels are below the brightest one.
LEMMA Histories ==
  ASSUME IInv, pc # "sample"
  PROVE  /\ Extreme /\ n = pixelSum /\ pixelSum \in Nat /\ gray_sum \in Nat
         /\ \A g \in Grays : /\ CountUpTo[g] \in 0 .. pixelSum /\ SumUpTo[g] \in 0 .. gray_sum
                             /\ pixelCount[g] \in Nat
                             /\ CountUpTo[g] = pixelCount[g] + IF g = 0 THEN 0 ELSE CountUpTo[g - 1]
                             /\ SumUpTo[g] = g * pixelCount[g] + IF g = 0 THEN 0 ELSE SumUpTo[g - 1]
         /\ \A g \in Occurring : CountUpTo[g] > 0 /\ (g \in Inner <=> CountUpTo[g] < pixelSum)
         /\ SumUpTo[Brightest] = gray_sum
<1>1. TypeOK /\ Sampled /\ pixelSum \in Nat /\ pixelSum > 0
  BY ThresholdAssumption DEF IInv
<1>2. n = pixelSum /\ gray_sum \in Nat /\ pixelCount \in [Grays -> Nat] /\ Last \in Grays
  BY <1>1, ThresholdAssumption DEF TypeOK, Sampled, Grays, Last
<1>3. Extreme
  BY <1>1, <1>2, Extremes DEF Sampled
<1>4. Sums
  BY <1>2, UpTo DEF Histogram
<1>5. /\ Accumulates(CountUpTo, pixelCount) /\ Accumulates(SumUpTo, Weighted)
      /\ Weighted \in [Grays -> Nat]
  BY <1>4 DEF Sums
<1>6. \A g \in Grays : g <= Last /\ g \in Nat
  BY ThresholdAssumption DEF Grays, Last
<1>7. CountUpTo[Last] = pixelSum /\ SumUpTo[Last] = gray_sum
  BY <1>1, <1>2 DEF Sampled
<1>8. ASSUME NEW g \in Grays
      PROVE  /\ CountUpTo[g] \in 0 .. pixelSum /\ SumUpTo[g] \in 0 .. gray_sum
             /\ pixelCount[g] \in Nat
             /\ CountUpTo[g] = pixelCount[g] + IF g = 0 THEN 0 ELSE CountUpTo[g - 1]
             /\ SumUpTo[g] = g * pixelCount[g] + IF g = 0 THEN 0 ELSE SumUpTo[g - 1]
  <2>1. CountUpTo[g] <= CountUpTo[Last] /\ SumUpTo[g] <= SumUpTo[Last]
    BY <1>2, <1>5, <1>6, SumsGrow
  <2>2. CountUpTo[g] \in Nat /\ SumUpTo[g] \in Nat
    BY <1>5 DEF Accumulates
  <2>3. Weighted[g] = g * pixelCount[g]
    BY DEF Weighted
  <2> QED
    BY <1>1, <1>2, <1>5, <1>7, <2>1, <2>2, <2>3 DEF Accumulates
<1>9. /\ Brightest \in Grays
      /\ \A g \in Grays : Brightest < g => pixelCount[g] = 0 /\ Weighted[g] = 0
  <2>1. Brightest \in Grays
    BY <1>3 DEF Extreme
  <2> SUFFICES ASSUME NEW g \in Grays, Brightest < g PROVE pixelCount[g] = 0 /\ Weighted[g] = 0
    BY <2>1
  <2>2. g \notin Occurring
    BY <1>3, <1>6, <2>1 DEF Extreme
  <2>3. pixelCount[g] = 0
    BY <1>2, <2>2 DEF Occurring
  <2> QED
    BY <1>6, <2>3 DEF Weighted
<1>10. CountUpTo[Brightest] = pixelSum /\ SumUpTo[Brightest] = gray_sum
  BY <1>2, <1>5, <1>6, <1>7, <1>9, SumsGrow
<1>11. ASSUME NEW g \in Occurring
       PROVE  CountUpTo[g] > 0 /\ (g \in Inner <=> CountUpTo[g] < pixelSum)
  <2>1. g \in Grays /\ pixelCount[g] \in Nat /\ pixelCount[g] > 0
    BY <1>2 DEF Occurring
  <2>2. CountUpTo[g] > 0
    <3>1. g # 0 => CountUpTo[g - 1] \in Nat
      BY <1>5, <2>1, Levels DEF Accumulates
    <3> QED
      BY <1>8, <2>1, <3>1
  <2>3. g # Brightest => CountUpTo[g] < pixelSum
    <3> SUFFICES ASSUME g # Brightest PROVE CountUpTo[g] < pixelSum
      OBVIOUS
    <3>1. g < Brightest /\ Brightest # 0 /\ Brightest - 1 \in Grays /\ g <= Brightest - 1
      BY <1>3, <1>6, <1>9, <2>1, Levels DEF Extreme
    <3>2. CountUpTo[g] <= CountUpTo[Brightest - 1]
      BY <1>2, <1>5, <2>1, <3>1, SumsGrow
    <3>3. CountUpTo[Brightest] = pixelCount[Brightest] + CountUpTo[Brightest - 1]
      BY <1>8, <1>9, <3>1
    <3>4. pixelCount[Brightest] > 0 /\ pixelCount[Brightest] \in Nat
      BY <1>2, <1>3, <1>9 DEF Extreme, Occurring
    <3>5. CountUpTo[g] \in Int /\ CountUpTo[Brightest - 1] \in Int
      BY <1>8, <2>1, <3>1
    <3> QED
      BY <1>1, <1>10, <3>2, <3>3, <3>4, <3>5
  <2>4. g \in Inner <=> g # Brightest
    BY DEF Inner
  <2> QED
    BY <1>1, <1>10, <2>2, <2>3, <2>4
<1> QED
  BY <1>1, <1>2, <1>3, <1>8, <1>10, <1>11

\* The variance of a level below the brightest one is a fraction.
LEMMA InnerVariance ==
  ASSUME IInv, pc # "sample"
  PROVE  \A g \in Inner : VarianceAt(g) \in Fractions
<1> TAKE g \in Inner
<1>1. g \in Occurring /\ g \in Grays
  BY DEF Inner, Occurring
<1>2. /\ CountUpTo[g] \in Nat /\ SumUpTo[g] \in Nat /\ gray_sum \in Nat
      /\ 0 < CountUpTo[g] /\ CountUpTo[g] < pixelSum
  BY <1>1, Histories
<1> QED
  BY <1>2, VarianceIs DEF VarianceAt

\* The sample is complete, and all that depends on it alone stays.
LEMMA SampleKept ==
  ASSUME UNCHANGED sampleVars
  PROVE  /\ pixelCount' = pixelCount /\ gray_sum' = gray_sum /\ n' = n
         /\ Occurring' = Occurring /\ Brightest' = Brightest /\ Darkest' = Darkest
         /\ Inner' = Inner /\ CountUpTo' = CountUpTo /\ SumUpTo' = SumUpTo
         /\ \A g : VarianceAt(g)' = VarianceAt(g)
<1>1. pixelCount' = pixelCount /\ gray_sum' = gray_sum /\ n' = n
  BY DEF sampleVars
<1>2. Occurring' = Occurring
  BY <1>1 DEF Occurring
<1>3. Brightest' = Brightest /\ Darkest' = Darkest
  BY <1>2 DEF Brightest, Darkest
<1>4. Inner' = Inner
  BY <1>2, <1>3 DEF Inner
<1>5. CountUpTo' = CountUpTo
  BY <1>1 DEF CountUpTo
<1>6. SumUpTo' = SumUpTo
  BY <1>1 DEF SumUpTo
<1>7. \A g : VarianceAt(g)' = VarianceAt(g)
  BY <1>1, <1>5, <1>6 DEF VarianceAt, Variance, Mean
<1> QED
  BY <1>1, <1>2, <1>3, <1>4, <1>5, <1>6, <1>7
\* So what was computed is to be judged by the same sample after a step.
LEMMA JudgedBySame ==
  ASSUME UNCHANGED sampleVars,
         Position(j', c', s', deltaMax', threshold', pc'),
         Peak(j', deltaMax', threshold', pc'),
         Whole(j', threshold', pc')
  PROVE  Reached' /\ PeakSoFar' /\ WholeSoFar'
<1>1. Reached'
  BY SampleKept DEF Reached, Position, Zero
<1>2. PeakSoFar'
  BY SampleKept DEF PeakSoFar, Peak, Past, NeverFalls, VarianceAt, Variance, Mean
<1>3. WholeSoFar'
  BY SampleKept DEF WholeSoFar, Whole, NeverFalls, VarianceAt, Variance, Mean
<1> QED
  BY <1>1, <1>2, <1>3
\* What holds at level j while the loop runs.
LEMMA AtLevel ==
  ASSUME IInv, pc = "levels"
  PROVE  /\ TypeOK /\ Sampled
         /\ Position(j, c, s, deltaMax, threshold, pc)
         /\ Peak(j, deltaMax, threshold, pc) /\ Whole(j, threshold, pc)
         /\ j \in Grays /\ j \in Nat /\ j <= Last /\ j + 1 \in 0 .. GrayScale
         /\ Last \in Nat /\ Last = GrayScale - 1 /\ threshold \in Nat
         /\ \A g \in Inner : g \in Occurring /\ g # Brightest /\ g \in Nat /\ g <= Last
         /\ \A g \in Occurring : g \in Nat /\ Darkest <= g /\ g <= Brightest
         /\ Darkest \in Nat /\ Darkest <= Last /\ Brightest \in Nat
<1>1. /\ TypeOK /\ Sampled
      /\ Position(j, c, s, deltaMax, threshold, pc)
      /\ Peak(j, deltaMax, threshold, pc) /\ Whole(j, threshold, pc)
  BY DEF IInv, Reached, PeakSoFar, WholeSoFar
<1>2. j \in Nat /\ j < GrayScale /\ GrayScale \in Nat
  BY <1>1, ThresholdAssumption DEF TypeOK, Position
<1>3. j \in Grays /\ j <= Last /\ Last \in Nat /\ j + 1 \in 0 .. GrayScale
  BY <1>2 DEF Grays, Last
<1>4. \A g \in Grays : g \in Nat /\ g <= Last
  BY <1>2 DEF Grays, Last
<1>5. Extreme
  BY Histories
<1>6. threshold \in Nat
  BY <1>1, <1>4 DEF TypeOK
<1> QED
  BY <1>1, <1>2, <1>3, <1>4, <1>5, <1>6 DEF Extreme, Inner, Last

\* The sample is not touched by the loop.
LEMMA SampledKept ==
  ASSUME IInv, pc = "levels", UNCHANGED sampleVars, pc' # "sample"
  PROVE  Sampled'
  BY AtLevel, Histories, SampleKept DEF Sampled

\* A level no pixel has changes nothing that was judged.
LEMMA EmptyLevelKeeps ==
  ASSUME IInv, EmptyLevel
  PROVE  IInv'
<1>1. /\ pc = "levels" /\ pixelCount[j] = 0 /\ j' = j + 1
      /\ pc' = IF j = Last THEN "done" ELSE "levels"
      /\ UNCHANGED sampleVars /\ UNCHANGED <<c, s, deltaMax, threshold>>
  BY DEF EmptyLevel, NextLevel, Last
<1>2. j \notin Occurring
  BY <1>1 DEF Occurring
<1>3. TypeOK'
  BY <1>1, AtLevel, SampleKept DEF TypeOK
<1>4. Sampled'
  BY <1>1, SampledKept
<1>5. CountUpTo[j] = c /\ SumUpTo[j] = s
  <2>1. /\ CountUpTo[j] = pixelCount[j] + IF j = 0 THEN 0 ELSE CountUpTo[j - 1]
        /\ SumUpTo[j] = j * pixelCount[j] + IF j = 0 THEN 0 ELSE SumUpTo[j - 1]
    BY <1>1, AtLevel, Histories
  <2>2. j * pixelCount[j] = 0
    BY <1>1, AtLevel
  <2>3. c \in Int /\ s \in Int
    BY <1>1, AtLevel DEF TypeOK
  <2> QED
    BY <1>1, <2>1, <2>2, <2>3, AtLevel DEF Position
<1>6. Position(j + 1, c, s, deltaMax, threshold, pc')
  <2>1. (j + 1) - 1 = j /\ j + 1 # 0
    BY <1>1, AtLevel
  <2>2. pc' = "levels" => j + 1 < GrayScale
    BY <1>1, AtLevel, ThresholdAssumption
  <2>3. threshold < j + 1 \/ threshold = 0
    BY <1>1, AtLevel DEF Position
  <2>4. (\A g \in Occurring : g >= j + 1) => \A g \in Occurring : g >= j
    BY <1>1, AtLevel
  <2>5. (\A g \in Occurring : g >= j + 1) =>
          c = 0 /\ s = 0 /\ threshold = 0 /\ deltaMax = Zero
    BY <1>1, <2>4, AtLevel DEF Position
  <2> QED
    BY <1>5, <2>1, <2>2, <2>3, <2>5 DEF Position
<1>7. Past(j + 1) = Past(j)
  <2>1. \A g \in Inner : g < j + 1 <=> g < j
    BY <1>1, <1>2, AtLevel
  <2> QED
    BY <2>1 DEF Past
<1>8. Peak(j + 1, deltaMax, threshold, pc')
  <2>1. pc' = "done" => Inner = Past(j)
    <3> SUFFICES ASSUME pc' = "done", NEW g \in Inner PROVE g < j
      BY DEF Past
    <3>1. g # j /\ j = Last /\ g <= Last /\ g \in Nat
      BY <1>1, <1>2, AtLevel
    <3> QED
      BY <1>1, <3>1, AtLevel
  <2> QED
    BY <1>1, <1>7, <2>1, AtLevel DEF Peak
<1>9. Whole(j + 1, threshold, pc')
  <2>1. Darkest # j
    BY <1>1, <1>2, Histories DEF Extreme
  <2>2. Darkest < j + 1 => Darkest < j
    BY <1>1, <2>1, AtLevel
  <2>3. pc' = "done" => Darkest < j + 1
    BY <1>1, AtLevel
  <2> QED
    BY <1>1, <2>2, <2>3, AtLevel DEF Whole
<1>10. Reached' /\ PeakSoFar' /\ WholeSoFar'
  BY <1>1, <1>6, <1>8, <1>9, JudgedBySame
<1> QED
  BY <1>3, <1>4, <1>10 DEF IInv

\* A level with pixels is added to the sums.
LEMMA CountedIs ==
  ASSUME IInv, Counted
  PROVE  /\ pc = "levels" /\ j \in Occurring /\ j' = j + 1 /\ UNCHANGED sampleVars
         /\ c' = CountUpTo[j] /\ s' = SumUpTo[j]
         /\ c' \in Nat /\ 0 < c' /\ c' <= pixelSum /\ s' \in 0 .. gray_sum
         /\ (\A g \in Occurring : g >= j) =>
              c' = pixelCount[j] /\ s' = j * pixelCount[j] /\ threshold = 0 /\ deltaMax = Zero
<1>1. /\ pc = "levels" /\ pixelCount[j] > 0 /\ j' = j + 1 /\ UNCHANGED sampleVars
      /\ c' = c + pixelCount[j] /\ s' = s + j * pixelCount[j]
  BY DEF Counted
<1>2. j \in Occurring /\ j \in Grays
  BY <1>1, AtLevel DEF Occurring
<1>3. /\ CountUpTo[j] = pixelCount[j] + IF j = 0 THEN 0 ELSE CountUpTo[j - 1]
      /\ SumUpTo[j] = j * pixelCount[j] + IF j = 0 THEN 0 ELSE SumUpTo[j - 1]
      /\ CountUpTo[j] \in 0 .. pixelSum /\ SumUpTo[j] \in 0 .. gray_sum
      /\ CountUpTo[j] > 0 /\ pixelCount[j] \in Nat
      /\ pixelSum \in Nat
  BY <1>1, <1>2, Histories
<1>4. /\ c \in Nat /\ s \in Nat /\ j * pixelCount[j] \in Nat
      /\ c = IF j = 0 THEN 0 ELSE CountUpTo[j - 1]
      /\ s = IF j = 0 THEN 0 ELSE SumUpTo[j - 1]
  <2>1. TypeOK /\ j \in Nat /\ Position(j, c, s, deltaMax, threshold, pc)
    BY <1>1, AtLevel
  <2>2. gray_sum \in Nat /\ pixelSum \in Nat
    BY <1>1, Histories
  <2> QED
    BY <1>3, <2>1, <2>2 DEF TypeOK, Position
<1>5. c' = CountUpTo[j] /\ s' = SumUpTo[j]
  BY <1>1, <1>3, <1>4
<1>6. (\A g \in Occurring : g >= j) => c = 0 /\ s = 0 /\ threshold = 0 /\ deltaMax = Zero
  BY <1>1, AtLevel DEF Position
<1> QED
  BY <1>1, <1>2, <1>3, <1>4, <1>5, <1>6
\* After a counted level the loop is where it should be, whatever it decided.
LEMMA CountedPosition ==
  ASSUME IInv, Counted, threshold' = threshold \/ threshold' = j,
         pc' = NextLevel \/ pc' = "done"
  PROVE  /\ Position(j', c', s', deltaMax', threshold', pc')
         /\ j' \in 0 .. GrayScale /\ c' \in 0 .. pixelSum /\ s' \in 0 .. gray_sum
         /\ threshold' \in Grays /\ pc' \in {"levels", "done"}
         /\ pc' = NextLevel => (pc' = "done" => j = Last)
<1>1. /\ pc = "levels" /\ j \in Occurring /\ j' = j + 1
      /\ c' = CountUpTo[j] /\ s' = SumUpTo[j]
      /\ c' \in Nat /\ c' <= pixelSum /\ s' \in 0 .. gray_sum
  BY CountedIs
<1>2. /\ j \in Grays /\ j \in Nat /\ j <= Last /\ j + 1 \in 0 .. GrayScale
      /\ Last = GrayScale - 1 /\ threshold \in Nat /\ threshold \in Grays
      /\ threshold < j \/ threshold = 0
  BY <1>1, AtLevel DEF TypeOK, Position
<1>3. pc' \in {"levels", "done"} /\ (pc' = NextLevel => (pc' = "done" => j = Last))
  BY <1>2 DEF NextLevel
<1>4. pc' = "levels" => j' < GrayScale
  BY <1>1, <1>2, ThresholdAssumption DEF NextLevel
<1>5. j' # 0 /\ j' - 1 = j
  BY <1>1, <1>2
<1>6. threshold' < j' \/ threshold' = 0
  BY <1>1, <1>2
<1>7. ~ \A g \in Occurring : g >= j'
  BY <1>1, <1>2
<1>8. Position(j', c', s', deltaMax', threshold', pc')
  BY <1>1, <1>4, <1>5, <1>6, <1>7 DEF Position
<1> QED
  BY <1>1, <1>2, <1>3, <1>8, ThresholdAssumption

\* Judging a level below the brightest one: the variance d against the largest one
\* so far.
LEMMA LevelPeak ==
  ASSUME IInv, Level
  PROVE  /\ Peak(j', deltaMax', threshold', pc') /\ Whole(j', threshold', pc')
         /\ deltaMax' \in Fractions
<1> DEFINE d == VarianceAt(j)
           up == Exceeds(d, deltaMax)
           down == Exceeds(deltaMax, d)
<1>1. /\ pc = "levels" /\ j \in Occurring /\ j' = j + 1
      /\ c' = CountUpTo[j] /\ s' = SumUpTo[j]
      /\ c' \in Nat /\ 0 < c' /\ c' < pixelSum /\ s' \in 0 .. gray_sum
      /\ (\A g \in Occurring : g >= j) =>
           c' = pixelCount[j] /\ s' = j * pixelCount[j] /\ threshold = 0 /\ deltaMax = Zero
  BY CountedIs DEF Level
<1>2. /\ Peak(j, deltaMax, threshold, pc) /\ Whole(j, threshold, pc)
      /\ j \in Grays /\ j \in Nat /\ j <= Last /\ threshold \in Nat
      /\ threshold < j \/ threshold = 0
      /\ deltaMax \in Fractions
      /\ \A g \in Inner : g \in Occurring /\ g # Brightest /\ g \in Nat /\ g <= Last
      /\ \A g \in Occurring : g \in Nat /\ Darkest <= g /\ g <= Brightest
      /\ Darkest \in Nat /\ Brightest \in Nat
  BY <1>1, AtLevel DEF TypeOK, Position, Fractions
<1>3. /\ gray_sum \in Nat /\ pixelSum \in Nat
      /\ \A g \in Occurring : g \in Inner <=> CountUpTo[g] < pixelSum
      /\ pixelCount[j] \in Nat
  BY <1>1, <1>2, Histories
<1>4. j \in Inner /\ \A g \in Inner : VarianceAt(g) \in Fractions
  BY <1>1, <1>3, InnerVariance
<1>5. d = Variance(c', s')
  BY <1>1 DEF VarianceAt
<1>6. /\ threshold' = IF up THEN j ELSE threshold
      /\ deltaMax' = IF up THEN d ELSE deltaMax
      /\ pc' = IF down THEN "done" ELSE NextLevel
  BY <1>5 DEF Level, Judged
<1>7. d \in Fractions
  BY <1>4
<1>8. /\ ~Exceeds(d, Zero) => s' = c' * Mean
      /\ ~Exceeds(Zero, d)
  BY <1>1, <1>3, <1>5, VarianceIs DEF Zero
<1> HIDE DEF d
<1>9. ~Exceeds(d, d)
  BY <1>7, ExceedsStrictly
<1>10. up => ~down
  BY <1>2, <1>7, ExceedsStrictly
<1>11. Past(j') = Past(j) \cup {j} /\ j \in Past(j') /\ j \notin Past(j)
  <2>1. \A g \in Inner : g < j + 1 <=> (g < j \/ g = j)
    BY <1>2
  <2>2. \A g : g \in Past(j + 1) <=> (g \in Past(j) \/ g = j)
    BY <1>4, <2>1 DEF Past
  <2>3. Past(j + 1) = Past(j) \cup {j}
    BY <2>2
  <2>4. j \notin Past(j)
    BY <1>2 DEF Past
  <2> QED
    BY <1>1, <2>3, <2>4
<1>12. \A g \in Past(j) : g \in Inner /\ g \in Nat /\ g < j /\ VarianceAt(g) \in Fractions
  BY <1>2, <1>4 DEF Past
<1>13. /\ \A g \in Past(j) : ~Exceeds(VarianceAt(g), deltaMax)
       /\ \A g, h \in Past(j) : g < h => ~Exceeds(VarianceAt(g), VarianceAt(h))
       /\ threshold \in Past(j) =>
            /\ ~Exceeds(deltaMax, VarianceAt(threshold))
            /\ \A g \in Past(j) : g < threshold => Exceeds(VarianceAt(threshold), VarianceAt(g))
  BY <1>1, <1>2 DEF Peak, NeverFalls
<1>14. up => \A g \in Past(j) : Exceeds(d, VarianceAt(g))
  BY <1>2, <1>7, <1>12, <1>13, ExceedsStrictly
<1>15. VarianceAt(j) = d
  BY DEF d
<1>16. \A g \in Past(j') : ~Exceeds(VarianceAt(g), deltaMax')
  <2>1. CASE up
    <3>1. \A g \in Past(j) : ~Exceeds(VarianceAt(g), d)
      BY <1>7, <1>12, <1>14, <2>1, ExceedsStrictly
    <3> QED
      BY <1>6, <1>9, <1>11, <1>15, <2>1, <3>1
  <2>2. CASE ~up
    BY <1>6, <1>11, <1>13, <1>15, <2>2
  <2> QED
    BY <2>1, <2>2
<1>17. ~down => NeverFalls(Past(j'))
  <2> SUFFICES ASSUME ~down, NEW g \in Past(j'), NEW h \in Past(j'), g < h
               PROVE  ~Exceeds(VarianceAt(g), VarianceAt(h))
    BY DEF NeverFalls
  <2>1. g \in Past(j)
    BY <1>2, <1>11, <1>12
  <2>2. CASE h \in Past(j)
    BY <1>13, <2>1, <2>2
  <2>3. CASE h = j
    BY <1>2, <1>7, <1>12, <1>13, <1>15, <2>1, <2>3, ExceedsNot
  <2> QED
    BY <1>11, <2>2, <2>3
<1>18. NeverFalls({g \in Past(j') : g <= threshold'})
  <2>1. CASE up
    BY <1>10, <1>17, <2>1 DEF NeverFalls
  <2>2. CASE ~up
    <3> SUFFICES ASSUME NEW g \in Past(j'), NEW h \in Past(j'), h <= threshold, g < h
                 PROVE  ~Exceeds(VarianceAt(g), VarianceAt(h))
      BY <1>6, <2>2 DEF NeverFalls
    <3>1. g \in Past(j) /\ g \in Nat
      BY <1>2, <1>11, <1>12
    <3>2. h # j
      BY <1>2, <3>1
    <3> QED
      BY <1>11, <1>13, <3>1, <3>2
  <2> QED
    BY <2>1, <2>2
<1>19. threshold' \in Past(j') =>
         /\ ~Exceeds(deltaMax', VarianceAt(threshold'))
         /\ \A g \in Past(j') : g < threshold' => Exceeds(VarianceAt(threshold'), VarianceAt(g))
  <2>1. CASE up
    <3>1. threshold' = j /\ deltaMax' = d
      BY <1>6, <2>1
    <3>2. \A g \in Past(j') : g < j => g \in Past(j)
      BY <1>2, <1>11
    <3> QED
      BY <1>9, <1>14, <1>15, <2>1, <3>1, <3>2
  <2>2. CASE ~up /\ threshold # j
    <3>1. \A g \in Past(j') : g < threshold => g \in Past(j)
      BY <1>2, <1>11
    <3> QED
      BY <1>6, <1>11, <1>13, <2>2, <3>1
  <2>3. CASE ~up /\ threshold = j
    <3>1. j = 0 /\ deltaMax = Zero
      <4>1. j = 0
        BY <1>2, <2>3
      <4> QED
        BY <1>1, <1>2, <4>1
    <3>2. \A g \in Past(j') : ~(g < 0)
      BY <1>11, <1>12, <3>1
    <3> QED
      BY <1>6, <1>8, <1>15, <2>3, <3>1, <3>2
  <2> QED
    BY <2>1, <2>2, <2>3
<1>20. down => threshold' = threshold /\ threshold < j
  <2> SUFFICES ASSUME down PROVE threshold' = threshold /\ threshold < j
    OBVIOUS
  <2>1. j # 0
    <3>1. j = 0 => deltaMax = Zero
      BY <1>1, <1>2
    <3> QED
      BY <1>8, <3>1
  <2> QED
    BY <1>2, <1>6, <1>10, <2>1
<1>21. pc' = "done" =>
         Inner = Past(j') \/ \E h \in Past(j') : h = j' - 1 /\ threshold' < h
  <2>1. CASE down
    <3>1. j' - 1 = j
      BY <1>1, <1>2
    <3> QED
      BY <1>11, <1>20, <2>1, <3>1
  <2>2. CASE ~down /\ pc' = "done"
    <3>1. j = Last
      BY <1>2, <1>6, <2>2 DEF NextLevel, Last
    <3>2. \A g \in Inner : g < j'
      BY <1>1, <1>2, <3>1
    <3> QED
      BY <3>2 DEF Past
  <2> QED
    BY <2>1, <2>2
<1>22. pc' = "levels" => NeverFalls(Past(j'))
  BY <1>6, <1>17
<1>23. Peak(j', deltaMax', threshold', pc')
  BY <1>16, <1>18, <1>19, <1>21, <1>22 DEF Peak
<1>24. threshold' = Brightest => NeverFalls(Inner)
  <2>1. CASE up
    BY <1>2, <1>4, <1>6, <2>1
  <2>2. CASE ~up
    BY <1>2, <1>6, <2>2 DEF Whole
  <2> QED
    BY <2>1, <2>2
<1>25. Darkest < j'
  BY <1>1, <1>2
<1>26. threshold' < Darkest => gray_sum < (Darkest + 1) * pixelSum
  <2> SUFFICES ASSUME threshold' < Darkest PROVE gray_sum < (Darkest + 1) * pixelSum
    OBVIOUS
  <2>1. ~up /\ threshold' = threshold
    <3>1. Darkest <= j
      BY <1>1, <1>2
    <3> QED
      BY <1>2, <1>6, <3>1
  <2>2. CASE Darkest < j
    BY <1>2, <2>1, <2>2 DEF Whole
  <2>3. CASE Darkest = j
    <3>1. \A g \in Occurring : g >= j
      BY <1>2, <2>3
    <3>2. c' = pixelCount[j] /\ s' = j * pixelCount[j] /\ deltaMax = Zero
      BY <1>1, <3>1
    <3>3. j * c' = c' * Mean
      BY <1>8, <2>1, <3>2
    <3>4. Mean \in Nat /\ gray_sum < (Mean + 1) * pixelSum
      BY <1>3, MeanIs
    <3>5. ASSUME NEW x \in Nat, NEW y \in Nat, NEW k \in Nat, k > 0, x * k = k * y
          PROVE  x = y
      <4>1. k * y = y * k /\ k # 0 /\ x * k \in Nat
        BY <3>5
      <4>2. x <= y /\ y <= x
        BY <3>5, <4>1, Products
      <4> QED
        BY <4>2
    <3>6. j = Mean
      BY <1>1, <1>2, <3>3, <3>4, <3>5
    <3> QED
      BY <2>3, <3>4, <3>6
  <2> QED
    BY <1>1, <1>2, <1>25, <2>2, <2>3
<1>27. Whole(j', threshold', pc')
  BY <1>24, <1>25, <1>26 DEF Whole
<1>28. deltaMax' \in Fractions
  BY <1>2, <1>6, <1>7
<1> QED
  BY <1>23, <1>27, <1>28
\* A counted level keeps the types.
LEMMA CountedTyped ==
  ASSUME IInv, Counted, threshold' = threshold \/ threshold' = j,
         pc' = NextLevel \/ pc' = "done", deltaMax' \in Fractions
  PROVE  TypeOK' /\ Sampled'
<1>1. /\ pc = "levels" /\ UNCHANGED sampleVars
      /\ j' \in 0 .. GrayScale /\ c' \in 0 .. pixelSum /\ s' \in 0 .. gray_sum
      /\ threshold' \in Grays /\ pc' \in {"levels", "done"}
  BY CountedIs, CountedPosition
<1>2. TypeOK'
  BY <1>1, AtLevel, SampleKept DEF TypeOK, Fractions
<1>3. Sampled'
  BY <1>1, SampledKept
<1> QED
  BY <1>2, <1>3

\* A level that has pixels below and above it, judged by its variance, keeps IInv.
LEMMA LevelKeeps ==
  ASSUME IInv, Level
  PROVE  IInv'
<1>1. /\ Counted /\ UNCHANGED sampleVars
      /\ threshold' = threshold \/ threshold' = j
      /\ pc' = NextLevel \/ pc' = "done"
  BY CountedIs DEF Level, Judged
<1>2. Peak(j', deltaMax', threshold', pc') /\ Whole(j', threshold', pc') /\ deltaMax' \in Fractions
  BY LevelPeak
<1>3. Position(j', c', s', deltaMax', threshold', pc')
  BY <1>1, CountedPosition
<1>4. Reached' /\ PeakSoFar' /\ WholeSoFar'
  BY <1>1, <1>2, <1>3, JudgedBySame
<1>5. TypeOK' /\ Sampled'
  BY <1>1, <1>2, CountedTyped
<1> QED
  BY <1>4, <1>5 DEF IInv

\* At the brightest level all others are judged.
LEMMA LastLevelKeeps ==
  ASSUME IInv, LastLevel
  PROVE  IInv'
<1>1. /\ Counted /\ UNCHANGED sampleVars /\ c' = pixelSum /\ deltaMax' = deltaMax
      /\ threshold' = threshold \/ threshold' = j
      /\ pc' = NextLevel \/ pc' = "done"
  BY CountedIs DEF LastLevel
<1>2. /\ pc = "levels" /\ j \in Occurring /\ j' = j + 1
      /\ c' = CountUpTo[j] /\ s' = SumUpTo[j]
      /\ (\A g \in Occurring : g >= j) => c' = pixelCount[j] /\ s' = j * pixelCount[j]
  BY <1>1, CountedIs
<1>3. /\ Peak(j, deltaMax, threshold, pc) /\ Whole(j, threshold, pc)
      /\ j \in Grays /\ j \in Nat /\ threshold \in Nat
      /\ deltaMax \in Fractions
      /\ \A g \in Inner : g \in Occurring /\ g # Brightest /\ g \in Nat
      /\ \A g \in Occurring : g \in Nat /\ Darkest <= g /\ g <= Brightest
      /\ Darkest \in Nat /\ Brightest \in Nat
  BY <1>2, AtLevel DEF TypeOK, Fractions
<1>4. /\ pixelSum \in Nat /\ SumUpTo[Brightest] = gray_sum
      /\ \A g \in Occurring : g \in Inner <=> CountUpTo[g] < pixelSum
  BY <1>2, Histories
<1>5. j \notin Inner /\ j = Brightest
  <2>1. ~(CountUpTo[j] < pixelSum)
    BY <1>1, <1>2, <1>4
  <2> QED
    BY <1>2, <1>4, <2>1 DEF Inner
<1>6. Past(j') = Inner /\ Past(j) = Inner
  <2>1. \A g \in Inner : g < j /\ g < j + 1
    BY <1>3, <1>5
  <2> QED
    BY <1>2, <2>1 DEF Past
<1>7. NeverFalls(Inner)
  BY <1>2, <1>3, <1>6 DEF Peak
<1>8. Peak(j', deltaMax', threshold', pc')
  <2>1. NeverFalls({g \in Inner : g <= threshold'})
    BY <1>7 DEF NeverFalls
  <2>2. threshold' \in Inner => threshold' = threshold
    BY <1>1, <1>5
  <2>3. /\ \A g \in Inner : ~Exceeds(VarianceAt(g), deltaMax)
        /\ threshold \in Inner =>
             /\ ~Exceeds(deltaMax, VarianceAt(threshold))
             /\ \A g \in Inner : g < threshold => Exceeds(VarianceAt(threshold), VarianceAt(g))
    BY <1>3, <1>6 DEF Peak
  <2>4. threshold' \in Inner =>
          /\ ~Exceeds(deltaMax, VarianceAt(threshold'))
          /\ \A g \in Inner : g < threshold' => Exceeds(VarianceAt(threshold'), VarianceAt(g))
    BY <2>2, <2>3
  <2> QED
    BY <1>1, <1>6, <1>7, <2>1, <2>3, <2>4 DEF Peak
<1>9. Whole(j', threshold', pc')
  <2>1. Darkest < j'
    BY <1>2, <1>3
  <2>2. ASSUME threshold' < Darkest PROVE gray_sum < (Darkest + 1) * pixelSum
    <3>1. threshold' = threshold
      BY <1>1, <1>2, <1>3, <2>2
    <3>2. CASE Darkest < j
      BY <1>3, <2>2, <3>1, <3>2 DEF Whole
    <3>3. CASE Darkest = j
      <4>1. pixelCount[j] = pixelSum /\ gray_sum = j * pixelCount[j]
        BY <1>1, <1>2, <1>3, <1>4, <1>5, <3>3
      <4>2. j * pixelSum \in Nat /\ (j + 1) * pixelSum = j * pixelSum + pixelSum
        BY <1>3, <1>4
      <4> QED
        BY <3>3, <4>1, <4>2, ThresholdAssumption
    <3> QED
      BY <1>2, <1>3, <3>2, <3>3
  <2> QED
    BY <1>7, <2>1, <2>2 DEF Whole
<1>10. Position(j', c', s', deltaMax', threshold', pc')
  BY <1>1, CountedPosition
<1>11. Reached' /\ PeakSoFar' /\ WholeSoFar'
  BY <1>1, <1>8, <1>9, <1>10, JudgedBySame
<1>12. TypeOK' /\ Sampled'
  BY <1>1, <1>3, CountedTyped
<1> QED
  BY <1>11, <1>12 DEF IInv
-----------------------------------------------------------------------------
\* IInv is an inductive invariant of the two loops.
THEOREM InductiveInvariant == Spec => []IInv
<1>1. ASSUME Init PROVE IInv
  <2>1. pixelCount = [g \in Grays |-> 0] /\ Histogram
    BY <1>1 DEF Init, Histogram
  <2>2. 0 \in Grays /\ Last \in Grays /\ pixelSum \in Nat /\ pixelSum > 0 /\ Last \in Nat
    BY ThresholdAssumption DEF Grays, Last
  <2>3. TypeOK
    <3>1. pixelSum * (GrayScale - 1) \in Nat
      BY <2>2, Products DEF Last
    <3> QED
      BY <1>1, <2>2, <3>1, ThresholdAssumption DEF Init, TypeOK
  <2>4. CountUpTo[Last] = 0 /\ SumUpTo[Last] = 0
    <3> DEFINE z == [g \in Grays |-> 0]
    <3>1. Weighted = z
      <4>1. \A g \in Grays : g * pixelCount[g] = 0
        <5>1. SUFFICES ASSUME NEW g \in Grays PROVE g * pixelCount[g] = 0
          OBVIOUS
        <5>2. pixelCount[g] = 0 /\ g \in Nat
          BY <2>1, <5>1, Levels
        <5> QED
          BY <5>2
      <4> QED
        BY <4>1 DEF Weighted
    <3>2. z \in [Grays -> Nat] /\ Accumulates(z, z)
      BY Levels DEF Accumulates
    <3>3. Accumulates(CountUpTo, z) /\ Accumulates(SumUpTo, z)
      BY <2>1, <3>1, UpTo DEF Sums
    <3>4. z[Last] = 0
      BY <2>2
    <3> HIDE DEF z
    <3>5. CountUpTo = z /\ SumUpTo = z
      BY <3>2, <3>3, SumsSame
    <3> QED
      BY <3>4, <3>5
  <2>5. Sampled
    <3>1. 0 * Last = 0
      BY <2>2
    <3> QED
      BY <1>1, <2>2, <2>4, <3>1 DEF Init, Sampled
  <2>6. Reached
    BY <1>1, ThresholdAssumption DEF Init, Reached, Position, Zero
  <2> QED
    BY <1>1, <2>3, <2>5, <2>6 DEF Init, IInv
<1>2. ASSUME IInv, [Next]_vars PROVE IInv'
  <2>1. ASSUME NEW g \in Grays, Sample(g) PROVE IInv'
    BY <1>2, <2>1, SampleKeeps
  <2>2. CASE EmptyLevel
    BY <1>2, <2>2, EmptyLevelKeeps
  <2>3. CASE Level
    BY <1>2, <2>3, LevelKeeps
  <2>4. CASE LastLevel
    BY <1>2, <2>4, LastLevelKeeps
  <2>5. CASE UNCHANGED vars
    <3>1. UNCHANGED sampleVars /\ UNCHANGED <<j, c, s, deltaMax, threshold, pc>>
      BY <2>5 DEF vars
    <3>2. TypeOK' /\ Sampled' /\ Reached'
      BY <1>2, <3>1, SampleKept DEF IInv, TypeOK, Sampled, Reached, Position, Zero
    <3>3. PeakSoFar => PeakSoFar'
      BY <3>1, SampleKept DEF PeakSoFar, Peak, Past, NeverFalls, VarianceAt, Variance, Mean
    <3>4. WholeSoFar => WholeSoFar'
      BY <3>1, SampleKept DEF WholeSoFar, Whole, NeverFalls, VarianceAt, Variance, Mean
    <3> QED
      BY <1>2, <3>1, <3>2, <3>3, <3>4 DEF IInv
  <2> QED
    BY <1>2, <2>1, <2>2, <2>3, <2>4, <2>5 DEF Next, Done
<1> QED
  BY <1>1, <1>2, PTL DEF Spec

\* The threshold inside the range is the first peak of the variance, and all sums
\* stay those of a sample of pixelSum pixels.
THEOREM FirstPeakSplits == Spec => []SplitAtFirstPeak
<1>1. ASSUME IInv PROVE SplitAtFirstPeak
  <2>1. TypeOK
    BY <1>1 DEF IInv
  <2> SUFFICES ASSUME pc = "done", threshold \in Inner
               PROVE  /\ NeverFalls({g \in Inner : g <= threshold})
                      /\ \A g \in Inner : g < threshold => Exceeds(VarianceAt(threshold), VarianceAt(g))
                      /\ \A g \in Inner : g > threshold =>
                           \/ ~Exceeds(VarianceAt(g), VarianceAt(threshold))
                           \/ \E h \in Inner : threshold < h /\ h < g
    BY <2>1 DEF SplitAtFirstPeak, FirstPeak, Finished
  <2>2. /\ Peak(j, deltaMax, threshold, pc) /\ Whole(j, threshold, pc)
        /\ Position(j, c, s, deltaMax, threshold, pc)
        /\ j \in Nat /\ deltaMax \in Fractions
    BY <1>1 DEF IInv, PeakSoFar, WholeSoFar, Reached, TypeOK, Fractions
  <2>3. Extreme /\ \A g \in Inner : VarianceAt(g) \in Fractions
    BY <1>1, Histories, InnerVariance
  <2>4. \A g \in Inner : g \in Nat
    BY <2>3, Levels DEF Extreme, Inner
  <2>5. threshold < j
    <3>1. Darkest \in Nat /\ Darkest < j
      BY <2>2, <2>3, Levels DEF Extreme, Whole
    <3> QED
      BY <2>2, <3>1 DEF Position
  <2>6. threshold \in Past(j) /\ Past(j) \subseteq Inner
    BY <2>5 DEF Past
  <2>7. /\ ~Exceeds(deltaMax, VarianceAt(threshold))
        /\ \A g \in Past(j) : g < threshold => Exceeds(VarianceAt(threshold), VarianceAt(g))
        /\ \A g \in Past(j) : ~Exceeds(VarianceAt(g), deltaMax)
        /\ NeverFalls({g \in Past(j) : g <= threshold})
        /\ Inner = Past(j) \/ \E h \in Past(j) : h = j - 1 /\ threshold < h
    BY <2>2, <2>6 DEF Peak
  <2>8. \A g \in Inner : g <= threshold => g \in Past(j)
    BY <2>2, <2>4, <2>5 DEF Past
  <2>9. NeverFalls({g \in Inner : g <= threshold})
    BY <2>7, <2>8 DEF NeverFalls
  <2>10. \A g \in Inner : g < threshold => Exceeds(VarianceAt(threshold), VarianceAt(g))
    BY <2>4, <2>7, <2>8
  <2>11. ASSUME NEW g \in Inner, g > threshold
         PROVE  \/ ~Exceeds(VarianceAt(g), VarianceAt(threshold))
                \/ \E h \in Inner : threshold < h /\ h < g
    <3>1. CASE g \in Past(j)
      <4>1. ~Exceeds(VarianceAt(g), VarianceAt(threshold))
        BY <2>2, <2>3, <2>7, <3>1, ExceedsNot
      <4> QED
        BY <4>1
    <3>2. CASE g \notin Past(j)
      <4>1. PICK h \in Past(j) : h = j - 1 /\ threshold < h
        BY <2>7, <3>2
      <4>2. ~(g < j) /\ g \in Nat
        BY <2>4, <3>2 DEF Past
      <4>3. h < g
        BY <2>2, <4>1, <4>2
      <4> QED
        BY <2>6, <4>1, <4>3
    <3> QED
      BY <3>1, <3>2
  <2> QED
    BY <2>9, <2>10, <2>11
<1> QED
  BY <1>1, InductiveInvariant, PTL

\* The frame turns dark as a whole only after a variance that never fell, and
\* bright as a whole only without contrast.
THEOREM WholeFrameOnlyThen == Spec => []WholeFrame
<1>1. ASSUME IInv PROVE WholeFrame
  <2> SUFFICES ASSUME pc = "done"
               PROVE  /\ threshold = Brightest => NeverFalls(Inner)
                      /\ threshold < Darkest => gray_sum < (Darkest + 1) * pixelSum
    BY DEF WholeFrame, AllDarkOnlyAtTheEnd, AllBrightOnlyWithoutContrast, Finished
  <2>1. Whole(j, threshold, pc)
    BY <1>1 DEF IInv, WholeSoFar
  <2> QED
    BY <2>1 DEF Whole
<1> QED
  BY <1>1, InductiveInvariant, PTL
=============================================================================
