--------------------------- MODULE AdaptThreshold ---------------------------
(***************************************************************************)
(* Camera_My_Adapt_Threshold: the grey value that tells dark from bright   *)
(* in the frame, by Otsu's method over a sample of the pixels.             *)
(*                                                                         *)
(* Shares and means are kept as counts and sums: with c the number of      *)
(* sampled pixels up to level j, s the sum of their values and m the mean  *)
(* of all, deltaTmp is (s - cm)^2 / (c (pixelSum - c)).  The means of the  *)
(* code are floats, but m is the quotient of two integers and truncated.   *)
(* Rounding is left out except at the brightest level, where it decides:   *)
(* the share of brighter pixels is zero or what rounding left of it, and   *)
(* it is divided by.                                                       *)
(***************************************************************************)
EXTENDS Integers, FiniteSets

CONSTANTS
  GrayScale,       \* number of grey values
  pixelSum         \* number of sampled pixels

ASSUME ThresholdAssumption == GrayScale \in Nat \ {0} /\ pixelSum \in Nat \ {0}

VARIABLES
  pixelCount,      \* grey value -> sampled pixels
  gray_sum,
  n,               \* pixels sampled so far
  j,               \* the level the second loop is at
  c, s,            \* w0 and u0tmp: pixels up to the level, and their sum
  deltaMax,        \* [num, den]
  threshold,
  pc

sampleVars == <<pixelCount, gray_sum, n>>
vars == <<sampleVars, j, c, s, deltaMax, threshold, pc>>

Grays == 0 .. GrayScale - 1

TypeOK ==
  /\ pixelCount \in [Grays -> 0 .. pixelSum]
  /\ gray_sum \in 0 .. pixelSum * (GrayScale - 1)
  /\ n \in 0 .. pixelSum
  /\ j \in 0 .. GrayScale
  /\ c \in 0 .. pixelSum /\ s \in 0 .. gray_sum
  /\ deltaMax \in [num : Nat, den : Nat \ {0}]
  /\ threshold \in Grays
  /\ pc \in {"sample", "levels", "done"}

Init ==
  /\ pixelCount = [g \in Grays |-> 0]
  /\ gray_sum = 0 /\ n = 0
  /\ j = 0 /\ c = 0 /\ s = 0
  /\ deltaMax = [num |-> 0, den |-> 1]
  /\ threshold = 0
  /\ pc = "sample"

\* Every second pixel of every second row.
Sample(g) ==
  /\ pc = "sample"
  /\ pixelCount' = [pixelCount EXCEPT ![g] = @ + 1]
  /\ gray_sum' = gray_sum + g
  /\ n' = n + 1
  /\ pc' = IF n + 1 = pixelSum THEN "levels" ELSE "sample"
  /\ UNCHANGED <<j, c, s, deltaMax, threshold>>
-----------------------------------------------------------------------------
Mean == gray_sum \div pixelSum

\* The variance between c pixels with sum s and the others.
Variance(count, sum) ==
  [num |-> (sum - count * Mean) * (sum - count * Mean), den |-> count * (pixelSum - count)]

Exceeds(a, b) == a.num * b.den > b.num * a.den

NextLevel == IF j = GrayScale - 1 THEN "done" ELSE "levels"

\* A level no pixel has is skipped.
EmptyLevel ==
  /\ pc = "levels" /\ pixelCount[j] = 0
  /\ j' = j + 1
  /\ pc' = NextLevel
  /\ UNCHANGED <<sampleVars, c, s, deltaMax, threshold>>

\* Variant: the threshold moves without the variance it was chosen for.
Judged_KeepsMax(d) ==
  /\ threshold' = IF Exceeds(d, deltaMax) THEN j ELSE threshold
  /\ deltaMax' = deltaMax
  /\ pc' = IF Exceeds(deltaMax, d) THEN "done" ELSE NextLevel

\* Variant: the level is counted with the bright pixels.
Judged_Below(d) ==
  /\ threshold' = IF Exceeds(d, deltaMax) THEN j - 1 ELSE threshold
  /\ deltaMax' = IF Exceeds(d, deltaMax) THEN d ELSE deltaMax
  /\ pc' = IF Exceeds(deltaMax, d) THEN "done" ELSE NextLevel

\* Variant: the loop goes on when the variance falls.
Judged_GoesOn(d) ==
  /\ threshold' = IF Exceeds(d, deltaMax) THEN j ELSE threshold
  /\ deltaMax' = IF Exceeds(d, deltaMax) THEN d ELSE deltaMax
  /\ pc' = NextLevel

\* A larger variance moves the threshold, a smaller one ends the loop.
Judged(d) ==
  /\ threshold' = IF Exceeds(d, deltaMax) THEN j ELSE threshold
  /\ deltaMax' = IF Exceeds(d, deltaMax) THEN d ELSE deltaMax
  /\ pc' = IF Exceeds(deltaMax, d) THEN "done" ELSE NextLevel

Counted ==
  /\ pc = "levels" /\ pixelCount[j] > 0
  /\ c' = c + pixelCount[j]
  /\ s' = s + j * pixelCount[j]
  /\ j' = j + 1
  /\ UNCHANGED sampleVars

Level == Counted /\ c' < pixelSum /\ Judged(Variance(c', s'))

\* The brightest level: the variance is no number, or negative, or very large.
\* If all pixels have this level the shares are exact, and it is no number.
LastLevel ==
  /\ Counted
  /\ c' = pixelSum
  /\ \/ threshold' = threshold /\ pc' = NextLevel
     \/ pixelCount[j] # pixelSum /\ threshold' = threshold /\ pc' = "done"
     \/ pixelCount[j] # pixelSum /\ threshold' = j /\ pc' = NextLevel
  /\ UNCHANGED deltaMax

Done == pc = "done" /\ UNCHANGED vars

Next == (\E g \in Grays : Sample(g)) \/ EmptyLevel \/ Level \/ LastLevel \/ Done

Spec == Init /\ [][Next]_vars
-----------------------------------------------------------------------------
Occurring == {g \in Grays : pixelCount[g] > 0}
Brightest == CHOOSE g \in Occurring : \A h \in Occurring : h <= g
Darkest == CHOOSE g \in Occurring : \A h \in Occurring : h >= g
Inner == Occurring \ {Brightest}

\* The reference: what a level's variance is, from the histogram alone.
CountUpTo[g \in Grays] == pixelCount[g] + IF g = 0 THEN 0 ELSE CountUpTo[g - 1]
SumUpTo[g \in Grays] == g * pixelCount[g] + IF g = 0 THEN 0 ELSE SumUpTo[g - 1]
VarianceAt(g) == Variance(CountUpTo[g], SumUpTo[g])

NeverFalls(levels) ==
  \A g, h \in levels : g < h => ~Exceeds(VarianceAt(g), VarianceAt(h))

Finished == pc = "done"

\* A threshold inside the range is the first peak of the variance: it has grown
\* or stayed up to there, is larger there than before, and is not exceeded by
\* the next level.
FirstPeak ==
  Finished /\ threshold \in Inner =>
    /\ NeverFalls({g \in Inner : g <= threshold})
    /\ \A g \in Inner : g < threshold => Exceeds(VarianceAt(threshold), VarianceAt(g))
    /\ \A g \in Inner : g > threshold =>
         \/ ~Exceeds(VarianceAt(g), VarianceAt(threshold))
         \/ \E h \in Inner : threshold < h /\ h < g

\* The frame turns black as a whole only if the variance never fell, that is, if
\* the loop came to the brightest level at all.
AllDarkOnlyAtTheEnd ==
  Finished /\ threshold = Brightest /\ Cardinality(Occurring) > 1 => NeverFalls(Inner)

\* The frame turns bright as a whole only if the mean is within one grey value of
\* the darkest pixel, where truncating it hides the difference.
AllBrightOnlyWithoutContrast ==
  Finished /\ threshold < Darkest => gray_sum < (Darkest + 1) * pixelSum

\* Camera_My_Adapt_Threshold returns the first peak of the variance of the sample,
\* and its sums stay those of a sample of pixelSum pixels.
SplitAtFirstPeak == TypeOK /\ FirstPeak

\* The frame turns dark or bright as a whole in two cases only: the loop of
\* Camera_My_Adapt_Threshold came to the brightest level, or the sample has no
\* contrast.
WholeFrame == AllDarkOnlyAtTheEnd /\ AllBrightOnlyWithoutContrast
=============================================================================
