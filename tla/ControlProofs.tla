---------------------------- MODULE ControlProofs ----------------------------
(***************************************************************************)
(* Proofs about the numbers the car is driven and steered by.              *)
(*                                                                         *)
(* About module MotorLoop: for every set of motors, of commands and of     *)
(* measured speeds, and every limit.                                       *)
(*                                                                         *)
(* About module Steering: for every size of the image that SteeringAssump- *)
(* tion allows, all columns and rows at which its borders may be, and      *)
(* every first row that counts.  Only the theorem on the lines across the  *)
(* road at a roundabout is about the image of the code, 70 rows of 188     *)
(* columns of which the rows from 20 on count: the ends of these lines are *)
(* literals of that image.                                                 *)
(***************************************************************************)
EXTENDS MotorLoop, Steering, FiniteSetTheorems, WellFoundedInduction, TLAPS
-----------------------------------------------------------------------------
(* The wheel speed loop.                                                    *)


\* A limited value is within its limits.
LEMMA ClampRange ==
  ASSUME NEW x \in Int, NEW max \in Nat
  PROVE  Clamp(x, max) \in -max .. max
  BY DEF Clamp

\* A fixed divisor gives an integer.
LEMMA DivInt ==
  ASSUME NEW a \in Int, NEW b \in Nat \ {0}
  PROVE  a \div b \in Int
  OBVIOUS

\* The wheel speeds of a command are integers.
LEMMA RawSpeedInt ==
  ASSUME NEW v \in Speed, NEW m
  PROVE  RawSpeed(m, v) \in Int
  <1>1. v.Vx \in Int /\ v.Vy \in Int /\ v.Omega \in Int
    BY DEF Speed
  <1>2. v.Vx \div 2 \in Int /\ (v.Vy * 1000) \div 866 \in Int
    BY <1>1
  <1>3. QED
    BY <1>1, <1>2 DEF RawSpeed

\* The largest of the three wheel speeds is one of them and bounds them.
LEMMA MaxRawBounds ==
  ASSUME NEW v \in Speed
  PROVE  /\ MaxRaw(v) \in Int
         /\ \A m \in {"A", "B", "C"} : RawSpeed(m, v) <= MaxRaw(v)
  <1> DEFINE S == {RawSpeed(m, v) : m \in {"A", "B", "C"}}
  <1> DEFINE a == RawSpeed("A", v)
  <1> DEFINE b == RawSpeed("B", v)
  <1> DEFINE c == RawSpeed("C", v)
  <1>1. a \in Int /\ b \in Int /\ c \in Int
    BY RawSpeedInt
  <1>2. S = {a, b, c}
    OBVIOUS
  <1>3. \E x \in S : \A m \in {"A", "B", "C"} : RawSpeed(m, v) <= x
    <2> HIDE DEF a, b, c
    <2>1. \E x \in {a, b, c} : a <= x /\ b <= x /\ c <= x
      BY <1>1
    <2>2. QED
      BY <2>1, <1>2 DEF a, b, c
  <1>4. MaxRaw(v) \in S /\ \A m \in {"A", "B", "C"} : RawSpeed(m, v) <= MaxRaw(v)
    BY <1>3 DEF MaxRaw
  <1>5. QED
    BY <1>1, <1>2, <1>4

\* Scaling by limit over max keeps what is at most max within the limit.
LEMMA Scaled ==
  ASSUME NEW raw \in Int, NEW max \in Nat \ {0}, NEW limit \in Nat \ {0}, raw <= max
  PROVE  (raw * limit) \div max \in Int /\ (raw * limit) \div max <= limit
  <1> DEFINE q == (raw * limit) \div max
  <1>1. raw * limit \in Int
    OBVIOUS
  <1>2. q \in Int
    BY <1>1
  <1>3. raw * limit <= max * limit
    OBVIOUS
  <1>4. q * max <= raw * limit
    BY <1>1
  <1>5. q * max <= limit * max
    BY <1>2, <1>3, <1>4
  <1>6. q <= limit
    <2> HIDE DEF q
    <2> SUFFICES ASSUME q >= limit + 1 PROVE FALSE
      BY <1>2
    <2>1. q * max >= (limit + 1) * max
      BY <1>2
    <2>2. (limit + 1) * max = limit * max + max
      OBVIOUS
    <2>3. QED
      BY <1>2, <1>5, <2>1, <2>2
  <1>7. QED
    BY <1>2, <1>6

\* A wheel speed is an integer and, seen forward, within the limit.
LEMMA TargetLimited ==
  ASSUME NEW v \in Speed, NEW m \in Motors
  PROVE  /\ mecanumRun(m, v) \in Int
         /\ (IF m = "B" THEN -mecanumRun(m, v) ELSE mecanumRun(m, v)) <= maxLinearSpeed
  <1> DEFINE raw == RawSpeed(m, v)
  <1> DEFINE s == IF MaxRaw(v) > maxLinearSpeed
                  THEN (raw * maxLinearSpeed) \div MaxRaw(v) ELSE raw
  <1>1. raw \in Int /\ MaxRaw(v) \in Int /\ raw <= MaxRaw(v)
    BY RawSpeedInt, MaxRawBounds, MotorAssumption
  <1>2. s \in Int /\ s <= maxLinearSpeed
    <2> HIDE DEF raw
    <2>1. CASE MaxRaw(v) > maxLinearSpeed
      <3>1. MaxRaw(v) \in Nat \ {0} /\ maxLinearSpeed \in Nat \ {0}
        BY <1>1, <2>1, MotorAssumption
      <3>2. QED
        BY <1>1, <2>1, <3>1, Scaled
    <2>2. CASE ~(MaxRaw(v) > maxLinearSpeed)
      BY <1>1, <2>2, MotorAssumption
    <2>3. QED
      BY <2>1, <2>2
  <1>3. mecanumRun(m, v) = IF m = "B" THEN -s ELSE s
    BY DEF mecanumRun
  <1> HIDE DEF s
  <1>4. QED
    BY <1>2, <1>3, MotorAssumption

\* The controller leaves the integral and the duty within their limits.
LEMMA ControllerLimited ==
  ASSUME TypeOK, NEW m \in Motors, NEW error \in Int
  PROVE  /\ Pos_PID_Controller(m, error).I \in -IMax .. IMax
         /\ Pos_PID_Controller(m, error).Output \in -OutMax .. OutMax
  <1> DEFINE i == Value_I[m] + error
  <1> DEFINE out == Gain(m) * (20 * error + (115 * i) \div 1000)
  <1>1. IMax \in Nat /\ OutMax \in Nat
    BY MotorAssumption
  <1>2. i \in Int
    BY <1>1 DEF TypeOK
  <1>3. out \in Int
    <2> HIDE DEF i
    <2>1. (115 * i) \div 1000 \in Int
      BY <1>2
    <2>2. Gain(m) \in Int
      BY DEF Gain
    <2>3. QED
      BY <2>1, <2>2
  <1>4. Pos_PID_Controller(m, error) = [I |-> Clamp(i, IMax), Output |-> Clamp(out, OutMax)]
    BY DEF Pos_PID_Controller
  <1> HIDE DEF i, out
  <1>5. QED
    BY <1>1, <1>2, <1>3, <1>4, ClampRange

\* A step of the reference is bounded and does not pass its goal.
LEMMA Slewed ==
  ASSUME NEW ref \in Int, NEW goal \in Int
  PROVE  /\ Slew_Func(ref, goal) \in Int
         /\ Slew_Func(ref, goal) - ref \in -Rate .. Rate
         /\ \/ Slew_Func(ref, goal) = ref
            \/ ref < Slew_Func(ref, goal) /\ Slew_Func(ref, goal) <= goal
            \/ goal <= Slew_Func(ref, goal) /\ Slew_Func(ref, goal) < ref
  BY MotorAssumption DEF Slew_Func

\* What a round works with is a speed, whoever sets the rotation.
LEMMA SteeredIsSpeed ==
  ASSUME Car_Speed \in Speed, NEW e \in YawErrors
  PROVE  Steered(e) \in Speed
  <1>1. 5 * e \in Int /\ YawMax \in Nat
    BY MotorAssumption
  <1>2. Clamp(5 * e, YawMax) \in Int
    BY <1>1 DEF Clamp
  <1>3. QED
    BY <1>2 DEF Steered, Speed
-----------------------------------------------------------------------------
\* What holds throughout: the types, a locked car stands, and the targets are
\* within the limit.
MotorInv == TypeOK /\ LockedIsStill /\ ForwardLimited

\* The invariant holds when car_motion_Init has locked the car.
LEMMA InitInv == ASSUME Init PROVE MotorInv
  BY MotorAssumption
     DEF Init, MotorInv, TypeOK, Speed, LockedIsStill, ForwardLimited

\* A round of the loop keeps the invariant, and moves every reference softly.
LEMMA LoopPreserves ==
  ASSUME MotorInv, NEW act \in [Motors -> ActSpeeds], NEW e \in YawErrors, car_motion_run(act, e)
  PROVE  /\ MotorInv'
         /\ \A m \in Motors : Ref'[m] = Slew_Func(Ref[m], target'[m])
  <1> DEFINE pid == [m \in Motors |-> Pos_PID_Controller(m, Ref[m] - act[m])]
  <1>1. TypeOK
    BY DEF MotorInv
  <1>2. \A m \in Motors : Ref[m] \in Int /\ Ref[m] - act[m] \in Int
    <2> HIDE DEF pid
    <2>1. \A m \in Motors : Ref[m] \in Int
      BY <1>1 DEF TypeOK
    <2>2. ActSpeeds \subseteq Int
      BY MotorAssumption
    <2>3. \A m \in Motors : act[m] \in Int
      BY <2>2
    <2>4. ASSUME NEW m \in Motors PROVE Ref[m] - act[m] \in Int
      <3> DEFINE ref == Ref[m]
      <3> DEFINE a == act[m]
      <3>1. ref \in Int /\ a \in Int
        BY <2>1, <2>3
      <3> HIDE DEF ref, a
      <3>2. ref - a \in Int
        BY <3>1
      <3>3. QED
        BY <3>2 DEF ref, a
    <2>5. QED
      BY <2>1, <2>4
  <1>3. \A m \in Motors : pid[m].I \in -IMax .. IMax /\ pid[m].Output \in -OutMax .. OutMax
    BY <1>1, <1>2, ControllerLimited
  <1>4. /\ Value_I' = [m \in Motors |-> pid[m].I]
        /\ duty' = [m \in Motors |-> pid[m].Output]
    BY DEF car_motion_run
  <1>5. /\ Value_I' \in [Motors -> -IMax .. IMax]
        /\ duty' \in [Motors -> -OutMax .. OutMax]
    <2> HIDE DEF pid
    <2> QED BY <1>3, <1>4
  <1>6. /\ target' = [m \in Motors |-> mecanumRun(m, Car_Speed')]
        /\ Ref' = [m \in Motors |-> Slew_Func(Ref[m], target'[m])]
        /\ Car_BootSwitch = 1 /\ Car_Speed' = Steered(e)
        /\ UNCHANGED <<Car_BootSwitch, Car_Speed_ConRight, stopping>>
    BY DEF car_motion_run
  <1>7. Car_Speed' \in Speed
    BY <1>1, <1>6, SteeredIsSpeed DEF TypeOK
  <1>8. /\ target' \in [Motors -> Int]
        /\ ForwardLimited'
    <2>1. \A m \in Motors :
            /\ target'[m] \in Int
            /\ (IF m = "B" THEN -target'[m] ELSE target'[m]) <= maxLinearSpeed
      BY <1>6, <1>7, TargetLimited
    <2>2. target' \in [Motors -> Int]
      BY <1>6, <2>1
    <2>3. QED
      BY <2>1, <2>2 DEF ForwardLimited
  <1>9. Ref' \in [Motors -> Int]
    BY <1>2, <1>6, <1>8, Slewed
  <1>10. TypeOK'
    BY <1>1, <1>5, <1>6, <1>7, <1>8, <1>9 DEF TypeOK
  <1>11. LockedIsStill'
    BY <1>6 DEF LockedIsStill
  <1>12. QED
    BY <1>6, <1>8, <1>10, <1>11 DEF MotorInv

\* The invariant is kept by every step.
LEMMA NextPreserves ==
  ASSUME MotorInv, [Next]_vars
  PROVE  MotorInv'
  <1> USE DEF MotorInv, TypeOK, LockedIsStill, ForwardLimited
  <1>1. ASSUME NEW v \in Commands, NEW field \in {"Vx", "Vy", "Omega"},
               Car_Change_Speed(v, field)
        PROVE  MotorInv'
    <2>1. v \in Speed /\ Car_Speed \in Speed
      BY MotorAssumption
    <2>2. Car_Speed' \in Speed
      BY <1>1, <2>1 DEF Car_Change_Speed, Speed
    <2>3. QED
      BY <1>1, <2>2 DEF Car_Change_Speed, motorVars
  <1>2. CASE Loop
    BY <1>2, LoopPreserves DEF Loop
  <1>3. CASE Car_Stop
    <2>1. CASE stopping = {} /\ stopping' = Motors /\ Car_BootSwitch' = 0 /\ UNCHANGED duty
      BY <1>3, <2>1 DEF Car_Stop
    <2>2. ASSUME NEW m \in stopping,
                 duty' = [duty EXCEPT ![m] = 0], stopping' = stopping \ {m},
                 UNCHANGED Car_BootSwitch
          PROVE  MotorInv'
      BY <1>3, <2>2, MotorAssumption DEF Car_Stop
    <2>3. QED
      BY <1>3, <2>1, <2>2 DEF Car_Stop
  <1>4. CASE Car_Start
    BY <1>4 DEF Car_Start, motorVars
  <1>5. CASE Car_Rotate
    BY <1>5 DEF Car_Rotate, motorVars
  <1>6. CASE UNCHANGED vars
    BY <1>6 DEF vars, motorVars
  <1>7. QED
    BY <1>1, <1>2, <1>3, <1>4, <1>5, <1>6 DEF Next

\* The invariant holds throughout.
THEOREM MotorInvariant == Spec => []MotorInv
  <1>1. Init => MotorInv
    BY InitInv
  <1>2. MotorInv /\ [Next]_vars => MotorInv'
    BY NextPreserves
  <1>3. QED
    BY <1>1, <1>2, PTL DEF Spec

\* The integral and the duty of every motor stay within their limits
\* (Pos_PID_Controller), whatever is commanded and measured.
THEOREM LimitsKept == Spec => []TypeOK
  <1>1. MotorInv => TypeOK
    BY DEF MotorInv
  <1>2. QED
    BY <1>1, MotorInvariant, PTL

\* A locked car does not drive, wherever Car_Stop is interrupted.
THEOREM LockedStands == Spec => []LockedIsStill
  <1>1. MotorInv => LockedIsStill
    BY DEF MotorInv
  <1>2. QED
    BY <1>1, MotorInvariant, PTL

\* mecanumRun never asks a wheel to go forward faster than the limit.
THEOREM ForwardWithinLimit == Spec => []ForwardLimited
  <1>1. MotorInv => ForwardLimited
    BY DEF MotorInv
  <1>2. QED
    BY <1>1, MotorInvariant, PTL

\* Slew_Func moves every reference by at most the rate in a round, and never
\* past the target.
THEOREM SoftReferences == Spec => SoftStart
  <1> DEFINE Soft ==
       \A m \in Motors :
         /\ Ref'[m] - Ref[m] \in -Rate .. Rate
         /\ Ref'[m] # Ref[m] =>
              (Ref[m] < Ref'[m] /\ Ref'[m] <= target'[m])
                \/ (target'[m] <= Ref'[m] /\ Ref'[m] < Ref[m])
  <1>1. ASSUME MotorInv, [Next]_vars
        PROVE  [Soft]_vars
    <2>1. CASE Loop
      <3>1. PICK act \in [Motors -> ActSpeeds], e \in YawErrors : car_motion_run(act, e)
        BY <2>1 DEF Loop
      <3>2. /\ \A m \in Motors : Ref'[m] = Slew_Func(Ref[m], target'[m])
            /\ MotorInv'
        BY <1>1, <3>1, LoopPreserves
      <3>3. \A m \in Motors : Ref[m] \in Int /\ target'[m] \in Int
        BY <1>1, <3>2 DEF MotorInv, TypeOK
      <3>4. QED
        BY <3>2, <3>3, Slewed
    <2>2. CASE UNCHANGED Ref
      <3>1. \A m \in Motors : Ref[m] \in Int
        BY <1>1 DEF MotorInv, TypeOK
      <3>2. QED
        BY <2>2, <3>1, MotorAssumption
    <2>3. QED
      BY <1>1, <2>1, <2>2 DEF Next, vars, motorVars, Car_Change_Speed, Car_Stop, Car_Start, Car_Rotate
  <1>2. MotorInv /\ [Next]_vars => [Soft]_vars
    BY <1>1
  <1>3. Spec => [][Soft]_vars
    BY <1>2, MotorInvariant, PTL DEF Spec
  <1>4. QED
    BY <1>3 DEF SoftStart
-----------------------------------------------------------------------------
(* Quotients and columns.                                                   *)

\* What the truncation of a float to an int16 leaves.
LEMMA Truncated ==
  ASSUME NEW n \in Int, NEW d \in Nat \ {0}
  PROVE  /\ Quot(n, d) \in Int
         /\ n >= 0 => Quot(n, d) * d <= n /\ n < Quot(n, d) * d + d /\ Quot(n, d) >= 0
         /\ n < 0 => n <= Quot(n, d) * d /\ Quot(n, d) * d - d < n /\ Quot(n, d) <= 0
<1>1. ASSUME NEW m \in Nat
      PROVE  /\ m \div d \in Int /\ m \div d >= 0
             /\ (m \div d) * d <= m /\ m < (m \div d) * d + d
  <2>1. m \div d \in Int /\ (m \div d) * d <= m /\ m < (m \div d) * d + d
    OBVIOUS
  <2> DEFINE e == m \div d
  <2> HIDE DEF e
  <2>2. e \in Int /\ m < e * d + d
    BY <2>1 DEF e
  <2>3. e >= 0
    <3> SUFFICES ASSUME e <= -1 PROVE FALSE
      BY <2>2
    <3>1. (e + 1) * d <= 0
      BY <2>2
    <3>2. (e + 1) * d = e * d + d
      BY <2>2
    <3> QED
      BY <2>2, <3>1, <3>2
  <2> QED
    BY <2>1, <2>3 DEF e
<1>2. CASE n >= 0
  BY <1>1, <1>2 DEF Quot
<1>3. CASE n < 0
  <2> DEFINE e == (-n) \div d
  <2>1. e \in Int /\ e >= 0 /\ e * d <= -n /\ -n < e * d + d
    BY <1>1, <1>3
  <2>2. Quot(n, d) = -e
    BY <1>3 DEF Quot
  <2> HIDE DEF e
  <2>3. (-e) * d = -(e * d)
    BY <2>1
  <2> QED
    BY <1>3, <2>1, <2>2, <2>3
<1> QED
  BY <1>2, <1>3

\* The factor that makes products comparable.
LEMMA Factored ==
  ASSUME NEW a \in Int, NEW b \in Int, NEW d \in Nat \ {0}, a * d < b * d
  PROVE  a < b
<1> SUFFICES ASSUME a >= b PROVE FALSE
  OBVIOUS
<1>1. (a - b) * d >= 0
  OBVIOUS
<1>2. (a - b) * d = a * d - b * d
  OBVIOUS
<1> QED
  BY <1>1, <1>2

\* A quotient between two integers.
LEMMA TruncatedWithin ==
  ASSUME NEW n \in Int, NEW d \in Nat \ {0}, NEW lo \in Int, NEW hi \in Int,
         lo <= 0, 0 <= hi, lo * d <= n, n <= hi * d
  PROVE  Quot(n, d) \in lo .. hi
<1> DEFINE e == Quot(n, d)
<1>1. /\ e \in Int
      /\ n >= 0 => e * d <= n /\ e >= 0
      /\ n < 0 => n <= e * d /\ e <= 0
  BY Truncated
<1> HIDE DEF e
<1>2. e <= hi
  <2> SUFFICES ASSUME hi < e PROVE FALSE
    BY <1>1
  <2>1. n >= 0 /\ e * d <= hi * d
    BY <1>1
  <2>2. hi * d < e * d
    BY <1>1
  <2> QED
    BY <1>1, <2>1, <2>2
<1>3. lo <= e
  <2> SUFFICES ASSUME e < lo PROVE FALSE
    BY <1>1
  <2>1. n < 0 /\ lo * d <= e * d
    BY <1>1
  <2>2. e * d < lo * d
    BY <1>1
  <2> QED
    BY <1>1, <2>1, <2>2
<1> QED
  BY <1>1, <1>2, <1>3 DEF e

\* A straight line stays between its ends.
LEMMA BetweenEnds ==
  ASSUME NEW p \in Int, NEW q \in Int, NEW lo \in Int, NEW hi \in Int,
         p \in lo .. hi, q \in lo .. hi,
         NEW i \in Int, NEW k \in Int, k < i, NEW row \in k .. i
  PROVE  Between(p, i, q, k, row) \in lo .. hi
<1> DEFINE d == i - k
           t == i - row
           n == t * (q - p)
           e == n \div d
<1>1. d \in Nat \ {0} /\ t \in 0 .. d /\ row \in Int
  OBVIOUS
<1>2. n \in Int /\ Between(p, i, q, k, row) = p + e
  BY <1>1 DEF Between
<1>3. q >= p => 0 <= n /\ n <= (q - p) * d
  <2> HIDE DEF d, t
  <2> QED
    BY <1>1
<1>4. q <= p => n <= 0 /\ (q - p) * d <= n
  <2> HIDE DEF d, t
  <2> QED
    BY <1>1
<1>5. e \in Int /\ e * d <= n /\ n < e * d + d
  <2> HIDE DEF d, n
  <2> QED
    BY <1>1, <1>2
<1> HIDE DEF d, t, n, e
<1>6. e * d + d = (e + 1) * d /\ 0 * d = 0
  BY <1>1, <1>5
<1>7. CASE q >= p
  <2>1. e * d <= (q - p) * d /\ 0 * d < (e + 1) * d
    BY <1>1, <1>2, <1>3, <1>5, <1>6, <1>7
  <2>2. 0 < e + 1
    BY <1>1, <1>5, <2>1, Factored
  <2>3. e <= q - p
    <3> SUFFICES ASSUME q - p < e PROVE FALSE
      BY <1>5
    <3>1. (q - p) * d < e * d
      BY <1>1, <1>5
    <3> QED
      BY <1>1, <1>5, <2>1, <3>1
  <2> QED
    BY <1>2, <1>5, <1>7, <2>2, <2>3
<1>8. CASE q < p
  <2>1. (q - p) * d < (e + 1) * d /\ e * d < 1 * d
    BY <1>1, <1>2, <1>4, <1>5, <1>6, <1>8
  <2>2. q - p < e + 1
    BY <1>1, <1>5, <2>1, Factored
  <2>3. e < 1
    BY <1>1, <1>5, <2>1, Factored
  <2> QED
    BY <1>2, <1>5, <1>8, <2>2, <2>3
<1> QED
  BY <1>7, <1>8
-----------------------------------------------------------------------------
(* The weighted sum.                                                        *)

\* A set of naturals that is not empty has a least element.
LEMMA LeastNatural ==
  ASSUME NEW S \in SUBSET Nat, S # {}
  PROVE  \E x \in S : \A y \in S : x <= y
<1> DEFINE R == OpToRel(<, Nat)
<1>1. IsWellFoundedOn(R, Nat)
  BY NatLessThanWellFounded
<1>2. PICK x \in S : \A y \in S : ~ (<<y, x>> \in R)
  <2> HIDE DEF R
  <2> QED
    BY <1>1, WFMin
<1>3. \A y \in S : ~ (y < x)
  BY <1>2 DEF OpToRel
<1> QED
  BY <1>3

\* The row the fold takes next.
Taken(s) == CHOOSE row \in s : TRUE

\* The sum of v over the set s, from the sums f of smaller sets.
SumFrom(f, v, s) == IF s = {} THEN 0 ELSE v[Taken(s)] + f[s \ {Taken(s)}]

\* f is the sum of v over each subset of S, taken in the order of the fold.
Sums(f, v, S) == f = [s \in SUBSET S |-> SumFrom(f, v, s)]

SumOver(v, S) == (CHOOSE f : Sums(f, v, S))[S]

\* A set of rows is finite, and smaller by one without the row the fold takes.
LEMMA Smaller ==
  ASSUME NEW S, IsFiniteSet(S), NEW s \in SUBSET S
  PROVE  /\ IsFiniteSet(s) /\ Cardinality(s) \in Nat
         /\ Cardinality(s) <= Cardinality(S) /\ Cardinality(S) \in Nat
         /\ Cardinality(s) = 0 <=> s = {}
         /\ s # {} => /\ Taken(s) \in s /\ s \ {Taken(s)} \in SUBSET S
                      /\ Cardinality(s \ {Taken(s)}) = Cardinality(s) - 1
<1>1. IsFiniteSet(s) /\ Cardinality(s) <= Cardinality(S)
  BY FS_Subset
<1>2. Cardinality(s) \in Nat /\ Cardinality(S) \in Nat
  BY <1>1, FS_CardinalityType
<1>3. Cardinality(s) = 0 <=> s = {}
  BY <1>1, FS_EmptySet
<1>4. ASSUME s # {} PROVE Taken(s) \in s
  BY <1>4 DEF Taken
<1>5. ASSUME s # {}
      PROVE  Cardinality(s \ {Taken(s)}) = Cardinality(s) - 1
  BY <1>1, <1>4, <1>5, FS_RemoveElement
<1> QED
  BY <1>1, <1>2, <1>3, <1>4, <1>5

\* The sums exist.
LEMMA SumsExist ==
  ASSUME NEW S, IsFiniteSet(S), NEW v, \A row \in S : v[row] \in Int
  PROVE  \E f : Sums(f, v, S)
<1> DEFINE UpTo(k) == \E f \in [SUBSET S -> Int] :
                        \A s \in SUBSET S : Cardinality(s) <= k => f[s] = SumFrom(f, v, s)
           Not == {k \in Nat : ~UpTo(k)}
<1>1. UpTo(0)
  <2> DEFINE f == [s \in SUBSET S |-> 0]
  <2>1. f \in [SUBSET S -> Int]
    OBVIOUS
  <2>2. ASSUME NEW s \in SUBSET S, Cardinality(s) <= 0
        PROVE  f[s] = SumFrom(f, v, s)
    <3>1. Cardinality(s) \in Nat /\ (Cardinality(s) = 0 => s = {})
      BY Smaller
    <3>2. s = {}
      BY <2>2, <3>1
    <3> QED
      BY <3>2 DEF SumFrom
  <2> QED
    BY <2>1, <2>2
<1>2. ASSUME NEW k \in Nat, UpTo(k)
      PROVE  UpTo(k + 1)
  <2>1. PICK f \in [SUBSET S -> Int] :
               \A s \in SUBSET S : Cardinality(s) <= k => f[s] = SumFrom(f, v, s)
    BY <1>2
  <2> DEFINE g == [s \in SUBSET S |-> SumFrom(f, v, s)]
  <2>2. ASSUME NEW s \in SUBSET S PROVE SumFrom(f, v, s) \in Int
    <3>1. CASE s = {}
      BY <3>1 DEF SumFrom
    <3>2. CASE s # {}
      <4>1. Taken(s) \in S /\ s \ {Taken(s)} \in SUBSET S
        BY <3>2, Smaller
      <4>2. v[Taken(s)] \in Int /\ f[s \ {Taken(s)}] \in Int
        BY <4>1
      <4> QED
        BY <3>2, <4>2 DEF SumFrom
    <3> QED
      BY <3>1, <3>2
  <2>3. g \in [SUBSET S -> Int]
    BY <2>2
  <2>4. ASSUME NEW s \in SUBSET S, Cardinality(s) <= k + 1
        PROVE  g[s] = SumFrom(g, v, s)
    <3>1. CASE s = {}
      BY <3>1 DEF SumFrom
    <3>2. CASE s # {}
      <4>1. /\ s \ {Taken(s)} \in SUBSET S
            /\ Cardinality(s \ {Taken(s)}) = Cardinality(s) - 1
            /\ Cardinality(s) \in Nat
        BY <3>2, Smaller
      <4>2. f[s \ {Taken(s)}] = g[s \ {Taken(s)}]
        BY <2>1, <2>4, <4>1
      <4> QED
        BY <3>2, <4>2 DEF SumFrom
    <3> QED
      BY <3>1, <3>2
  <2> QED
    BY <2>3, <2>4
<1>3. Not = {}
  <2> HIDE DEF UpTo
  <2> SUFFICES ASSUME Not # {} PROVE FALSE
    OBVIOUS
  <2>1. PICK k \in Not : \A m \in Not : k <= m
    BY LeastNatural
  <2>2. k \in Nat /\ k # 0
    BY <1>1
  <2>3. k - 1 \in Nat /\ k - 1 \notin Not
    BY <2>1, <2>2
  <2>4. UpTo((k - 1) + 1)
    BY <1>2, <2>3
  <2>5. (k - 1) + 1 = k
    BY <2>2
  <2> QED
    BY <2>4, <2>5
<1>4. UpTo(Cardinality(S))
  <2> HIDE DEF UpTo
  <2>1. Cardinality(S) \in Nat
    BY FS_CardinalityType
  <2> QED
    BY <1>3, <2>1
<1>5. PICK f \in [SUBSET S -> Int] :
             \A s \in SUBSET S : Cardinality(s) <= Cardinality(S) => f[s] = SumFrom(f, v, s)
  BY <1>4
<1>6. \A s \in SUBSET S : f[s] = SumFrom(f, v, s)
  BY <1>5, Smaller
<1>7. f = [s \in SUBSET S |-> SumFrom(f, v, s)]
  BY <1>6
<1> QED
  BY <1>7 DEF Sums

\* A bound that every row keeps is a bound of the sum.
LEMMA SumAtLeast ==
  ASSUME NEW S, IsFiniteSet(S), NEW v, \A row \in S : v[row] \in Int, NEW e \in Int,
         NEW H \in [SUBSET S -> Int], H[{}] <= 0,
         \A s \in SUBSET S : \A x \in s : H[s] <= H[s \ {x}] + e * v[x]
  PROVE  SumOver(v, S) \in Int /\ H[S] <= e * SumOver(v, S)
<1> DEFINE f == CHOOSE g : Sums(g, v, S)
<1>1. Sums(f, v, S)
  BY SumsExist
<1> HIDE DEF f
<1>2. \A s \in SUBSET S : f[s] = SumFrom(f, v, s)
  <2> DEFINE rhs == [s \in SUBSET S |-> SumFrom(f, v, s)]
  <2>1. f = rhs
    BY <1>1 DEF Sums
  <2>2. \A s \in SUBSET S : rhs[s] = SumFrom(f, v, s)
    OBVIOUS
  <2> HIDE DEF rhs
  <2> QED
    BY <2>1, <2>2
<1> DEFINE Bounded(s) == f[s] \in Int /\ H[s] <= e * f[s]
           Not == {k \in Nat : \E s \in SUBSET S : Cardinality(s) = k /\ ~Bounded(s)}
<1>3. Bounded({})
  <2>1. f[{}] = 0
    BY <1>2 DEF SumFrom
  <2>2. e * 0 = 0
    OBVIOUS
  <2> QED
    BY <2>1, <2>2
<1>4. ASSUME NEW s \in SUBSET S, s # {}, Bounded(s \ {Taken(s)})
      PROVE  Bounded(s)
  <2>1. Taken(s) \in s /\ s \ {Taken(s)} \in SUBSET S
    BY <1>4, Smaller
  <2> DEFINE a == v[Taken(s)]
             b == f[s \ {Taken(s)}]
             c == H[s \ {Taken(s)}]
  <2>2. f[s] = a + b
    BY <1>2, <1>4 DEF SumFrom
  <2>3. a \in Int /\ b \in Int /\ c \in Int /\ c <= e * b /\ H[s] \in Int
    BY <1>4, <2>1
  <2>4. H[s] <= c + e * a
    BY <2>1
  <2> HIDE DEF a, b, c
  <2>5. e * (a + b) = e * a + e * b
    BY <2>3
  <2> QED
    BY <2>2, <2>3, <2>4, <2>5
<1>5. Not = {}
  <2> SUFFICES ASSUME Not # {} PROVE FALSE
    OBVIOUS
  <2>1. PICK k \in Not : \A m \in Not : k <= m
    BY LeastNatural
  <2>2. PICK s \in SUBSET S : Cardinality(s) = k /\ ~Bounded(s)
    BY <2>1
  <2> HIDE DEF Bounded
  <2>3. s # {}
    BY <1>3, <2>2
  <2>4. /\ s \ {Taken(s)} \in SUBSET S /\ k \in Nat /\ k # 0
        /\ Cardinality(s \ {Taken(s)}) = k - 1
    BY <2>2, <2>3, Smaller
  <2>5. k - 1 \notin Not /\ k - 1 \in Nat
    BY <2>1, <2>4
  <2>6. Bounded(s \ {Taken(s)})
    BY <2>4, <2>5
  <2> QED
    BY <1>4, <2>2, <2>3, <2>6
<1>6. Bounded(S)
  <2> HIDE DEF Bounded
  <2>1. Cardinality(S) \in Nat /\ S \in SUBSET S
    BY FS_CardinalityType
  <2> QED
    BY <1>5, <2>1
<1> QED
  BY <1>6 DEF SumOver, f

\* What a row adds to the sum of trace_line_method.
Share == [row \in Rows |-> (imgCol \div 2 - mid[row]) * Weight(row)]

\* The fold of trace_line_method is that sum.
LEMMA FoldIsSum ==
  ASSUME Valid \subseteq Rows
  PROVE  MapThenFoldSet(+, 0, LAMBDA row : (imgCol \div 2 - mid[row]) * Weight(row),
                        LAMBDA S : CHOOSE row \in S : TRUE, Valid)
           = SumOver(Share, Valid)
  BY DEF MapThenFoldSet, SumOver, Sums, SumFrom, Taken, Share
-----------------------------------------------------------------------------
(* The inductive invariant.                                                 *)

Cols == 0 .. imgCol - 1

\* The straight border from column p in the nearest row to q in the farthest.
Line(p, q) == [row \in Rows |-> Between(p, Near, q, 0, row)]

Kinds == {<<"lose">>, <<"straight">>, <<"arc">>, <<"straight", "lose">>, <<"arc", "lose">>,
          <<"lose", "straight">>}

\* What no handler changes of a border: its kinds and its corner point.
Shaped(border) ==
  /\ border \in [b : [Rows -> -imgCol .. 2 * imgCol], seg : Kinds, fp : {0, 1}, x : Rows]
  /\ [seg |-> border.seg, fp |-> border.fp] \in Features
  /\ IF border.fp = 1 THEN border.x \in 7 .. imgRow - 2 ELSE border.x = 0
  /\ border.seg = <<"lose", "straight">> => border.fp = 1

\* A border as Vision_GetSegment judged it.
Judged(border) ==
  /\ Shaped(border) /\ border.b \in [Rows -> Cols]
  /\ border.seg = <<"straight">> => \E p, q \in Cols : border.b = Line(p, q)

\* Only the line drawn at the mouth of a roundabout may leave the image.
Inside ==
  road[1] # "State1" => l.b \in [Rows -> Cols] /\ r.b \in [Rows -> Cols]

\* Seen over the height of the image, a border at the mouth of a roundabout closes
\* in on the other one's mirror image: what it loses by a row the other one gains.
Mirrored(near, far) ==
  far.seg = <<"straight">> /\ near.fp > 0 /\ Seg(near, 0) # "lose" =>
    \E p, q \in Cols, y, x \in Int :
      /\ far.b = Line(p, q)
      /\ near.b = [row \in Rows |-> Quot(y * Near - (row - x) * (p - q), Near)]
Course ==
  /\ road = <<"State1", "L">> => Mirrored(l, r)
  /\ road = <<"State1", "R">> => Mirrored(r, l)

\* The line across the road, and the border that is lost for it.
Across(state, leftNear, rightFar, rightNear) ==
  /\ road = <<state, "L">> =>
       /\ r.b = AdditionalLine(0, leftNear)
       /\ \A row \in Rows \ {Near} : l.b[row] = LEFT_LOSE_VALUE
  /\ road = <<state, "R">> =>
       /\ l.b = AdditionalLine(rightFar, rightNear)
       /\ \A row \in Rows \ {Near} : r.b[row] = RIGHT_LOSE_VALUE

\* What CrossClosed asks for, of one border.
Continued(border) ==
  /\ border.seg = <<"arc">> /\ border.fp > 0 =>
       \A row \in 1 .. border.x - 1 : \E k \in border.x .. Near - 1 :
         Jump(border.b, row) <= Jump(border.b, k)
  /\ border.seg[1] = "lose" =>
       \A row \in border.x .. Near - 2 : \E k \in 0 .. border.x - 1 :
         Jump(border.b, row) <= Jump(border.b, k)
Closed ==
  road = <<"Cross">> /\ CrossCon4 /\ <<"arc">> \in {l.seg, r.seg} =>
    Continued(l) /\ Continued(r)

Middles == mid = [row \in Rows |-> Quot(r.b[row] + l.b[row], 2)]
Weighed == sum = SumOver(Share, Valid) /\ valid_line = Cardinality(Valid)

SteeringInv ==
  /\ SteeringTypeOK /\ Shaped(l) /\ Shaped(r)
  /\ pc = "judged" => Judged(l) /\ Judged(r)
  /\ pc # "judged" => /\ Inside /\ Course /\ Closed
                      /\ Across("State3", 187, 187, 10) /\ Across("out", 180, 186, 20)
  /\ pc \in {"middle", "steered"} => Middles
  /\ pc = "steered" => Weighed
-----------------------------------------------------------------------------
(* The borders of a frame.                                                  *)

\* The image has more than twelve rows and more than 187 columns.
LEMMA Image ==
  /\ imgRow \in Nat /\ Near \in Nat /\ Near >= 12 /\ Near = imgRow - 1 /\ Near \in Nat \ {0}
  /\ \A row : row \in Rows <=> row \in Int /\ 0 <= row /\ row <= Near
  /\ 0 \in Rows /\ Near \in Rows
  /\ imgCol \in Nat /\ imgCol > 187
  /\ \A col : col \in Cols <=> col \in Int /\ 0 <= col /\ col <= imgCol - 1
  /\ 0 \in Cols /\ imgCol - 1 \in Cols /\ Cols \subseteq -imgCol .. 2 * imgCol
<1>1. imgRow \in Nat /\ imgRow > 12 /\ imgCol \in Nat /\ imgCol > 187
  BY SteeringAssumption
<1> QED
  BY <1>1 DEF Near, Rows, Cols

\* The shapes of the frames are among those RoadSymbol knows.
LEMMA KindsKnown ==
  /\ [seg |-> <<"lose">>, fp |-> 0] \in Features
  /\ [seg |-> <<"straight">>, fp |-> 0] \in Features
  /\ \A n \in {0, 1} : [seg |-> <<"arc">>, fp |-> n] \in Features
  /\ [seg |-> <<"straight", "lose">>, fp |-> 1] \in Features
  /\ [seg |-> <<"arc", "lose">>, fp |-> 1] \in Features
  /\ [seg |-> <<"lose", "straight">>, fp |-> 1] \in Features
<1>1. ASSUME NEW s \in Borders, NEW n \in Points(s)
      PROVE  [seg |-> s, fp |-> n] \in Features
  BY DEF Features
<1>2. "straight" \in Lines /\ "arc" \in Lines
  BY DEF Lines, Bends
<1>3. /\ <<"lose">> \in Borders /\ <<"lose", "straight">> \in Borders
      /\ <<"straight">> \in Borders /\ <<"arc">> \in Borders
      /\ <<"straight", "lose">> \in Borders /\ <<"arc", "lose">> \in Borders
  BY <1>2, Zenon DEF Borders
<1>4. /\ 0 \in Points(<<"lose">>) /\ 0 \in Points(<<"straight">>)
      /\ \A n \in {0, 1} : n \in Points(<<"arc">>)
      /\ 1 \in Points(<<"straight", "lose">>) /\ 1 \in Points(<<"arc", "lose">>)
      /\ 1 \in Points(<<"lose", "straight">>)
  BY DEF Points, ArcPoints
<1> QED
  BY <1>1, <1>3, <1>4

\* A straight line between columns of the image has columns of the image.
LEMMA LineInImage ==
  ASSUME NEW p \in Cols, NEW q \in Cols, NEW i \in Rows, NEW k \in Rows, k < i,
         NEW row \in k .. i
  PROVE  Between(p, i, q, k, row) \in Cols
<1>1. p \in Int /\ q \in Int /\ i \in Int /\ k \in Int /\ imgCol - 1 \in Int
  BY Image
<1> DEFINE lo == 0
           hi == imgCol - 1
<1>2. p \in lo .. hi /\ q \in lo .. hi /\ lo \in Int /\ hi \in Int
  BY <1>1 DEF Cols
<1>3. Cols = lo .. hi
  BY DEF Cols
<1> HIDE DEF lo, hi
<1>4. Between(p, i, q, k, row) \in lo .. hi
  BY <1>1, <1>2, BetweenEnds
<1> QED
  BY <1>3, <1>4

\* Every border of a frame is one as Vision_GetSegment judges it.
LEMMA FramesJudged ==
  ASSUME NEW columns, columns \subseteq Cols, NEW lost \in Cols,
         NEW border \in BordersAt(columns, lost)
  PROVE  Judged(border)
<1> USE Image
<1> DEFINE B == [Rows -> Cols]
<1>1. PointRows \subseteq 7 .. imgRow - 2
  BY SteeringAssumption
<1>2. \A x \in PointRows : x \in Rows /\ 0 < x /\ x < Near /\ x \in 7 .. imgRow - 2
  BY <1>1
<1>3. \A b \in B : b \in [Rows -> -imgCol .. 2 * imgCol]
  OBVIOUS
<1>4. ASSUME NEW p \in columns, NEW q \in columns, NEW row \in Rows
      PROVE  Between(p, Near, q, 0, row) \in Cols
  <2>1. p \in Cols /\ q \in Cols /\ 0 < Near /\ row \in 0 .. Near
    OBVIOUS
  <2> QED
    BY <2>1, LineInImage
<1>5. ASSUME NEW p \in columns, NEW q \in columns, NEW x \in PointRows, NEW row \in Rows
      PROVE  /\ row >= x => Between(p, Near, q, x, row) \in Cols
             /\ row < x => Between(p, x, q, 0, row) \in Cols
  <2>1. p \in Cols /\ q \in Cols /\ x \in Rows /\ x < Near /\ 0 < x /\ row \in 0 .. Near
    BY <1>2
  <2>2. row >= x => row \in x .. Near
    BY <2>1
  <2>3. row < x => row \in 0 .. x
    BY <2>1
  <2> QED
    BY <2>1, <2>2, <2>3, LineInImage
<1>6. CASE border = Gone(lost)
  <2>1. [row \in Rows |-> lost] \in B
    OBVIOUS
  <2> QED
    BY <1>3, <1>6, <2>1, KindsKnown DEF Judged, Shaped, Gone, Kinds
<1>7. ASSUME NEW p \in columns, NEW q \in columns, border = Straight(p, q)
      PROVE  Judged(border)
  <2>1. Line(p, q) \in B
    BY <1>4 DEF Line
  <2>2. border = [b |-> Line(p, q), seg |-> <<"straight">>, fp |-> 0, x |-> 0]
    BY <1>7 DEF Straight, Line
  <2> QED
    BY <1>3, <2>1, <2>2, KindsKnown DEF Judged, Shaped, Kinds
<1>8. ASSUME NEW p \in columns, NEW q \in columns, NEW x \in PointRows, NEW b,
             b = [row \in Rows |-> IF row >= x THEN Between(p, Near, q, 0, row) ELSE lost],
             \/ border = [b |-> b, seg |-> <<"straight", "lose">>, fp |-> 1, x |-> x]
             \/ border = [b |-> b, seg |-> <<"arc", "lose">>, fp |-> 1, x |-> x]
      PROVE  Judged(border)
  <2>1. b \in B
    BY <1>4, <1>8
  <2>2. CASE border = [b |-> b, seg |-> <<"straight", "lose">>, fp |-> 1, x |-> x]
    BY <1>2, <1>3, <2>1, <2>2, KindsKnown DEF Judged, Shaped, Kinds
  <2>3. CASE border = [b |-> b, seg |-> <<"arc", "lose">>, fp |-> 1, x |-> x]
    BY <1>2, <1>3, <2>1, <2>3, KindsKnown DEF Judged, Shaped, Kinds
  <2> QED
    BY <1>8, <2>2, <2>3
<1>9. ASSUME NEW p \in columns, NEW q \in columns, NEW x \in PointRows,
             border = Late(p, q, x, lost)
      PROVE  Judged(border)
  <2> DEFINE b == [row \in Rows |-> IF row <= x THEN Between(p, Near, q, 0, row) ELSE lost]
  <2>1. b \in B
    BY <1>4
  <2>2. border = [b |-> b, seg |-> <<"lose", "straight">>, fp |-> 1, x |-> x]
    BY <1>9 DEF Late
  <2> QED
    BY <1>2, <1>3, <2>1, <2>2, KindsKnown DEF Judged, Shaped, Kinds
<1>10. ASSUME NEW p \in columns, NEW m \in columns, NEW q \in columns, NEW x \in PointRows,
              NEW n \in ArcPoints, border = Bent(p, m, q, x, n)
       PROVE  Judged(border)
  <2> DEFINE b == [row \in Rows |-> IF row >= x THEN Between(p, Near, m, x, row)
                                    ELSE Between(m, x, q, 0, row)]
  <2>1. b \in B
    BY <1>2, <1>5
  <2>2. border = [b |-> b, seg |-> <<"arc">>, fp |-> n, x |-> IF n = 0 THEN 0 ELSE x]
    BY <1>10 DEF Bent
  <2>3. n \in {0, 1}
    BY DEF ArcPoints
  <2>4. n = 1 => (IF n = 0 THEN 0 ELSE x) = x
    OBVIOUS
  <2>5. (IF n = 0 THEN 0 ELSE x) \in Rows /\ (n = 0 => (IF n = 0 THEN 0 ELSE x) = 0)
    BY <1>2
  <2> DEFINE y == IF n = 0 THEN 0 ELSE x
  <2> HIDE DEF b, y
  <2> QED
    BY <1>2, <1>3, <2>1, <2>2, <2>3, <2>4, <2>5, KindsKnown DEF Judged, Shaped, Kinds, y
<1>11. CASE \E p, q \in columns, x \in PointRows :
              border = Broken(p, q, x, lost) \/ border = BrokenArc(p, q, x, lost)
  <2>1. PICK p \in columns, q \in columns, x \in PointRows :
              border = Broken(p, q, x, lost) \/ border = BrokenArc(p, q, x, lost)
    BY <1>11
  <2> DEFINE b == [row \in Rows |-> IF row >= x THEN Between(p, Near, q, 0, row) ELSE lost]
  <2>2. Broken(p, q, x, lost) = [b |-> b, seg |-> <<"straight", "lose">>, fp |-> 1, x |-> x]
    BY DEF Broken
  <2>3. BrokenArc(p, q, x, lost) = [b |-> b, seg |-> <<"arc", "lose">>, fp |-> 1, x |-> x]
    <3> HIDE DEF b
    <3> QED
      BY <2>2 DEF BrokenArc
  <2> QED
    BY <1>8, <2>1, <2>2, <2>3
<1> QED
  BY <1>6, <1>7, <1>9, <1>10, <1>11 DEF BordersAt

\* ... at the start of the frame.
LEMMA SteeringInitially == SteeringInit => SteeringInv
<1> SUFFICES ASSUME SteeringInit PROVE SteeringInv
  OBVIOUS
<1> USE Image
<1>1. LeftColumns \subseteq 1 .. imgCol \div 2 - 1
  BY SteeringAssumption
<1>2. LeftColumns \subseteq Cols
  BY <1>1
<1>3. RightColumns \subseteq Cols
  BY <1>2 DEF RightColumns
<1>4. Judged(l)
  BY <1>2, FramesJudged DEF SteeringInit, LEFT_LOSE_VALUE
<1>5. Judged(r)
  BY <1>3, FramesJudged DEF SteeringInit, RIGHT_LOSE_VALUE
<1>6. SteeringTypeOK
  <2>1. mid \in [Rows -> -imgCol .. 2 * imgCol]
    BY DEF SteeringInit
  <2>2. \A border \in {l, r} :
          /\ border.b \in [Rows -> (-imgCol) .. 2 * imgCol]
          /\ [seg |-> border.seg, fp |-> border.fp] \in Features
          /\ border.x \in Rows
    BY <1>4, <1>5 DEF Judged, Shaped
  <2>3. sum \in Int /\ valid_line \in 0 .. imgRow
    BY DEF SteeringInit
  <2> QED
    BY <2>1, <2>2, <2>3 DEF SteeringInit, SteeringTypeOK
<1> QED
  BY <1>4, <1>5, <1>6 DEF SteeringInit, SteeringInv, Judged
-----------------------------------------------------------------------------
(* Redrawn borders.                                                         *)

\* A column is put back into the image.
LEMMA PutBack == ASSUME NEW c \in Int PROVE InImage(c) \in Cols
  BY Image DEF InImage

\* The numerators of the two extensions.
FarNumber(b, x, k, row) == b[x] * k - (b[x + k] - b[x]) * (x - row)
NearNumber(b, x, row) == b[x] * 5 + (b[x] - b[x - 5]) * (row - x)

\* Vision_ExtendLine to the far end, with the slope of the rows at hand.
LEMMA FarExtension ==
  ASSUME NEW b \in [Rows -> Cols], NEW x \in 7 .. imgRow - 2
  PROVE  \E k \in 1 .. 5 :
           /\ x + k \in Rows
           /\ \A row \in Rows : FarNumber(b, x, k, row) \in Int
           /\ ExtendFar(b, x) =
                [row \in Rows |-> IF row \in 1 .. x - 1
                                  THEN InImage(Quot(FarNumber(b, x, k, row), k)) ELSE b[row]]
<1> USE Image
<1> DEFINE k == IF x + 5 <= Near THEN 5 ELSE Near - x
<1>1. k \in 1 .. 5 /\ x + k \in Rows /\ x \in Rows
  OBVIOUS
<1>2. ExtendFar(b, x) =
        [row \in Rows |-> IF row \in 1 .. x - 1
                          THEN InImage(Quot(FarNumber(b, x, k, row), k)) ELSE b[row]]
  BY DEF ExtendFar, FarNumber
<1> HIDE DEF k
<1>3. b[x] \in Int /\ b[x + k] \in Int /\ k \in Int /\ x \in Int
  BY <1>1
<1>4. ASSUME NEW row \in Rows PROVE FarNumber(b, x, k, row) \in Int
  <2>1. row \in Int
    OBVIOUS
  <2> QED
    BY <1>3, <2>1 DEF FarNumber
<1> QED
  BY <1>1, <1>2, <1>4

\* ... to the near end.
LEMMA NearExtension ==
  ASSUME NEW b \in [Rows -> Cols], NEW x \in 7 .. imgRow - 2
  PROVE  /\ x - 5 \in Rows /\ x \in Rows
         /\ \A row \in Rows : NearNumber(b, x, row) \in Int
         /\ ExtendNear(b, x) =
              [row \in Rows |-> IF row \in x .. Near - 1
                                THEN InImage(Quot(NearNumber(b, x, row), 5)) ELSE b[row]]
<1> USE Image
<1>1. x - 5 \in Rows /\ x \in Rows /\ x - 5 >= 0
  OBVIOUS
<1>2. ExtendNear(b, x) =
        [row \in Rows |-> IF row \in x .. Near - 1
                          THEN InImage(Quot(NearNumber(b, x, row), 5)) ELSE b[row]]
  BY <1>1 DEF ExtendNear, NearNumber
<1>3. b[x] \in Int /\ b[x - 5] \in Int /\ x \in Int
  BY <1>1
<1>4. ASSUME NEW row \in Rows PROVE NearNumber(b, x, row) \in Int
  <2>1. row \in Int
    OBVIOUS
  <2> QED
    BY <1>3, <2>1 DEF NearNumber
<1> QED
  BY <1>1, <1>2, <1>4

\* Extended borders are in the image.
LEMMA ExtendedInImage ==
  ASSUME NEW b \in [Rows -> Cols], NEW x \in 7 .. imgRow - 2
  PROVE  ExtendFar(b, x) \in [Rows -> Cols] /\ ExtendNear(b, x) \in [Rows -> Cols]
<1>1. ExtendFar(b, x) \in [Rows -> Cols]
  <2>1. PICK k \in 1 .. 5 :
           /\ \A row \in Rows : FarNumber(b, x, k, row) \in Int
           /\ ExtendFar(b, x) =
                [row \in Rows |-> IF row \in 1 .. x - 1
                                  THEN InImage(Quot(FarNumber(b, x, k, row), k)) ELSE b[row]]
    BY FarExtension
  <2>2. \A row \in Rows : InImage(Quot(FarNumber(b, x, k, row), k)) \in Cols
    <3>1. k \in Nat \ {0}
      OBVIOUS
    <3> QED
      BY <2>1, <3>1, Truncated, PutBack
  <2> QED
    BY <2>1, <2>2
<1>2. ExtendNear(b, x) \in [Rows -> Cols]
  <2>1. \A row \in Rows : InImage(Quot(NearNumber(b, x, row), 5)) \in Cols
    <3>1. 5 \in Nat \ {0}
      OBVIOUS
    <3> QED
      BY <3>1, NearExtension, Truncated, PutBack
  <2> QED
    BY <2>1, NearExtension
<1> QED
  BY <1>1, <1>2

\* The line across the road is in the image.
LEMMA AcrossInImage ==
  ASSUME NEW far \in 0 .. 187, NEW near \in 0 .. 187
  PROVE  AdditionalLine(far, near) \in [Rows -> 0 .. 187]
<1> USE Image
<1>1. ASSUME NEW row \in Rows
      PROVE  Quot(row * (near - far) + Near * far, Near) \in 0 .. 187
  <2> DEFINE lo == 0
             hi == 187
             n == row * (near - far) + Near * far
  <2>1. row \in Int /\ Near \in Int /\ far \in Int /\ near \in Int /\ 0 <= row /\ 0 <= Near - row
    OBVIOUS
  <2>2. n \in Int /\ n = row * near + (Near - row) * far
    BY <2>1
  <2>3. row * near >= 0 /\ row * near <= row * 187
    BY <2>1
  <2>4. (Near - row) * far >= 0 /\ (Near - row) * far <= (Near - row) * 187
    BY <2>1
  <2>5. row * 187 + (Near - row) * 187 = 187 * Near
    BY <2>1
  <2>6. lo * Near <= n /\ n <= hi * Near /\ lo \in Int /\ hi \in Int /\ lo <= 0 /\ 0 <= hi
    BY <2>1, <2>2, <2>3, <2>4, <2>5
  <2>7. Near \in Nat \ {0}
    OBVIOUS
  <2> HIDE DEF lo, hi, n
  <2>8. Quot(n, Near) \in lo .. hi
    BY <2>2, <2>6, <2>7, TruncatedWithin
  <2> QED
    BY <2>8 DEF lo, hi, n
<1> QED
  BY <1>1 DEF AdditionalLine

\* The line at the mouth of a roundabout leaves the image by no more than its width.
LEMMA MouthNearImage ==
  ASSUME NEW b \in [Rows -> Cols], NEW x \in Rows, NEW other \in [Rows -> Cols]
  PROVE  SetLineWithPointK(b, x, other) \in [Rows -> -imgCol .. 2 * imgCol]
<1> USE Image
<1> DEFINE c == imgCol - 1
           e == other[Near] - other[0]
<1>1. c \in Nat /\ b[x] \in 0 .. c /\ e \in -c .. c
  <2>1. other[Near] \in Cols /\ other[0] \in Cols /\ b[x] \in Cols
    OBVIOUS
  <2> QED
    BY <2>1
<1>2. ASSUME NEW row \in Rows
      PROVE  Quot(b[x] * Near - (row - x) * e, Near) \in -c .. 2 * c
  <2> DEFINE t == row - x
             y == b[x]
             n == y * Near - t * e
             lo == -c
             hi == 2 * c
  <2>1. t \in -Near .. Near /\ y \in 0 .. c
    BY <1>1
  <2> HIDE DEF t, y, c, e
  <2>2. t * e <= Near * c /\ -(Near * c) <= t * e
    <3>1. CASE t >= 0
      <4>1. t * e <= t * c /\ -(t * c) <= t * e
        BY <1>1, <2>1, <3>1
      <4>2. t * c <= Near * c
        BY <1>1, <2>1
      <4> QED
        BY <1>1, <2>1, <4>1, <4>2
    <3>2. CASE t < 0
      <4>1. t * e <= (-t) * c /\ -((-t) * c) <= t * e
        BY <1>1, <2>1, <3>2
      <4>2. (-t) * c <= Near * c
        BY <1>1, <2>1
      <4> QED
        BY <1>1, <2>1, <4>1, <4>2
    <3> QED
      BY <2>1, <3>1, <3>2
  <2>3. 0 <= y * Near /\ y * Near <= Near * c /\ n \in Int
    BY <1>1, <2>1
  <2>4. lo * Near = -(Near * c) /\ hi * Near = Near * c + Near * c
    BY <1>1
  <2>5. lo * Near <= n /\ n <= hi * Near
    BY <1>1, <2>1, <2>2, <2>3, <2>4
  <2>6. lo \in Int /\ hi \in Int /\ lo <= 0 /\ 0 <= hi /\ Near \in Nat \ {0}
    BY <1>1
  <2> HIDE DEF lo, hi, n
  <2>7. Quot(n, Near) \in lo .. hi
    BY <2>3, <2>5, <2>6, TruncatedWithin
  <2> QED
    BY <2>7 DEF lo, hi, n, t, y
<1>3. -c .. 2 * c \subseteq -imgCol .. 2 * imgCol
  OBVIOUS
<1>4. SetLineWithPointK(b, x, other) = [row \in Rows |-> Quot(b[x] * Near - (row - x) * e, Near)]
  BY DEF SetLineWithPointK
<1> HIDE DEF c, e
<1> QED
  BY <1>2, <1>3, <1>4
-----------------------------------------------------------------------------
(* The jumps of an extended border.                                         *)

\* Two neighbouring columns of an extension differ by no more than its slope,
\* rounded up, whether they are put back into the image or not.
LEMMA StepOfExtension ==
  ASSUME NEW k \in 1 .. 5, NEW n \in Int, NEW d \in Int, NEW m \in Nat,
         d <= m * k, -(m * k) <= d
  PROVE  /\ InImage(Quot(n, k)) - InImage(Quot(n + d, k)) <= m
         /\ InImage(Quot(n + d, k)) - InImage(Quot(n, k)) <= m
<1> USE Image DEF InImage, Quot
<1>1. CASE k = 1
  BY <1>1
<1>2. CASE k = 2
  BY <1>2
<1>3. CASE k = 3
  BY <1>3
<1>4. CASE k = 4
  BY <1>4
<1>5. CASE k = 5
  BY <1>5
<1> QED
  BY <1>1, <1>2, <1>3, <1>4, <1>5

\* A column is the quotient of its multiple.
LEMMA ColumnKept ==
  ASSUME NEW c \in Cols, NEW k \in 1 .. 5
  PROVE  InImage(Quot(c * k, k)) = c
<1> USE Image DEF InImage, Quot
<1>1. CASE k = 1
  BY <1>1
<1>2. CASE k = 2
  BY <1>2
<1>3. CASE k = 3
  BY <1>3
<1>4. CASE k = 4
  BY <1>4
<1>5. CASE k = 5
  BY <1>5
<1> QED
  BY <1>1, <1>2, <1>3, <1>4, <1>5

\* A jump is the distance of two columns.
LEMMA JumpIs ==
  ASSUME NEW b \in [Rows -> Cols], NEW row \in Rows, row + 1 \in Rows
  PROVE  /\ Jump(b, row) \in Nat
         /\ b[row + 1] - b[row] <= Jump(b, row) /\ b[row] - b[row + 1] <= Jump(b, row)
         /\ Jump(b, row) = b[row + 1] - b[row] \/ Jump(b, row) = b[row] - b[row + 1]
<1>1. b[row] \in Int /\ b[row + 1] \in Int
  BY Image
<1> QED
  BY <1>1 DEF Jump

\* Over at most five rows a border that jumps by at most m moves by at most m a row.
LEMMA MovedBy ==
  ASSUME NEW b \in [Rows -> Cols], NEW a \in Rows, NEW k \in 1 .. 5, a + k \in Rows,
         NEW m \in Nat, \A row \in a .. a + k - 1 : Jump(b, row) <= m
  PROVE  b[a + k] - b[a] <= m * k /\ -(m * k) <= b[a + k] - b[a]
<1> USE Image
<1>1. ASSUME NEW j \in 0 .. k - 1
      PROVE  /\ b[a + j] \in Int /\ b[a + (j + 1)] \in Int
             /\ b[a + (j + 1)] - b[a + j] <= m /\ b[a + j] - b[a + (j + 1)] <= m
  <2>1. a + j \in Rows /\ (a + j) + 1 \in Rows /\ a + j \in a .. a + k - 1
        /\ a + (j + 1) = (a + j) + 1
    OBVIOUS
  <2>2. b[a + j] \in Int /\ b[(a + j) + 1] \in Int
    BY <2>1
  <2>3. Jump(b, a + j) <= m /\ Jump(b, a + j) \in Nat
    BY <2>1, JumpIs
  <2>4. b[(a + j) + 1] - b[a + j] <= Jump(b, a + j) /\ b[a + j] - b[(a + j) + 1] <= Jump(b, a + j)
    BY <2>1, JumpIs
  <2> QED
    BY <2>1, <2>2, <2>3, <2>4
<1> DEFINE f == [j \in 0 .. 5 |-> b[a + j]]
<1>2. f[0] = b[a]
  OBVIOUS
<1>3. \A j \in 0 .. k - 1 : f[j] \in Int /\ f[j + 1] \in Int
                            /\ f[j + 1] - f[j] <= m /\ f[j] - f[j + 1] <= m
  BY <1>1
<1>4. f[k] = b[a + k]
  OBVIOUS
<1> HIDE DEF f
<1>5. f[k] - f[0] <= m * k /\ -(m * k) <= f[k] - f[0]
  <2>0. 0 \in 0 .. k - 1
    OBVIOUS
  <2>1. CASE k = 1
    <3>1. f[0 + 1] - f[0] <= m /\ f[0] - f[0 + 1] <= m /\ f[0] \in Int /\ f[0 + 1] \in Int
      BY <1>3, <2>0
    <3> QED
      BY <2>1, <3>1
  <2>2. CASE k = 2
    <3>1. 0 \in 0 .. k - 1 /\ 1 \in 0 .. k - 1
      BY <2>2
    <3> QED
      BY <1>3, <2>2, <3>1
  <2>3. CASE k = 3
    <3>1. 0 \in 0 .. k - 1 /\ 1 \in 0 .. k - 1 /\ 2 \in 0 .. k - 1
      BY <2>3
    <3> QED
      BY <1>3, <2>3, <3>1
  <2>4. CASE k = 4
    <3>1. 0 \in 0 .. k - 1 /\ 1 \in 0 .. k - 1 /\ 2 \in 0 .. k - 1 /\ 3 \in 0 .. k - 1
      BY <2>4
    <3> QED
      BY <1>3, <2>4, <3>1
  <2>5. CASE k = 5
    <3>1. 0 \in 0 .. k - 1 /\ 1 \in 0 .. k - 1 /\ 2 \in 0 .. k - 1 /\ 3 \in 0 .. k - 1
          /\ 4 \in 0 .. k - 1
      BY <2>5
    <3> QED
      BY <1>3, <2>5, <3>1
  <2> QED
    BY <2>1, <2>2, <2>3, <2>4, <2>5
<1> QED
  BY <1>2, <1>4, <1>5

\* An arc that is extended jumps no more than it did before its corner point.
LEMMA FarContinued ==
  ASSUME NEW b \in [Rows -> Cols], NEW x \in 7 .. imgRow - 2, NEW row \in 1 .. x - 1
  PROVE  \E k \in x .. Near - 1 : Jump(ExtendFar(b, x), row) <= Jump(ExtendFar(b, x), k)
<1> USE Image
<1> DEFINE c == ExtendFar(b, x)
<1>1. PICK k \in 1 .. 5 :
         /\ x + k \in Rows
         /\ \A i \in Rows : FarNumber(b, x, k, i) \in Int
         /\ c = [i \in Rows |-> IF i \in 1 .. x - 1
                                THEN InImage(Quot(FarNumber(b, x, k, i), k)) ELSE b[i]]
  BY FarExtension
<1>2. c \in [Rows -> Cols]
  BY ExtendedInImage
<1> HIDE DEF c
<1>3. x \in Rows /\ row \in Rows /\ row + 1 \in Rows /\ row \in Int
  OBVIOUS
<1> DEFINE J == Jump(c, row)
<1> SUFFICES ASSUME \A i \in x .. Near - 1 : J > Jump(c, i) PROVE FALSE
  <2>1. J \in Nat /\ \A i \in x .. Near - 1 : Jump(c, i) \in Nat
    <3>1. \A i \in x .. Near - 1 : i \in Rows /\ i + 1 \in Rows
      BY <1>3
    <3> QED
      BY <1>2, <1>3, <3>1, JumpIs
  <2> HIDE DEF J
  <2> QED
    BY <2>1 DEF c, J
<1>4. \A i \in x .. x + k - 1 : i \in Rows /\ i + 1 \in Rows /\ i \in x .. Near - 1
  BY <1>1, <1>3
<1>5. \A i \in x .. x + k - 1 : Jump(c, i) \in Nat /\ Jump(c, i) < J
  BY <1>2, <1>4, JumpIs
<1>6. J \in Nat
  BY <1>2, <1>3, JumpIs
<1> DEFINE m == J - 1
<1>7. m \in Nat /\ \A i \in x .. x + k - 1 : Jump(c, i) <= m
  <2>1. x \in x .. x + k - 1
    BY <1>1, <1>3
  <2> HIDE DEF J
  <2> QED
    BY <1>5, <1>6, <2>1
<1> DEFINE d == b[x + k] - b[x]
<1>8. c[x] = b[x] /\ c[x + k] = b[x + k]
  BY <1>1, <1>3
<1> HIDE DEF m, J
<1>9. d <= m * k /\ -(m * k) <= d
  BY <1>1, <1>2, <1>3, <1>7, <1>8, MovedBy
<1>10. c[row] = InImage(Quot(FarNumber(b, x, k, row), k))
  BY <1>1, <1>3
<1>11. c[row + 1] = InImage(Quot(FarNumber(b, x, k, row + 1), k))
  <2>1. CASE row + 1 \in 1 .. x - 1
    BY <1>1, <1>3, <2>1
  <2>2. CASE row + 1 = x
    <3>1. b[x] \in Cols /\ b[x] \in Int /\ b[x + k] \in Int
      BY <1>1, <1>3
    <3>2. FarNumber(b, x, k, x) = b[x] * k
      BY <1>3, <3>1 DEF FarNumber
    <3> QED
      BY <1>8, <2>2, <3>1, <3>2, ColumnKept
  <2> QED
    BY <2>1, <2>2
<1>12. FarNumber(b, x, k, row + 1) = FarNumber(b, x, k, row) + d
  <2>1. b[x] \in Int /\ d \in Int
    BY <1>1, <1>3
  <2> DEFINE t == x - row
  <2>2. t \in Int /\ x - (row + 1) = t - 1
    BY <1>3
  <2>3. FarNumber(b, x, k, row) = b[x] * k - d * t /\ FarNumber(b, x, k, row + 1) = b[x] * k - d * (t - 1)
    BY <2>2 DEF FarNumber
  <2> HIDE DEF t, d
  <2>4. d * (t - 1) = d * t - d
    BY <2>1, <2>2
  <2> QED
    BY <2>1, <2>2, <2>3, <2>4
<1>13. FarNumber(b, x, k, row) \in Int /\ d \in Int
  BY <1>1, <1>3
<1> HIDE DEF d
<1>14. c[row] - c[row + 1] <= m /\ c[row + 1] - c[row] <= m
  BY <1>7, <1>9, <1>10, <1>11, <1>12, <1>13, StepOfExtension
<1>15. J = c[row + 1] - c[row] \/ J = c[row] - c[row + 1]
  BY <1>2, <1>3, JumpIs DEF J
<1> QED
  BY <1>6, <1>14, <1>15 DEF m

\* The line on the other side jumps no more towards the car than it does beyond.
LEMMA NearContinued ==
  ASSUME NEW b \in [Rows -> Cols], NEW x \in 7 .. imgRow - 2, NEW row \in x .. Near - 2
  PROVE  \E k \in 0 .. x - 1 : Jump(ExtendNear(b, x), row) <= Jump(ExtendNear(b, x), k)
<1> USE Image
<1> DEFINE c == ExtendNear(b, x)
           a == x - 5
<1>1. /\ a \in Rows /\ x \in Rows
      /\ \A i \in Rows : NearNumber(b, x, i) \in Int
      /\ c = [i \in Rows |-> IF i \in x .. Near - 1
                             THEN InImage(Quot(NearNumber(b, x, i), 5)) ELSE b[i]]
  BY NearExtension
<1>2. c \in [Rows -> Cols]
  BY ExtendedInImage
<1> HIDE DEF c
<1>3. row \in Rows /\ row + 1 \in Rows /\ row \in Int /\ a + 5 = x /\ a \in Int /\ 0 <= a
  OBVIOUS
<1> DEFINE J == Jump(c, row)
<1> SUFFICES ASSUME \A i \in 0 .. x - 1 : J > Jump(c, i) PROVE FALSE
  <2>1. J \in Nat /\ \A i \in 0 .. x - 1 : Jump(c, i) \in Nat
    <3>1. \A i \in 0 .. x - 1 : i \in Rows /\ i + 1 \in Rows
      BY <1>1
    <3> QED
      BY <1>2, <1>3, <3>1, JumpIs
  <2> HIDE DEF J
  <2> QED
    BY <2>1 DEF c, J
<1>4. \A i \in a .. a + 5 - 1 : i \in Rows /\ i + 1 \in Rows /\ i \in 0 .. x - 1
  BY <1>1, <1>3
<1>5. \A i \in a .. a + 5 - 1 : Jump(c, i) \in Nat /\ Jump(c, i) < J
  BY <1>2, <1>4, JumpIs
<1>6. J \in Nat
  BY <1>2, <1>3, JumpIs
<1> DEFINE m == J - 1
<1>7. m \in Nat /\ \A i \in a .. a + 5 - 1 : Jump(c, i) <= m
  <2>1. a \in a .. a + 5 - 1
    BY <1>3
  <2> HIDE DEF J, a
  <2> QED
    BY <1>5, <1>6, <2>1
<1> DEFINE d == b[x] - b[a]
<1>8. c[a] = b[a] /\ c[x] = b[x]
  <2>1. c[a] = b[a]
    BY <1>1, <1>3
  <2>2. b[x] \in Cols /\ b[x] \in Int /\ b[a] \in Int /\ 5 \in 1 .. 5
    BY <1>1
  <2>3. NearNumber(b, x, x) = b[x] * 5
    BY <1>1, <2>2 DEF NearNumber
  <2>4. c[x] = InImage(Quot(NearNumber(b, x, x), 5))
    BY <1>1
  <2> QED
    BY <2>1, <2>2, <2>3, <2>4, ColumnKept
<1> HIDE DEF m, J
<1>9. d <= m * 5 /\ -(m * 5) <= d
  <2>1. 5 \in 1 .. 5 /\ a + 5 \in Rows
    BY <1>1, <1>3
  <2> HIDE DEF a
  <2>2. c[a + 5] - c[a] <= m * 5 /\ -(m * 5) <= c[a + 5] - c[a]
    BY <1>1, <1>2, <1>7, <2>1, MovedBy
  <2> QED
    BY <1>3, <1>8, <2>2
<1>10. c[row] = InImage(Quot(NearNumber(b, x, row), 5))
       /\ c[row + 1] = InImage(Quot(NearNumber(b, x, row + 1), 5))
  BY <1>1, <1>3
<1>11. NearNumber(b, x, row + 1) = NearNumber(b, x, row) + d
  <2>1. b[x] \in Int /\ d \in Int
    BY <1>1
  <2> DEFINE t == row - x
  <2>2. t \in Int /\ (row + 1) - x = t + 1
    BY <1>1, <1>3
  <2>3. NearNumber(b, x, row) = b[x] * 5 + d * t /\ NearNumber(b, x, row + 1) = b[x] * 5 + d * (t + 1)
    BY <2>2 DEF NearNumber
  <2> HIDE DEF t, d
  <2>4. d * (t + 1) = d * t + d
    BY <2>1, <2>2
  <2> QED
    BY <2>1, <2>2, <2>3, <2>4
<1>12. NearNumber(b, x, row) \in Int /\ d \in Int /\ 5 \in 1 .. 5
  BY <1>1, <1>3
<1> HIDE DEF d
<1>13. c[row] - c[row + 1] <= m /\ c[row + 1] - c[row] <= m
  BY <1>7, <1>9, <1>10, <1>11, <1>12, StepOfExtension
<1>14. J = c[row + 1] - c[row] \/ J = c[row] - c[row + 1]
  BY <1>2, <1>3, JumpIs DEF J
<1> QED
  BY <1>6, <1>13, <1>14 DEF m
-----------------------------------------------------------------------------
(* The mouth of a roundabout.                                               *)

\* The sum of the two borders in a row, and what it is in every row up to rounding.
MouthSum(p, q, y, x, row) == Quot(y * Near - (row - x) * (p - q), Near) + Line(p, q)[row]
MouthMean(p, q, y, x) == y * Near + x * (p - q) + q * Near

\* The two borders have about the same sum in every row.
LEMMA MirrorSum ==
  ASSUME NEW p \in Cols, NEW q \in Cols, NEW y \in Int, NEW x \in Int, NEW row \in Rows
  PROVE  /\ MouthSum(p, q, y, x, row) \in Int
         /\ MouthMean(p, q, y, x) - 2 * Near < MouthSum(p, q, y, x, row) * Near
         /\ MouthSum(p, q, y, x, row) * Near < MouthMean(p, q, y, x) + Near
<1> USE Image
<1> DEFINE s == MouthSum(p, q, y, x, row)
           d == p - q
           e == ((Near - row) * (q - p)) \div Near
           w == y * Near - (row - x) * d
           u == Quot(w, Near)
           R == row * d
           X == x * d
<1>1. p \in Int /\ q \in Int /\ row \in Int /\ Near \in Int /\ Near \in Nat \ {0}
  OBVIOUS
<1>2. s = u + (p + e)
  <2>1. Line(p, q)[row] = Between(p, Near, q, 0, row)
    BY DEF Line
  <2>2. Between(p, Near, q, 0, row) = p + e
    BY DEF Between
  <2> QED
    BY <2>1, <2>2 DEF MouthSum
<1>3. (Near - row) * (q - p) \in Int
  BY <1>1
<1>4. e \in Int /\ e * Near <= (Near - row) * (q - p)
      /\ (Near - row) * (q - p) < e * Near + Near
  <2> DEFINE n == (Near - row) * (q - p)
  <2>1. n \in Int
    BY <1>1
  <2> HIDE DEF n
  <2>2. n \div Near \in Int /\ (n \div Near) * Near <= n /\ n < (n \div Near) * Near + Near
    BY <1>1, <2>1
  <2> QED
    BY <2>2 DEF n
<1>5. d \in Int /\ w \in Int /\ R \in Int /\ X \in Int
  BY <1>1
<1>6. u \in Int /\ u * Near < w + Near /\ w - Near < u * Near
  <2> HIDE DEF w
  <2>1. /\ u \in Int
        /\ w >= 0 => u * Near <= w /\ w < u * Near + Near
        /\ w < 0 => w <= u * Near /\ u * Near - Near < w
    BY <1>1, <1>5, Truncated
  <2> HIDE DEF u
  <2>2. u * Near \in Int
    BY <1>1, <2>1
  <2> QED
    BY <1>1, <1>5, <2>1, <2>2
<1>7. w = y * Near - R + X
  <2> HIDE DEF d
  <2> QED
    BY <1>1, <1>5
<1>8. (Near - row) * (q - p) = q * Near - p * Near + R
  BY <1>1
<1> HIDE DEF s, u, e, w, R, X
<1>9. s \in Int /\ s * Near = u * Near + p * Near + e * Near
  BY <1>1, <1>2, <1>4, <1>6
<1>10. p * Near \in Int /\ q * Near \in Int /\ y * Near \in Int /\ u * Near \in Int /\ e * Near \in Int
  BY <1>1, <1>4, <1>6
<1>11. s * Near < y * Near + X + q * Near + Near
  BY <1>1, <1>4, <1>5, <1>6, <1>7, <1>8, <1>9, <1>10
<1>12. y * Near + X + q * Near - 2 * Near < s * Near
  BY <1>1, <1>4, <1>5, <1>6, <1>7, <1>8, <1>9, <1>10
<1> QED
  BY <1>9, <1>11, <1>12 DEF X, s, MouthMean

\* So the middles of any two rows are in the same column, or in neighbouring ones.
LEMMA MiddlesInLine ==
  ASSUME NEW near, NEW far, Mirrored(near, far),
         far.seg = <<"straight">>, near.fp > 0, Seg(near, 0) # "lose",
         NEW i \in Rows, NEW k \in Rows,
         NEW s, s = near.b[i] + far.b[i], NEW t, t = near.b[k] + far.b[k]
  PROVE  s \in Int /\ t \in Int /\ Quot(s, 2) - Quot(t, 2) \in -1 .. 1
<1>1. PICK p \in Cols, q \in Cols, y \in Int, x \in Int :
         /\ far.b = Line(p, q)
         /\ near.b = [row \in Rows |-> Quot(y * Near - (row - x) * (p - q), Near)]
  BY DEF Mirrored
<1> DEFINE c == MouthMean(p, q, y, x)
<1>2. c \in Int /\ Near \in Nat \ {0}
  <2>1. p \in Int /\ q \in Int /\ Near \in Int /\ Near \in Nat \ {0}
    BY Image
  <2> QED
    BY <2>1 DEF MouthMean
<1>3. s = MouthSum(p, q, y, x, i) /\ t = MouthSum(p, q, y, x, k)
  BY <1>1 DEF MouthSum
<1>4. s \in Int /\ c - 2 * Near < s * Near /\ s * Near < c + Near
  BY <1>3, MirrorSum
<1>5. t \in Int /\ c - 2 * Near < t * Near /\ t * Near < c + Near
  BY <1>3, MirrorSum
<1> HIDE DEF c
<1>6. s - t < 3
  <2>1. s * Near < (t + 3) * Near
    BY <1>2, <1>4, <1>5
  <2>2. s < t + 3
    BY <1>2, <1>4, <1>5, <2>1, Factored
  <2> QED
    BY <1>4, <1>5, <2>2
<1>7. t - s < 3
  <2>1. t * Near < (s + 3) * Near
    BY <1>2, <1>4, <1>5
  <2>2. t < s + 3
    BY <1>2, <1>4, <1>5, <2>1, Factored
  <2> QED
    BY <1>4, <1>5, <2>2
<1> QED
  BY <1>4, <1>5, <1>6, <1>7 DEF Quot
-----------------------------------------------------------------------------
(* Bounds of the offset.                                                    *)

\* The rows that count, and their weights.
LEMMA Weights ==
  /\ Valid \subseteq Rows /\ IsFiniteSet(Valid)
  /\ Cardinality(Valid) \in 0 .. imgRow
  /\ \A row \in Rows : Weight(row) \in 0 .. imgRow * imgRow
<1> USE Image
<1>1. Valid \subseteq Rows
  <2>1. row_begin \in Nat
    BY SteeringAssumption
  <2> QED
    BY <2>1 DEF Valid
<1>2. IsFiniteSet(Rows) /\ Cardinality(Rows) = imgRow
  <2>1. 0 \in Int /\ imgRow - 1 \in Int /\ 0 <= imgRow - 1
    OBVIOUS
  <2>2. IsFiniteSet(0 .. imgRow - 1) /\ Cardinality(0 .. imgRow - 1) = (imgRow - 1) - 0 + 1
    BY <2>1, FS_Interval
  <2> QED
    BY <2>2 DEF Rows
<1>3. IsFiniteSet(Valid) /\ Cardinality(Valid) <= imgRow
  BY <1>1, <1>2, FS_Subset
<1>4. Cardinality(Valid) \in Nat
  BY <1>3, FS_CardinalityType
<1>5. ASSUME NEW row \in Rows PROVE Weight(row) \in 0 .. imgRow * imgRow
  <2> DEFINE t == imgRow - row - 1
  <2>1. t \in Nat /\ t <= imgRow
    OBVIOUS
  <2> HIDE DEF t
  <2>2. t * t \in Nat /\ t * t <= imgRow * imgRow /\ imgRow * imgRow \in Nat
    <3>1. t * t <= t * imgRow /\ t * imgRow <= imgRow * imgRow
      BY <2>1
    <3> QED
      BY <2>1, <3>1
  <2>3. Weight(row) = imgRow * imgRow - t * t
    BY DEF Weight, t
  <2> QED
    BY <2>2, <2>3
<1> QED
  BY <1>1, <1>3, <1>4, <1>5

\* The mean offset is no more than half an image if the middles are in the image.
LEMMA OffsetWithin ==
  ASSUME mid \in [Rows -> Cols]
  PROVE  LET most == Cardinality(Valid) * imgRow * imgRow * (imgCol \div 2)
         IN  /\ SumOver(Share, Valid) \in Int
             /\ SumOver(Share, Valid) <= most /\ -SumOver(Share, Valid) <= most
<1> USE Image
<1> DEFINE half == imgCol \div 2
           B == imgRow * imgRow * half
           H == [s \in SUBSET Valid |-> -(Cardinality(s) * B)]
           most == Cardinality(Valid) * imgRow * imgRow * half
<1>1. half \in Nat /\ imgCol - 1 <= 2 * half
  OBVIOUS
<1>2. B \in Nat
  BY <1>1
<1>3. ASSUME NEW row \in Valid
      PROVE  Share[row] \in Int /\ -B <= Share[row] /\ Share[row] <= B
  <2>1. row \in Rows /\ Weight(row) \in 0 .. imgRow * imgRow
    BY Weights
  <2> DEFINE o == half - mid[row]
             w == Weight(row)
             m == imgRow * imgRow
  <2>2. o \in -half .. half
    <3>1. mid[row] \in Cols
      BY <2>1
    <3> QED
      BY <1>1, <3>1
  <2>3. Share[row] = o * w /\ B = m * half /\ w \in 0 .. m /\ m \in Nat
    BY <2>1 DEF Share
  <2> HIDE DEF o, w, m, half, B
  <2>4. o * w <= half * w /\ -(half * w) <= o * w /\ half * w <= half * m
    BY <1>1, <2>2, <2>3
  <2>5. o * w \in Int /\ half * w \in Int /\ half * m = m * half /\ m * half \in Int
    BY <1>1, <2>2, <2>3
  <2> QED
    BY <2>3, <2>4, <2>5
<1>4. ASSUME NEW s \in SUBSET Valid
      PROVE  /\ IsFiniteSet(s) /\ Cardinality(s) \in Nat
             /\ \A x \in s : Cardinality(s \ {x}) = Cardinality(s) - 1
  <2>1. IsFiniteSet(s)
    BY Weights, FS_Subset
  <2> QED
    BY <2>1, FS_CardinalityType, FS_RemoveElement
<1> HIDE DEF B
<1>5. H \in [SUBSET Valid -> Int]
  BY <1>2, <1>4
<1>6. H[{}] <= 0
  <2>1. Cardinality({}) = 0
    BY FS_EmptySet
  <2> QED
    BY <1>2, <2>1
<1>7. ASSUME NEW s \in SUBSET Valid, NEW x \in s
      PROVE  H[s] = H[s \ {x}] - B
  <2>1. H[s] = -(Cardinality(s) * B) /\ H[s \ {x}] = -((Cardinality(s) - 1) * B)
    BY <1>4
  <2>2. Cardinality(s) \in Int
    BY <1>4
  <2> DEFINE c == Cardinality(s)
  <2> HIDE DEF c
  <2>3. (c - 1) * B = c * B - B /\ c * B \in Int
    BY <1>2, <2>2 DEF c
  <2> QED
    BY <1>2, <2>1, <2>3 DEF c
<1>8. \A row \in Valid : Share[row] \in Int
  BY <1>3
<1>9. \A s \in SUBSET Valid : \A x \in s :
        H[s] <= H[s \ {x}] + 1 * Share[x] /\ H[s] <= H[s \ {x}] + (-1) * Share[x]
  <2> SUFFICES ASSUME NEW s \in SUBSET Valid, NEW x \in s
               PROVE  H[s] <= H[s \ {x}] + 1 * Share[x] /\ H[s] <= H[s \ {x}] + (-1) * Share[x]
    OBVIOUS
  <2>1. H[s \ {x}] \in Int /\ H[s] = H[s \ {x}] - B
    BY <1>5, <1>7
  <2>2. Share[x] \in Int /\ -B <= Share[x] /\ Share[x] <= B
    BY <1>3
  <2> HIDE DEF H
  <2> QED
    BY <1>2, <2>1, <2>2
<1>10. most = Cardinality(Valid) * B /\ H[Valid] = -(Cardinality(Valid) * B)
  <2>1. H[Valid] = -(Cardinality(Valid) * B)
    OBVIOUS
  <2>2. Cardinality(Valid) \in Int /\ half \in Int
    BY <1>1, Weights
  <2> HIDE DEF half, H
  <2>3. Cardinality(Valid) * imgRow * imgRow * half = Cardinality(Valid) * (imgRow * imgRow * half)
    BY <2>2
  <2> QED
    BY <2>1, <2>3 DEF B
<1>11. Cardinality(Valid) * B \in Int
  <2>1. Cardinality(Valid) \in Int
    BY Weights
  <2> QED
    BY <1>2, <2>1
<1> HIDE DEF H, most
<1> DEFINE up == 1
           down == -1
<1>12. up \in Int /\ down \in Int /\ IsFiniteSet(Valid)
  BY Weights
<1>13. /\ \A s \in SUBSET Valid : \A x \in s : H[s] <= H[s \ {x}] + up * Share[x]
      /\ \A s \in SUBSET Valid : \A x \in s : H[s] <= H[s \ {x}] + down * Share[x]
  BY <1>9
<1> HIDE DEF up, down
<1>14. SumOver(Share, Valid) \in Int /\ H[Valid] <= up * SumOver(Share, Valid)
  BY <1>5, <1>6, <1>8, <1>12, <1>13, SumAtLeast
<1>15. H[Valid] <= down * SumOver(Share, Valid)
  BY <1>5, <1>6, <1>8, <1>12, <1>13, SumAtLeast
<1>16. SumOver(Share, Valid) \in Int /\ H[Valid] <= 1 * SumOver(Share, Valid)
  BY <1>14 DEF up
<1>17. H[Valid] <= (-1) * SumOver(Share, Valid)
  BY <1>15 DEF down
<1>18. -SumOver(Share, Valid) <= most /\ SumOver(Share, Valid) <= most
  BY <1>10, <1>11, <1>16, <1>17
<1> QED
  BY <1>16, <1>18 DEF most
-----------------------------------------------------------------------------
(* The way into a roundabout and out of it.                                 *)

\* The lines across the road, in the rows that count but for the nearest.
LEMMA ColumnAcross ==
  ASSUME imgRow = 70, NEW row \in 20 .. 68
  PROVE  /\ \A near \in {180, 187} :
              /\ AdditionalLine(0, near)[row] \in Nat
              /\ 69 * AdditionalLine(0, near)[row] <= 187 * row
         /\ /\ AdditionalLine(187, 10)[row] \in Nat
            /\ 69 * AdditionalLine(187, 10)[row] >= 12835 - 177 * row
         /\ /\ AdditionalLine(186, 20)[row] \in Nat
            /\ 69 * AdditionalLine(186, 20)[row] >= 12835 - 177 * row
<1>1. Near = 69 /\ row \in Rows /\ row \in Int
  BY DEF Near, Rows
<1>2. \A far, near \in Int :
        AdditionalLine(far, near)[row] = Quot(row * (near - far) + 69 * far, 69)
  BY <1>1 DEF AdditionalLine
<1>3. /\ AdditionalLine(0, 180)[row] = Quot(row * 180, 69)
      /\ AdditionalLine(0, 187)[row] = Quot(row * 187, 69)
      /\ AdditionalLine(187, 10)[row] = Quot(12903 - 177 * row, 69)
      /\ AdditionalLine(186, 20)[row] = Quot(12834 - 166 * row, 69)
  <2>1. /\ row * (180 - 0) + 69 * 0 = row * 180 /\ row * (187 - 0) + 69 * 0 = row * 187
        /\ row * (10 - 187) + 69 * 187 = 12903 - 177 * row
        /\ row * (20 - 186) + 69 * 186 = 12834 - 166 * row
    BY <1>1
  <2>2. AdditionalLine(0, 180)[row] = Quot(row * 180, 69)
    BY <1>1, <2>1 DEF AdditionalLine
  <2>3. AdditionalLine(0, 187)[row] = Quot(row * 187, 69)
    BY <1>1, <2>1 DEF AdditionalLine
  <2>4. AdditionalLine(187, 10)[row] = Quot(12903 - 177 * row, 69)
    BY <1>1, <2>1 DEF AdditionalLine
  <2>5. AdditionalLine(186, 20)[row] = Quot(12834 - 166 * row, 69)
    BY <1>1, <2>1 DEF AdditionalLine
  <2> QED
    BY <2>2, <2>3, <2>4, <2>5
<1>4. Quot(row * 180, 69) \in Nat /\ 69 * Quot(row * 180, 69) <= 187 * row
  BY <1>1 DEF Quot
<1>5. Quot(row * 187, 69) \in Nat /\ 69 * Quot(row * 187, 69) <= 187 * row
  BY <1>1 DEF Quot
<1>6. Quot(12903 - 177 * row, 69) \in Nat /\ 69 * Quot(12903 - 177 * row, 69) >= 12835 - 177 * row
  BY <1>1 DEF Quot
<1>7. Quot(12834 - 166 * row, 69) \in Nat /\ 69 * Quot(12834 - 166 * row, 69) >= 12835 - 177 * row
  BY <1>1 DEF Quot
<1> QED
  BY <1>3, <1>4, <1>5, <1>6, <1>7

\* The side a roundabout is on, as the sign of the offset towards it.
Side == IF road[2] = "L" THEN 1 ELSE -1

\* How far the middle is off towards that side, and that the row counts.
LEMMA OffAcross ==
  ASSUME imgRow = 70, imgCol = 188, Middles,
         road \in {"State3", "out"} \X {"L", "R"},
         Across("State3", 187, 187, 10), Across("out", 180, 186, 20),
         NEW row \in 20 .. 68
  PROVE  /\ Side * (94 - mid[row]) \in Int
         /\ 138 * (Side * (94 - mid[row])) >= 12697 - 187 * row
         /\ l.b[row] # LEFT_LOSE_VALUE \/ r.b[row] # RIGHT_LOSE_VALUE
<1>1. row \in Rows \ {Near} /\ row \in Rows
  BY DEF Rows, Near
<1>2. mid[row] = Quot(r.b[row] + l.b[row], 2)
  BY <1>1 DEF Middles
<1>3. ASSUME road[2] = "L"
      PROVE  r.b[row] \in Nat /\ 69 * r.b[row] <= 187 * row /\ l.b[row] = 0
  <2>1. CASE road[1] = "State3"
    <3>1. road = <<"State3", "L">>
      BY <1>3, <2>1
    <3>2. r.b = AdditionalLine(0, 187) /\ l.b[row] = 0
      BY <1>1, <3>1 DEF Across, LEFT_LOSE_VALUE
    <3> QED
      BY <3>2, ColumnAcross
  <2>2. CASE road[1] = "out"
    <3>1. road = <<"out", "L">>
      BY <1>3, <2>2
    <3>2. r.b = AdditionalLine(0, 180) /\ l.b[row] = 0
      BY <1>1, <3>1 DEF Across, LEFT_LOSE_VALUE
    <3> QED
      BY <3>2, ColumnAcross
  <2> QED
    BY <2>1, <2>2
<1>4. ASSUME road[2] # "L"
      PROVE  l.b[row] \in Nat /\ 69 * l.b[row] >= 12835 - 177 * row /\ r.b[row] = 187
  <2>1. CASE road[1] = "State3"
    <3>1. road = <<"State3", "R">>
      BY <1>4, <2>1
    <3>2. l.b = AdditionalLine(187, 10) /\ r.b[row] = 187
      BY <1>1, <3>1 DEF Across, RIGHT_LOSE_VALUE
    <3> QED
      BY <3>2, ColumnAcross
  <2>2. CASE road[1] = "out"
    <3>1. road = <<"out", "R">>
      BY <1>4, <2>2
    <3>2. l.b = AdditionalLine(186, 20) /\ r.b[row] = 187
      BY <1>1, <3>1 DEF Across, RIGHT_LOSE_VALUE
    <3> QED
      BY <3>2, ColumnAcross
  <2> QED
    BY <1>4, <2>1, <2>2
<1>5. CASE road[2] = "L"
  <2>1. Quot(r.b[row] + l.b[row], 2) \in Nat /\ 2 * Quot(r.b[row] + l.b[row], 2) <= r.b[row]
    BY <1>3, <1>5 DEF Quot
  <2>2. Side = 1
    BY <1>5 DEF Side
  <2>3. r.b[row] # 187
    BY <1>3, <1>5
  <2> QED
    BY <1>2, <1>3, <1>5, <2>1, <2>2, <2>3 DEF RIGHT_LOSE_VALUE
<1>6. CASE road[2] # "L"
  <2>1. /\ Quot(r.b[row] + l.b[row], 2) \in Nat
        /\ 2 * Quot(r.b[row] + l.b[row], 2) >= 186 + l.b[row]
    BY <1>4, <1>6 DEF Quot
  <2>2. Side = -1
    BY <1>6 DEF Side
  <2>3. l.b[row] # 0
    BY <1>4, <1>6
  <2> QED
    BY <1>2, <1>4, <1>6, <2>1, <2>2, <2>3 DEF LEFT_LOSE_VALUE
<1> QED
  BY <1>5, <1>6

\* One element less in a part of a finite set.
LEMMA OneLess ==
  ASSUME NEW s, IsFiniteSet(s), NEW x \in s, NEW A
  PROVE  /\ Cardinality(s \cap A) \in Nat
         /\ Cardinality((s \ {x}) \cap A)
              = IF x \in A THEN Cardinality(s \cap A) - 1 ELSE Cardinality(s \cap A)
<1>1. IsFiniteSet(s \cap A) /\ Cardinality(s \cap A) \in Nat
  <2>1. s \cap A \subseteq s
    OBVIOUS
  <2> QED
    BY <2>1, FS_Subset, FS_CardinalityType
<1>2. CASE x \in A
  <2>1. (s \ {x}) \cap A = (s \cap A) \ {x} /\ x \in s \cap A
    BY <1>2
  <2> QED
    BY <1>1, <1>2, <2>1, FS_RemoveElement
<1>3. CASE x \notin A
  <2>1. (s \ {x}) \cap A = s \cap A
    BY <1>3
  <2> QED
    BY <1>1, <1>3, <2>1
<1> QED
  BY <1>2, <1>3

\* A product of two factors that are at least these.
LEMMA AtLeastProduct ==
  ASSUME NEW a \in Nat, NEW b \in Nat, NEW c \in Int, NEW d \in Int, a <= c, b <= d
  PROVE  a * b <= c * d /\ c * d \in Int
<1>1. a * b <= a * d /\ a * d <= c * d
  OBVIOUS
<1> QED
  BY <1>1

\* The weight of a row is at least that of a row farther away.
LEMMA WeightAtLeast ==
  ASSUME imgRow = 70, NEW a \in 0 .. 69, NEW row \in a .. 69
  PROVE  Weight(row) \in Int /\ Weight(row) >= 4900 - (69 - a) * (69 - a)
<1> DEFINE t == 69 - row
           c == 69 - a
<1>1. t \in Nat /\ c \in Nat /\ t <= c /\ Weight(row) = 4900 - t * t
  BY DEF Weight
<1> HIDE DEF t, c
<1>2. t * t <= t * c /\ t * c <= c * c /\ t * t \in Int /\ c * c \in Int
  BY <1>1
<1> QED
  BY <1>1, <1>2 DEF c

\* What a row adds to the sum towards the side of the roundabout, times eight.
LEMMA ShareAcross ==
  ASSUME imgRow = 70, imgCol = 188, Middles, mid \in [Rows -> Cols],
         road \in {"State3", "out"} \X {"L", "R"},
         Across("State3", 187, 187, 10), Across("out", 180, 186, 20),
         NEW row \in 20 .. 69
  PROVE  /\ (8 * Side) * Share[row] \in Int
         /\ row \in 20 .. 39 => (8 * Side) * Share[row] >= 1050600
         /\ row \in 40 .. 57 => (8 * Side) * Share[row] >= 460600
         /\ row \in 58 .. 68 => (8 * Side) * Share[row] >= 0
         /\ row = 69 => (8 * Side) * Share[row] >= -3684800
<1>0. row \in Rows /\ row \in Int
  BY DEF Rows
<1> DEFINE o == Side * (94 - mid[row])
           w == Weight(row)
<1>1. o \in Int /\ w \in Int /\ (8 * Side) * Share[row] = 8 * (o * w)
  <2>1. mid[row] \in Int
    BY <1>0, Image
  <2>2. Share[row] = (94 - mid[row]) * w
    BY <1>0 DEF Share
  <2>3. w \in Int
    BY WeightAtLeast
  <2>4. Side \in {-1, 1}
    BY DEF Side
  <2> HIDE DEF w
  <2> DEFINE h == 94 - mid[row]
  <2>5. h \in Int
    BY <2>1
  <2> HIDE DEF h
  <2>6. Side * h \in Int /\ (8 * Side) * (h * w) = 8 * ((Side * h) * w)
    BY <2>3, <2>4, <2>5
  <2> QED
    BY <2>2, <2>3, <2>6 DEF h
<1>2. ASSUME row \in 20 .. 68
      PROVE  138 * o >= 12697 - 187 * row
  BY <1>2, OffAcross
<1>3. /\ row \in 20 .. 29 => w >= 2499
      /\ row \in 30 .. 39 => w >= 3379
      /\ row \in 40 .. 57 => w >= 4059
      /\ row \in 58 .. 69 => w >= 0 /\ w <= 4900
  <2>1. row \in 20 .. 29 => w >= 4900 - (69 - 20) * (69 - 20)
    BY WeightAtLeast
  <2>2. row \in 30 .. 39 => w >= 4900 - (69 - 30) * (69 - 30)
    BY WeightAtLeast
  <2>3. row \in 40 .. 57 => w >= 4900 - (69 - 40) * (69 - 40)
    BY WeightAtLeast
  <2>4. w \in 0 .. 4900
    <3>1. w \in 0 .. imgRow * imgRow
      BY <1>0, Weights
    <3>2. imgRow * imgRow = 4900
      OBVIOUS
    <3> HIDE DEF w
    <3> QED
      BY <3>1, <3>2
  <2> HIDE DEF w
  <2> QED
    BY <2>1, <2>2, <2>3, <2>4
<1>4. row = 69 => o \in -94 .. 94
  <2>1. mid[row] \in 0 .. 187
    BY <1>0 DEF Cols
  <2>2. Side \in {-1, 1}
    BY DEF Side
  <2> QED
    BY <2>1, <2>2
<1> HIDE DEF o, w
<1>5. CASE row \in 20 .. 29
  <2>1. 53 <= o /\ 2499 <= w
    BY <1>1, <1>2, <1>3, <1>5
  <2>2. 53 * 2499 <= o * w /\ o * w \in Int
    BY <1>1, <2>1, AtLeastProduct
  <2> QED
    BY <1>1, <1>5, <2>2
<1>6. CASE row \in 30 .. 39
  <2>1. 40 <= o /\ 3379 <= w
    BY <1>1, <1>2, <1>3, <1>6
  <2>2. 40 * 3379 <= o * w /\ o * w \in Int
    BY <1>1, <2>1, AtLeastProduct
  <2> QED
    BY <1>1, <1>6, <2>2
<1>7. CASE row \in 40 .. 57
  <2>1. 15 <= o /\ 4059 <= w
    BY <1>1, <1>2, <1>3, <1>7
  <2>2. 15 * 4059 <= o * w /\ o * w \in Int
    BY <1>1, <2>1, AtLeastProduct
  <2> QED
    BY <1>1, <1>7, <2>2
<1>8. CASE row \in 58 .. 68
  <2>1. 0 <= o /\ 0 <= w
    BY <1>1, <1>2, <1>3, <1>8
  <2>2. 0 <= o * w /\ o * w \in Int
    BY <1>1, <2>1
  <2> QED
    BY <1>1, <1>8, <2>2
<1>9. CASE row = 69
  <2>1. o \in -94 .. 94 /\ w \in 0 .. 4900
    BY <1>1, <1>3, <1>4, <1>9
  <2>2. -(94 * w) <= o * w /\ o * w \in Int
    BY <2>1
  <2> DEFINE a == o * w
  <2>3. -(94 * w) <= a /\ a \in Int /\ w \in 0 .. 4900 /\ (8 * Side) * Share[row] = 8 * a
    BY <1>1, <2>1, <2>2
  <2> HIDE DEF a
  <2> QED
    BY <1>9, <2>3, SMT
<1> QED
  BY <1>5, <1>6, <1>7, <1>8, <1>9

\* How many rows there are between two rows.
LEMMA IntervalSize ==
  ASSUME NEW a \in Int, NEW b \in Int, a <= b
  PROVE  IsFiniteSet(a .. b) /\ Cardinality(a .. b) = b - a + 1
<1>1. /\ IsFiniteSet(a .. b)
      /\ Cardinality(a .. b) = IF a > b THEN 0 ELSE b - a + 1
  BY FS_Interval, Zenon
<1> QED
  BY <1>1

\* What a row has to add to the sum, times eight, for the mean offset that RingSteersIn
\* asks for; and what the rows of s add at least.
Due == 460600
Added(s) ==
  Due * Cardinality(s) + 590000 * Cardinality(s \cap (20 .. 39))
    - Due * Cardinality(s \cap (58 .. 68)) - 4145400 * Cardinality(s \cap (69 .. 69))

\* The sum of trace_line_method, towards the side of the roundabout.
LEMMA SteeredAcross ==
  ASSUME imgRow = 70, imgCol = 188, row_begin = 20, Middles, mid \in [Rows -> Cols],
         road \in {"State3", "out"} \X {"L", "R"},
         Across("State3", 187, 187, 10), Across("out", 180, 186, 20)
  PROVE  /\ Cardinality(Valid) > 0 /\ SumOver(Share, Valid) \in Int
         /\ (8 * Side) * SumOver(Share, Valid) > Due * Cardinality(Valid)
<1> DEFINE A == 20 .. 39
           B == 58 .. 68
           C == 69 .. 69
           H == [s \in SUBSET Valid |-> Added(s)]
           e == 8 * Side
<1>1. Valid \subseteq 20 .. 69 /\ A \subseteq Valid
  <2>1. Valid \subseteq 20 .. 69
    BY DEF Valid, Near
  <2>2. ASSUME NEW row \in A PROVE row \in Valid
    <3>1. row \in 20 .. 68 /\ row \in row_begin .. Near
      BY DEF Near
    <3> QED
      BY <3>1, OffAcross DEF Valid
  <2> QED
    BY <2>1, <2>2
<1>2. e \in Int
  BY DEF Side
<1>3. \A s \in SUBSET Valid :
        /\ IsFiniteSet(s) /\ Cardinality(s) \in Nat
        /\ Cardinality(s \cap A) \in Nat /\ Cardinality(s \cap B) \in Nat
        /\ Cardinality(s \cap C) \in Nat
  <2> SUFFICES ASSUME NEW s \in SUBSET Valid
               PROVE  /\ IsFiniteSet(s) /\ Cardinality(s) \in Nat
                      /\ Cardinality(s \cap A) \in Nat /\ Cardinality(s \cap B) \in Nat
                      /\ Cardinality(s \cap C) \in Nat
    OBVIOUS
  <2>1. IsFiniteSet(s)
    BY Weights, FS_Subset
  <2>2. IsFiniteSet(s \cap A) /\ IsFiniteSet(s \cap B) /\ IsFiniteSet(s \cap C)
    <3>1. s \cap A \subseteq s /\ s \cap B \subseteq s /\ s \cap C \subseteq s
      OBVIOUS
    <3> HIDE DEF A, B, C
    <3> QED
      BY <2>1, <3>1, FS_Subset
  <2> HIDE DEF A, B, C
  <2> QED
    BY <2>1, <2>2, FS_CardinalityType
<1>4. H \in [SUBSET Valid -> Int]
  <2>1. \A s \in SUBSET Valid : Added(s) \in Int
    BY <1>3 DEF Added, Due
  <2> QED
    BY <2>1
<1>5. H[{}] <= 0
  <2>1. {} \cap A = {} /\ {} \cap B = {} /\ {} \cap C = {}
    OBVIOUS
  <2>2. Cardinality({}) = 0
    BY FS_EmptySet
  <2>3. Added({}) = 0
    BY <2>1, <2>2 DEF Added, Due
  <2> QED
    BY <2>3
<1>6. ASSUME NEW s \in SUBSET Valid, NEW x \in s
      PROVE  H[s] <= H[s \ {x}] + e * Share[x]
  <2>1. x \in 20 .. 69
    BY <1>1
  <2> DEFINE u == s \ {x}
             v == e * Share[x]
  <2>2. /\ v \in Int
        /\ x \in A => v >= 1050600
        /\ x \in 40 .. 57 => v >= 460600
        /\ x \in B => v >= 0
        /\ x \in C => v >= -3684800
    <3>1. x \in C => x = 69
      OBVIOUS
    <3> QED
      BY <2>1, <3>1, ShareAcross
  <2>3. x \in A \/ x \in 40 .. 57 \/ x \in B \/ x \in C
    BY <2>1
  <2>4. /\ x \in A => x \notin B /\ x \notin C
        /\ x \in 40 .. 57 => x \notin A /\ x \notin B /\ x \notin C
        /\ x \in B => x \notin A /\ x \notin C
        /\ x \in C => x \notin A /\ x \notin B
    OBVIOUS
  <2> HIDE DEF A, B, C
  <2>5. IsFiniteSet(s)
    BY <1>3
  <2>6. Cardinality(u) = Cardinality(s) - 1
    BY <2>5, FS_RemoveElement DEF u
  <2>7. /\ Cardinality(u \cap A) = IF x \in A THEN Cardinality(s \cap A) - 1 ELSE Cardinality(s \cap A)
        /\ Cardinality(u \cap B) = IF x \in B THEN Cardinality(s \cap B) - 1 ELSE Cardinality(s \cap B)
        /\ Cardinality(u \cap C) = IF x \in C THEN Cardinality(s \cap C) - 1 ELSE Cardinality(s \cap C)
    BY <2>5, OneLess
  <2> DEFINE c == Cardinality(s)
             ca == Cardinality(s \cap A)
             cb == Cardinality(s \cap B)
             cc == Cardinality(s \cap C)
  <2>8. c \in Nat /\ ca \in Nat /\ cb \in Nat /\ cc \in Nat
    BY <1>3
  <2>9. H[s] = Due * c + 590000 * ca - Due * cb - 4145400 * cc
    BY DEF Added, A, B, C
  <2>10. u \in SUBSET Valid
    OBVIOUS
  <2>11. H[u] = Due * (c - 1) + 590000 * (IF x \in A THEN ca - 1 ELSE ca)
                - Due * (IF x \in B THEN cb - 1 ELSE cb)
                - 4145400 * (IF x \in C THEN cc - 1 ELSE cc)
    <3>1. H[u] = Due * Cardinality(u) + 590000 * Cardinality(u \cap A)
                 - Due * Cardinality(u \cap B) - 4145400 * Cardinality(u \cap C)
      BY <2>10 DEF Added, A, B, C
    <3> QED
      BY <2>6, <2>7, <3>1
  <2> HIDE DEF H, c, ca, cb, cc, u, v
  <2>12. H[s] <= H[u] + v
    <3>1. CASE x \in A
      BY <2>2, <2>4, <2>8, <2>9, <2>11, <3>1 DEF Due
    <3>2. CASE x \in 40 .. 57
      BY <2>2, <2>4, <2>8, <2>9, <2>11, <3>2 DEF Due
    <3>3. CASE x \in B
      BY <2>2, <2>4, <2>8, <2>9, <2>11, <3>3 DEF Due
    <3>4. CASE x \in C
      BY <2>2, <2>4, <2>8, <2>9, <2>11, <3>4 DEF Due
    <3> QED
      BY <2>3, <3>1, <3>2, <3>3, <3>4
  <2> QED
    BY <2>12 DEF u, v
<1>7. /\ Cardinality(Valid \cap A) = 20
      /\ Cardinality(Valid \cap B) <= 11 /\ Cardinality(Valid \cap C) <= 1
  <2>1. Valid \cap A = A
    BY <1>1
  <2>2. /\ IsFiniteSet(A) /\ Cardinality(A) = 20
        /\ IsFiniteSet(B) /\ Cardinality(B) = 11
        /\ IsFiniteSet(C) /\ Cardinality(C) = 1
    <3> DEFINE n20 == 20
               n39 == 39
               n58 == 58
               n68 == 68
               n69 == 69
    <3>1. n20 \in Int /\ n39 \in Int /\ n58 \in Int /\ n68 \in Int /\ n69 \in Int
      OBVIOUS
    <3>2. n20 <= n39 /\ n39 - n20 + 1 = 20 /\ n58 <= n68 /\ n68 - n58 + 1 = 11
          /\ n69 <= n69 /\ n69 - n69 + 1 = 1
      OBVIOUS
    <3>3. A = n20 .. n39 /\ B = n58 .. n68 /\ C = n69 .. n69
      OBVIOUS
    <3> HIDE DEF n20, n39, n58, n68, n69, A, B, C
    <3>4. /\ IsFiniteSet(n20 .. n39) /\ Cardinality(n20 .. n39) = n39 - n20 + 1
          /\ IsFiniteSet(n58 .. n68) /\ Cardinality(n58 .. n68) = n68 - n58 + 1
          /\ IsFiniteSet(n69 .. n69) /\ Cardinality(n69 .. n69) = n69 - n69 + 1
      BY <3>1, <3>2, IntervalSize
    <3> QED
      BY <3>2, <3>3, <3>4
  <2> HIDE DEF A, B, C
  <2>3. Valid \cap B \subseteq B /\ Valid \cap C \subseteq C
    OBVIOUS
  <2>4. Cardinality(Valid \cap B) <= Cardinality(B)
    BY <2>2, <2>3, FS_Subset
  <2>5. Cardinality(Valid \cap C) <= Cardinality(C)
    BY <2>2, <2>3, FS_Subset
  <2> QED
    BY <2>1, <2>2, <2>4, <2>5
<1>8. H[Valid] > Due * Cardinality(Valid)
  <2>1. Valid \in SUBSET Valid
    OBVIOUS
  <2>2. H[Valid] = Due * Cardinality(Valid) + 590000 * Cardinality(Valid \cap A)
                   - Due * Cardinality(Valid \cap B) - 4145400 * Cardinality(Valid \cap C)
    BY <2>1 DEF Added
  <2> DEFINE c == Cardinality(Valid)
             ca == Cardinality(Valid \cap A)
             cb == Cardinality(Valid \cap B)
             cc == Cardinality(Valid \cap C)
  <2>3. c \in Nat /\ ca = 20 /\ cb \in Nat /\ cb <= 11 /\ cc \in Nat /\ cc <= 1
    BY <1>3, <1>7, <2>1
  <2>4. H[Valid] = Due * c + 590000 * ca - Due * cb - 4145400 * cc
    BY <2>2
  <2> HIDE DEF H, c, ca, cb, cc
  <2>5. H[Valid] > Due * c
    BY <2>3, <2>4, SMT DEF Due
  <2> QED
    BY <2>5 DEF c
<1>9. \A row \in Valid : Share[row] \in Int
  <2> SUFFICES ASSUME NEW row \in Valid PROVE Share[row] \in Int
    OBVIOUS
  <2>1. row \in Rows /\ Weight(row) \in Int /\ mid[row] \in Int
    <3>1. row \in Rows /\ row \in 20 .. 69
      BY <1>1, Weights
    <3> QED
      BY <3>1, WeightAtLeast, Image
  <2> QED
    BY <2>1 DEF Share
<1>10. Cardinality(Valid) > 0
  <2>1. Valid # {}
    <3>1. 20 \in A
      OBVIOUS
    <3> QED
      BY <1>1, <3>1
  <2> QED
    BY <2>1, Weights, FS_EmptySet, FS_CardinalityType
<1>11. IsFiniteSet(Valid)
  BY Weights
<1>12. \A s \in SUBSET Valid : \A x \in s : H[s] <= H[s \ {x}] + e * Share[x]
  BY <1>6
<1> HIDE DEF H, e
<1>13. SumOver(Share, Valid) \in Int /\ H[Valid] <= e * SumOver(Share, Valid)
  BY <1>2, <1>4, <1>5, <1>9, <1>11, <1>12, SumAtLeast
<1>14. Cardinality(Valid) \in Int /\ H[Valid] \in Int /\ e * SumOver(Share, Valid) \in Int
  BY <1>2, <1>4, <1>13, Weights
<1> QED
  BY <1>8, <1>10, <1>13, <1>14 DEF e, Due
-----------------------------------------------------------------------------
(* The steps.                                                               *)

\* A sum of integers is one.
LEMMA SumIsInt ==
  ASSUME NEW S, IsFiniteSet(S), NEW v, \A row \in S : v[row] \in Int
  PROVE  SumOver(v, S) \in Int
<1> DEFINE H == [s \in SUBSET S |-> 0]
           e == 0
<1>1. H \in [SUBSET S -> Int] /\ H[{}] <= 0 /\ e \in Int
  OBVIOUS
<1>2. \A s \in SUBSET S : \A x \in s : H[s] <= H[s \ {x}] + e * v[x]
  <2> SUFFICES ASSUME NEW s \in SUBSET S, NEW x \in s
               PROVE  H[s] <= H[s \ {x}] + e * v[x]
    OBVIOUS
  <2>1. v[x] \in Int /\ H[s] = 0 /\ H[s \ {x}] = 0
    OBVIOUS
  <2> HIDE DEF H
  <2> QED
    BY <2>1
<1> HIDE DEF H, e
<1> QED
  BY <1>1, <1>2, SumAtLeast

Drawn(border, b) == [border EXCEPT !.b = b]
Spread == [Rows -> -imgCol .. 2 * imgCol]

\* A redrawn border keeps its kinds and its corner point.
LEMMA Redrawn ==
  ASSUME NEW border, Shaped(border), NEW b \in Spread
  PROVE  /\ Shaped(Drawn(border, b)) /\ Drawn(border, b).b = b
         /\ Drawn(border, b).seg = border.seg /\ Drawn(border, b).fp = border.fp
         /\ Drawn(border, b).x = border.x
<1> DEFINE drawn == Drawn(border, b)
<1>0. drawn = [border EXCEPT !.b = b]
  BY DEF Drawn
<1> HIDE DEF drawn
<1>1. drawn.b = b /\ drawn.seg = border.seg /\ drawn.fp = border.fp /\ drawn.x = border.x
  BY <1>0 DEF Shaped
<1>2. drawn \in [b : [Rows -> -imgCol .. 2 * imgCol], seg : Kinds, fp : {0, 1}, x : Rows]
  BY <1>0 DEF Shaped, Spread
<1> QED
  BY <1>1, <1>2 DEF Shaped, drawn

\* The ends of a straight border.
LEMMA LineEnds ==
  ASSUME NEW p \in Cols, NEW q \in Cols
  PROVE  Line(p, q)[Near] = p /\ Line(p, q)[0] = q
<1>1. Line(p, q)[Near] = p + ((Near - Near) * (q - p)) \div (Near - 0)
      /\ Line(p, q)[0] = p + ((Near - 0) * (q - p)) \div (Near - 0)
  BY Image DEF Line, Between
<1> DEFINE d == q - p
<1>2. p \in Int /\ q \in Int /\ d \in Int /\ Near \in Nat \ {0}
  BY Image
<1>3. Near - Near = 0 /\ Near - 0 = Near
  BY <1>2
<1> HIDE DEF d
<1>4. 0 * d = 0 /\ 0 \div Near = 0
  BY <1>2
<1>5. (Near * d) \div Near = d
  BY <1>2
<1> QED
  BY <1>1, <1>2, <1>3, <1>4, <1>5 DEF d

\* The line drawn at the mouth of a roundabout mirrors the border on the other side.
LEMMA MouthMirrored ==
  ASSUME NEW near, NEW far, NEW drawn, Judged(near), Judged(far),
         near.fp > 0, Seg(near, 0) # "lose",
         drawn.b = SetLineWithPointK(near.b, near.x, far.b)
  PROVE  Mirrored(drawn, far)
<1> SUFFICES ASSUME far.seg = <<"straight">>
             PROVE  \E p, q \in Cols, y, x \in Int :
                      /\ far.b = Line(p, q)
                      /\ drawn.b = [row \in Rows |-> Quot(y * Near - (row - x) * (p - q), Near)]
  BY DEF Mirrored
<1>1. PICK p, q \in Cols : far.b = Line(p, q)
  BY DEF Judged
<1>2. far.b[Near] = p /\ far.b[0] = q
  BY <1>1, LineEnds
<1>3. drawn.b = [row \in Rows |-> Quot(near.b[near.x] * Near - (row - near.x) * (p - q), Near)]
  BY <1>2 DEF SetLineWithPointK
<1>4. near.x \in Int /\ near.b[near.x] \in Int
  BY Image DEF Judged, Shaped
<1> QED
  BY <1>1, <1>3, <1>4

\* Without a corner point nothing is extended to the far end.
LEMMA NothingExtended ==
  ASSUME NEW b \in [Rows -> Cols]
  PROVE  ExtendFar(b, 0) = b
<1>1. \A row \in Rows : row \notin 1 .. 0 - 1
  OBVIOUS
<1>2. ExtendFar(b, 0) = [row \in Rows |-> b[row]]
  BY <1>1 DEF ExtendFar
<1> QED
  BY <1>2

\* The two borders a crossing at an angle is closed with.
LEMMA CrossSides ==
  ASSUME Shaped(l), Shaped(r), CrossCon4
  PROVE  /\ l.seg = <<"arc">> => l.fp = 1 /\ r.seg = <<"lose", "straight">> /\ r.fp = 1
         /\ r.seg = <<"arc">> => l.seg = <<"lose", "straight">> /\ l.fp = 1
<1>1. l.seg \in Kinds /\ r.seg \in Kinds /\ l.fp \in {0, 1} /\ l.fp > 0
  BY DEF Shaped, CrossCon4
<1>2. ASSUME NEW border, Shaped(border), Seg(border, 0) = "lose", Seg(border, 1) # "null"
      PROVE  border.seg = <<"lose", "straight">> /\ border.fp = 1
  <2>1. border.seg \in Kinds
    BY <1>2 DEF Shaped
  <2>3. border.seg = <<"lose", "straight">>
    <3> DEFINE s == border.seg
    <3>1. s \in {<<"lose">>} \/ s[1] \in {"straight", "arc"} \/ s = <<"lose", "straight">>
      BY <2>1 DEF Kinds
    <3>2. Len(s) \in Nat \ {0}
      <4>1. /\ Len(<<"lose">>) = 1 /\ Len(<<"straight">>) = 1 /\ Len(<<"arc">>) = 1
            /\ Len(<<"straight", "lose">>) = 2 /\ Len(<<"arc", "lose">>) = 2
            /\ Len(<<"lose", "straight">>) = 2
        OBVIOUS
      <4>2. \/ s = <<"lose">> \/ s = <<"straight">> \/ s = <<"arc">>
            \/ s = <<"straight", "lose">> \/ s = <<"arc", "lose">> \/ s = <<"lose", "straight">>
        BY <2>1 DEF Kinds
      <4> HIDE DEF s
      <4>3. Len(s) = 1 \/ Len(s) = 2
        BY <4>1, <4>2
      <4> QED
        BY <4>3
    <3>3. s[1] = "lose"
      BY <1>2, <3>2 DEF Seg
    <3>4. s # <<"lose">>
      BY <1>2 DEF Seg
    <3> QED
      BY <3>1, <3>3, <3>4
  <2> QED
    BY <1>2, <2>3 DEF Shaped
<1>3. ASSUME NEW border, border.seg = <<"arc">> PROVE Seg(border, 0) # "lose"
  BY <1>3 DEF Seg
<1>4. ASSUME l.seg = <<"arc">>
      PROVE  Seg(r, 0) = "lose" /\ Seg(r, 1) # "null"
  BY <1>3, <1>4 DEF CrossCon4
<1>5. ASSUME r.seg = <<"arc">>
      PROVE  Seg(l, 0) = "lose" /\ Seg(l, 1) # "null"
  BY <1>3, <1>5 DEF CrossCon4
<1> QED
  BY <1>1, <1>2, <1>4, <1>5

\* The border with the corner point, extended to the far end.
LEMMA FarRedrawn ==
  ASSUME NEW border, Judged(border), border.seg = <<"arc">>
  PROVE  LET drawn == Drawn(border, ExtendFar(border.b, border.x))
         IN  /\ Shaped(drawn) /\ drawn.b \in [Rows -> Cols] /\ Continued(drawn)
             /\ drawn.seg = border.seg /\ drawn.fp = border.fp
<1>1. border.b \in [Rows -> Cols] /\ Shaped(border)
  BY DEF Judged
<1> DEFINE b == ExtendFar(border.b, border.x)
<1>2. border.fp = 1 => border.x \in 7 .. imgRow - 2
  BY <1>1 DEF Shaped
<1>3. border.fp # 1 => border.x = 0
  BY <1>1 DEF Shaped
<1>4. b \in [Rows -> Cols]
  <2>1. CASE border.fp = 1
    BY <1>1, <1>2, <2>1, ExtendedInImage
  <2>2. CASE border.fp # 1
    BY <1>1, <1>3, <2>2, NothingExtended
  <2> QED
    BY <2>1, <2>2
<1>5. ASSUME border.fp = 1, NEW row \in 1 .. border.x - 1
      PROVE  \E k \in border.x .. Near - 1 : Jump(b, row) <= Jump(b, k)
  BY <1>1, <1>2, <1>5, FarContinued
<1>6. border.fp > 0 => border.fp = 1
  BY <1>1 DEF Shaped
<1> DEFINE drawn == Drawn(border, b)
<1> HIDE DEF b
<1>8. b \in Spread
  BY <1>4, Image DEF Spread
<1>9. /\ Shaped(drawn) /\ drawn.b = b /\ drawn.seg = border.seg /\ drawn.fp = border.fp
      /\ drawn.x = border.x
  BY <1>1, <1>8, Redrawn
<1> HIDE DEF drawn
<1>10. drawn.seg[1] # "lose"
  BY <1>9
<1> QED
  BY <1>4, <1>5, <1>6, <1>9, <1>10 DEF Continued, drawn, b

\* The border on the other side, extended to the near end.
LEMMA NearRedrawn ==
  ASSUME NEW border, Judged(border), border.seg = <<"lose", "straight">>, border.fp = 1
  PROVE  LET drawn == Drawn(border, ExtendNear(border.b, border.x))
         IN  /\ Shaped(drawn) /\ drawn.b \in [Rows -> Cols] /\ Continued(drawn)
             /\ drawn.seg = border.seg /\ drawn.fp = border.fp
<1>1. border.b \in [Rows -> Cols] /\ Shaped(border) /\ border.x \in 7 .. imgRow - 2
  BY DEF Judged, Shaped
<1> DEFINE b == ExtendNear(border.b, border.x)
<1>4. b \in [Rows -> Cols]
  BY <1>1, ExtendedInImage
<1>5. ASSUME NEW row \in border.x .. Near - 2
      PROVE  \E k \in 0 .. border.x - 1 : Jump(b, row) <= Jump(b, k)
  BY <1>1, <1>5, NearContinued
<1> DEFINE drawn == Drawn(border, b)
<1> HIDE DEF b
<1>8. b \in Spread
  BY <1>4, Image DEF Spread
<1>9. /\ Shaped(drawn) /\ drawn.b = b /\ drawn.seg = border.seg /\ drawn.fp = border.fp
      /\ drawn.x = border.x
  BY <1>1, <1>8, Redrawn
<1> HIDE DEF drawn
<1>10. drawn.seg # <<"arc">>
  BY <1>9
<1> QED
  BY <1>4, <1>5, <1>9, <1>10 DEF Continued, drawn, b

\* The line across the road, on the way into a roundabout and out of it.
LEMMA AcrossRedrawn ==
  ASSUME NEW border, Judged(border), NEW far \in 0 .. 187, NEW near \in 0 .. 187
  PROVE  LET drawn == Drawn(border, AdditionalLine(far, near))
         IN  /\ Shaped(drawn) /\ drawn.b \in [Rows -> Cols]
             /\ drawn.b = AdditionalLine(far, near)
<1>1. Shaped(border)
  BY Zenon DEF Judged
<1> DEFINE b == AdditionalLine(far, near)
           drawn == Drawn(border, b)
<1>2. b \in [Rows -> 0 .. 187]
  BY AcrossInImage, Zenon
<1> HIDE DEF b
<1>3. 0 .. 187 \subseteq Cols
  BY Image
<1>4. b \in [Rows -> Cols] /\ b \in Spread
  BY <1>2, <1>3, Image DEF Spread
<1>5. Shaped(drawn) /\ drawn.b = b
  BY <1>1, <1>4, Redrawn
<1> HIDE DEF drawn
<1> QED
  BY <1>4, <1>5 DEF b, drawn

\* The border that is lost for it.
LEMMA LostRedrawn ==
  ASSUME NEW border, Judged(border), NEW lost \in Cols
  PROVE  LET gone == Drawn(border, SetLose(border.b, lost))
         IN  /\ Shaped(gone) /\ gone.b \in [Rows -> Cols]
             /\ \A row \in Rows \ {Near} : gone.b[row] = lost
<1>1. border.b \in [Rows -> Cols] /\ Shaped(border)
  BY DEF Judged
<1> DEFINE c == SetLose(border.b, lost)
           gone == Drawn(border, c)
<1>2. c \in [Rows -> Cols] /\ \A row \in Rows \ {Near} : c[row] = lost
  BY <1>1, Image DEF SetLose
<1> HIDE DEF c
<1>3. c \in Spread
  BY <1>2, Image DEF Spread
<1>4. Shaped(gone) /\ gone.b = c
  BY <1>1, <1>3, Redrawn
<1> HIDE DEF gone
<1> QED
  BY <1>2, <1>4 DEF c, gone

\* What redrawing leaves of the invariant to show.
RedrawnInv ==
  /\ Shaped(l) /\ Shaped(r) /\ Inside /\ Course /\ Closed
  /\ Across("State3", 187, 187, 10) /\ Across("out", 180, 186, 20)

\* The roads, by their names.
LEMMA RoadNames ==
  ASSUME road \in Roads
  PROVE  /\ road \in {<<"Normal">>, <<"Cross">>, <<"Corner">>}
              \/ \E state \in {"State1", "State2", "State3", "Cor", "out"}, side \in {"L", "R"} :
                   road = <<state, side>>
         /\ road = <<"Cross">> => road[1] = "Cross"
         /\ road = <<"Normal">> => road[1] = "Normal"
         /\ road = <<"Corner">> => road[1] = "Corner"
         /\ \A state, side : road = <<state, side>> => road[1] = state /\ road[2] = side
  BY DEF Roads

\* A crossing.
LEMMA CrossKeeps ==
  ASSUME Judged(l), Judged(r), road \in Roads, CrossRedraw, road' = road
  PROVE  RedrawnInv'
<1>1. road = <<"Cross">> /\ road[1] = "Cross"
  BY RoadNames DEF CrossRedraw
<1>2. Shaped(l) /\ Shaped(r) /\ l.b \in [Rows -> Cols] /\ r.b \in [Rows -> Cols]
  BY DEF Judged
<1>3. Course' /\ Across("State3", 187, 187, 10)' /\ Across("out", 180, 186, 20)'
  BY <1>1 DEF Course, Across
<1>4. ASSUME Shaped(l'), Shaped(r'), l'.b \in [Rows -> Cols], r'.b \in [Rows -> Cols],
             \/ Continued(l') /\ Continued(r')
             \/ ~(CrossCon4 /\ <<"arc">> \in {l.seg, r.seg}) /\ l' = l /\ r' = r
      PROVE  RedrawnInv'
  <2>1. Inside'
    BY <1>4 DEF Inside
  <2>2. Closed'
    <3>1. CASE Continued(l') /\ Continued(r')
      BY <3>1 DEF Closed
    <3>2. CASE ~(CrossCon4 /\ <<"arc">> \in {l.seg, r.seg}) /\ l' = l /\ r' = r
      BY <3>2 DEF Closed, CrossCon4, Seg
    <3> QED
      BY <1>4, <3>1, <3>2
  <2> QED
    BY <1>3, <1>4, <2>1, <2>2 DEF RedrawnInv
<1>5. CASE CrossCon4 /\ l.seg = <<"arc">>
  <2>1. /\ l' = Drawn(l, ExtendFar(l.b, l.x)) /\ r' = Drawn(r, ExtendNear(r.b, r.x))
    BY <1>5 DEF CrossRedraw, Drawn
  <2>2. r.seg = <<"lose", "straight">> /\ r.fp = 1
    BY <1>2, <1>5, CrossSides
  <2>3. Shaped(l') /\ l'.b \in [Rows -> Cols] /\ Continued(l')
    BY <1>5, <2>1, FarRedrawn
  <2>4. Shaped(r') /\ r'.b \in [Rows -> Cols] /\ Continued(r')
    BY <2>1, <2>2, NearRedrawn
  <2> QED
    BY <1>4, <2>3, <2>4
<1>6. CASE ~(CrossCon4 /\ l.seg = <<"arc">>) /\ CrossCon4 /\ r.seg = <<"arc">>
  <2>1. l' = Drawn(l, ExtendNear(l.b, l.x)) /\ r' = Drawn(r, ExtendFar(r.b, r.x))
    BY <1>6 DEF CrossRedraw, Drawn
  <2>2. l.seg = <<"lose", "straight">> /\ l.fp = 1
    BY <1>2, <1>6, CrossSides
  <2>3. Shaped(r') /\ r'.b \in [Rows -> Cols] /\ Continued(r')
    BY <1>6, <2>1, FarRedrawn
  <2>4. Shaped(l') /\ l'.b \in [Rows -> Cols] /\ Continued(l')
    BY <2>1, <2>2, NearRedrawn
  <2> QED
    BY <1>4, <2>3, <2>4
<1>7. CASE ~(CrossCon4 /\ l.seg = <<"arc">>) /\ ~(CrossCon4 /\ r.seg = <<"arc">>)
  <2>1. l' = l /\ r' = r
    BY <1>7 DEF CrossRedraw
  <2>2. ~(CrossCon4 /\ <<"arc">> \in {l.seg, r.seg})
    BY <1>7
  <2> QED
    BY <1>2, <1>4, <2>1, <2>2
<1> QED
  BY <1>5, <1>6, <1>7

\* The mouth of a roundabout.
LEMMA MouthKeeps ==
  ASSUME Judged(l), Judged(r), road \in Roads, RingBegins, road' = road
  PROVE  RedrawnInv'
<1>1. Shaped(l) /\ Shaped(r) /\ l.b \in [Rows -> Cols] /\ r.b \in [Rows -> Cols]
  BY DEF Judged
<1>2. /\ road = <<"State1", "L">> \/ road = <<"State1", "R">>
      /\ road[1] = "State1"
  BY RoadNames DEF RingBegins
<1>3. /\ Inside' /\ Closed'
      /\ Across("State3", 187, 187, 10)' /\ Across("out", 180, 186, 20)'
  <2>1. road # <<"Cross">>
    BY <1>2, RoadNames
  <2> QED
    BY <1>2, <2>1 DEF Inside, Closed, Across
<1>4. ASSUME NEW near, NEW far, Judged(near), Judged(far)
      PROVE  LET drawn == IF near.fp > 0 /\ Seg(near, 0) # "lose"
                          THEN Drawn(near, SetLineWithPointK(near.b, near.x, far.b)) ELSE near
             IN  Shaped(drawn) /\ Mirrored(drawn, far)
  <2> DEFINE b == SetLineWithPointK(near.b, near.x, far.b)
  <2>1. /\ Shaped(near) /\ near.x \in Rows
        /\ near.b \in [Rows -> Cols] /\ far.b \in [Rows -> Cols]
    BY <1>4 DEF Judged, Shaped
  <2>2. b \in Spread
    BY <2>1, MouthNearImage DEF Spread
  <2> HIDE DEF b
  <2>3. Shaped(Drawn(near, b)) /\ Drawn(near, b).b = b
    BY <2>1, <2>2, Redrawn
  <2>4. CASE near.fp > 0 /\ Seg(near, 0) # "lose"
    <3>1. Mirrored(Drawn(near, b), far)
      BY <1>4, <2>3, <2>4, MouthMirrored DEF b
    <3> QED
      BY <2>3, <2>4, <3>1 DEF b
  <2>5. CASE ~(near.fp > 0 /\ Seg(near, 0) # "lose")
    <3>1. Mirrored(near, far)
      BY <2>5 DEF Mirrored
    <3> QED
      BY <2>1, <2>5, <3>1
  <2> QED
    BY <2>4, <2>5
<1>5. CASE road = <<"State1", "L">>
  <2>1. road # <<"State1", "R">>
    BY <1>5, RoadNames
  <2>2. /\ l' = IF l.fp > 0 /\ Seg(l, 0) # "lose"
                THEN Drawn(l, SetLineWithPointK(l.b, l.x, r.b)) ELSE l
        /\ r' = r
    BY <1>5, <2>1 DEF RingBegins, Drawn
  <2>3. Shaped(l') /\ Mirrored(l', r')
    BY <1>4, <2>2
  <2>4. Course'
    BY <2>1, <2>3 DEF Course
  <2> QED
    BY <1>1, <1>3, <2>2, <2>3, <2>4 DEF RedrawnInv
<1>6. CASE road = <<"State1", "R">>
  <2>1. road # <<"State1", "L">>
    BY <1>6, RoadNames
  <2>2. /\ r' = IF r.fp > 0 /\ Seg(r, 0) # "lose"
                THEN Drawn(r, SetLineWithPointK(r.b, r.x, l.b)) ELSE r
        /\ l' = l
    BY <1>6, <2>1 DEF RingBegins, Drawn
  <2>3. Shaped(r') /\ Mirrored(r', l')
    BY <1>4, <2>2
  <2>4. Course'
    BY <2>1, <2>3 DEF Course
  <2> QED
    BY <1>1, <1>3, <2>2, <2>3, <2>4 DEF RedrawnInv
<1> QED
  BY <1>2, <1>5, <1>6

\* The line across the road.
LEMMA AcrossKeeps ==
  ASSUME Judged(l), Judged(r), road \in Roads, road' = road,
         RingAcross("State3", 187, 187, 10) \/ RingAcross("out", 180, 186, 20)
  PROVE  RedrawnInv'
<1>1. LEFT_LOSE_VALUE \in Cols /\ RIGHT_LOSE_VALUE \in Cols
  BY Image DEF LEFT_LOSE_VALUE, RIGHT_LOSE_VALUE
<1>2. PICK state \in {"State3", "out"}, side \in {"L", "R"} : road = <<state, side>>
  BY DEF RingAcross
<1>3. road[1] = state /\ road[2] = side /\ road # <<"Cross">> /\ road[1] # "State1"
  BY <1>2, RoadNames
<1>4. Course' /\ Closed'
  BY <1>3, RoadNames DEF Course, Closed
<1>5. ASSUME NEW far \in 0 .. 187, NEW near \in 0 .. 187,
             r' = Drawn(r, AdditionalLine(far, near)),
             l' = Drawn(l, SetLose(l.b, LEFT_LOSE_VALUE))
      PROVE  /\ Shaped(l') /\ Shaped(r') /\ Inside'
             /\ r'.b = AdditionalLine(far, near)
             /\ \A row \in Rows \ {Near} : l'.b[row] = LEFT_LOSE_VALUE
  <2>1. Shaped(r') /\ r'.b \in [Rows -> Cols] /\ r'.b = AdditionalLine(far, near)
    BY <1>1, <1>5, AcrossRedrawn, Zenon
  <2>2. /\ Shaped(l') /\ l'.b \in [Rows -> Cols]
        /\ \A row \in Rows \ {Near} : l'.b[row] = LEFT_LOSE_VALUE
    BY <1>1, <1>5, LostRedrawn, Zenon
  <2> QED
    BY <2>1, <2>2, Zenon DEF Inside
<1>6. ASSUME NEW far \in 0 .. 187, NEW near \in 0 .. 187,
             l' = Drawn(l, AdditionalLine(far, near)),
             r' = Drawn(r, SetLose(r.b, RIGHT_LOSE_VALUE))
      PROVE  /\ Shaped(l') /\ Shaped(r') /\ Inside'
             /\ l'.b = AdditionalLine(far, near)
             /\ \A row \in Rows \ {Near} : r'.b[row] = RIGHT_LOSE_VALUE
  <2>1. Shaped(l') /\ l'.b \in [Rows -> Cols] /\ l'.b = AdditionalLine(far, near)
    BY <1>1, <1>6, AcrossRedrawn, Zenon
  <2>2. /\ Shaped(r') /\ r'.b \in [Rows -> Cols]
        /\ \A row \in Rows \ {Near} : r'.b[row] = RIGHT_LOSE_VALUE
    BY <1>1, <1>6, LostRedrawn, Zenon
  <2> QED
    BY <2>1, <2>2 DEF Inside
<1> DEFINE n0 == 0
           n10 == 10
           n20 == 20
           n180 == 180
           n186 == 186
           n187 == 187
<1>7. /\ n0 \in 0 .. 187 /\ n10 \in 0 .. 187 /\ n20 \in 0 .. 187
      /\ n180 \in 0 .. 187 /\ n186 \in 0 .. 187 /\ n187 \in 0 .. 187
  OBVIOUS
<1>8. CASE road = <<"State3", "L">>
  <2>1. r' = Drawn(r, AdditionalLine(n0, n187)) /\ l' = Drawn(l, SetLose(l.b, LEFT_LOSE_VALUE))
    BY <1>8, RoadNames DEF RingAcross, Drawn
  <2>2. road # <<"State3", "R">> /\ road # <<"out", "L">> /\ road # <<"out", "R">>
    BY <1>8, RoadNames
  <2> HIDE DEF n0, n187
  <2>3. /\ Shaped(l') /\ Shaped(r') /\ Inside' /\ r'.b = AdditionalLine(n0, n187)
        /\ \A row \in Rows \ {Near} : l'.b[row] = LEFT_LOSE_VALUE
    BY <1>5, <1>7, <2>1, Zenon
  <2>4. Across("State3", 187, 187, 10)' /\ Across("out", 180, 186, 20)'
    BY <2>2, <2>3 DEF Across, LEFT_LOSE_VALUE, n0, n187
  <2> QED
    BY <1>4, <2>3, <2>4 DEF RedrawnInv
<1>9. CASE road = <<"out", "L">>
  <2>1. r' = Drawn(r, AdditionalLine(n0, n180)) /\ l' = Drawn(l, SetLose(l.b, LEFT_LOSE_VALUE))
    BY <1>9, RoadNames DEF RingAcross, Drawn
  <2>2. road # <<"State3", "R">> /\ road # <<"State3", "L">> /\ road # <<"out", "R">>
    BY <1>9, RoadNames
  <2> HIDE DEF n0, n180
  <2>3. /\ Shaped(l') /\ Shaped(r') /\ Inside' /\ r'.b = AdditionalLine(n0, n180)
        /\ \A row \in Rows \ {Near} : l'.b[row] = LEFT_LOSE_VALUE
    BY <1>5, <1>7, <2>1, Zenon
  <2>4. Across("State3", 187, 187, 10)' /\ Across("out", 180, 186, 20)'
    BY <2>2, <2>3 DEF Across, LEFT_LOSE_VALUE, n0, n180
  <2> QED
    BY <1>4, <2>3, <2>4 DEF RedrawnInv
<1>10. CASE road = <<"State3", "R">>
  <2>1. l' = Drawn(l, AdditionalLine(n187, n10)) /\ r' = Drawn(r, SetLose(r.b, RIGHT_LOSE_VALUE))
    BY <1>10, RoadNames DEF RingAcross, Drawn
  <2>2. road # <<"State3", "L">> /\ road # <<"out", "L">> /\ road # <<"out", "R">>
    BY <1>10, RoadNames
  <2> HIDE DEF n10, n187
  <2>3. /\ Shaped(l') /\ Shaped(r') /\ Inside' /\ l'.b = AdditionalLine(n187, n10)
        /\ \A row \in Rows \ {Near} : r'.b[row] = RIGHT_LOSE_VALUE
    BY <1>6, <1>7, <2>1, Zenon
  <2>4. Across("State3", 187, 187, 10)' /\ Across("out", 180, 186, 20)'
    BY <2>2, <2>3 DEF Across, RIGHT_LOSE_VALUE, n10, n187
  <2> QED
    BY <1>4, <2>3, <2>4 DEF RedrawnInv
<1>11. CASE road = <<"out", "R">>
  <2>1. l' = Drawn(l, AdditionalLine(n186, n20)) /\ r' = Drawn(r, SetLose(r.b, RIGHT_LOSE_VALUE))
    BY <1>11, RoadNames DEF RingAcross, Drawn
  <2>2. road # <<"State3", "L">> /\ road # <<"out", "L">> /\ road # <<"State3", "R">>
    BY <1>11, RoadNames
  <2> HIDE DEF n20, n186
  <2>3. /\ Shaped(l') /\ Shaped(r') /\ Inside' /\ l'.b = AdditionalLine(n186, n20)
        /\ \A row \in Rows \ {Near} : r'.b[row] = RIGHT_LOSE_VALUE
    BY <1>6, <1>7, <2>1, Zenon
  <2>4. Across("State3", 187, 187, 10)' /\ Across("out", 180, 186, 20)'
    BY <2>2, <2>3 DEF Across, RIGHT_LOSE_VALUE, n20, n186
  <2> QED
    BY <1>4, <2>3, <2>4 DEF RedrawnInv
<1> QED
  BY <1>2, <1>8, <1>9, <1>10, <1>11

\* A road on which nothing is redrawn.
LEMMA NothingRedrawn ==
  ASSUME Judged(l), Judged(r), road \in Roads, road' = road, l' = l, r' = r,
         road[1] \in {"Normal", "Corner", "State2", "Cor"}
  PROVE  RedrawnInv'
<1>1. road[1] \notin {"Cross", "State1", "State3", "out"}
  OBVIOUS
<1>2. /\ road # <<"Cross">>
      /\ \A side \in {"L", "R"} : /\ road # <<"State1", side>> /\ road # <<"State3", side>>
                                  /\ road # <<"out", side>>
  BY <1>1, RoadNames
<1>3. Shaped(l) /\ Shaped(r) /\ l.b \in [Rows -> Cols] /\ r.b \in [Rows -> Cols]
  BY DEF Judged
<1>4. Inside'
  BY <1>3 DEF Inside
<1>5. Course' /\ Closed' /\ Across("State3", 187, 187, 10)' /\ Across("out", 180, 186, 20)'
  BY <1>2 DEF Course, Closed, Across
<1> QED
  BY <1>3, <1>4, <1>5 DEF RedrawnInv

\* What SteeringTypeOK says of a border follows from its shape.
LEMMA ShapedTyped ==
  ASSUME NEW border, Shaped(border)
  PROVE  /\ border.b \in [Rows -> (-imgCol) .. 2 * imgCol]
         /\ [seg |-> border.seg, fp |-> border.fp] \in Features
         /\ border.x \in Rows
  BY DEF Shaped

\* Redrawing.
LEMMA RedrawKeeps ==
  ASSUME SteeringInv, Vision_RSHandle
  PROVE  SteeringInv'
<1>1. /\ Judged(l) /\ Judged(r) /\ road \in Roads /\ road' = road
      /\ pc' = "redrawn" /\ UNCHANGED <<mid, sum, valid_line>>
  BY DEF SteeringInv, SteeringTypeOK, Vision_RSHandle
<1>2. RedrawnInv'
  <2>1. CASE CrossRedraw
    BY <1>1, <2>1, CrossKeeps
  <2>2. CASE CornerRedraw
    BY <1>1, <2>2, NothingRedrawn, RoadNames DEF CornerRedraw
  <2>3. CASE RingBegins
    BY <1>1, <2>3, MouthKeeps
  <2>4. CASE RingAcross("State3", 187, 187, 10) \/ RingAcross("out", 180, 186, 20)
    BY <1>1, <2>4, AcrossKeeps
  <2>5. CASE Head(road) \in {"State2", "Cor"} /\ UNCHANGED <<l, r>>
    <3>1. road[1] \in {"State2", "Cor"}
      BY <2>5
    <3> QED
      BY <1>1, <2>5, <3>1, NothingRedrawn
  <2>6. CASE road = <<"Normal">> /\ UNCHANGED <<l, r>>
    BY <1>1, <2>6, NothingRedrawn, RoadNames
  <2> QED
    BY <2>1, <2>2, <2>3, <2>4, <2>5, <2>6 DEF Vision_RSHandle, RingRedraw
<1>3. SteeringTypeOK'
  <2>1. Shaped(l') /\ Shaped(r')
    BY <1>2 DEF RedrawnInv
  <2>2. SteeringTypeOK
    BY DEF SteeringInv
  <2> QED
    BY <1>1, <2>1, <2>2, ShapedTyped DEF SteeringTypeOK
<1> QED
  BY <1>1, <1>2, <1>3 DEF SteeringInv, RedrawnInv

\* What redrawing left stays while the borders do.
LEMMA RedrawnStays ==
  ASSUME RedrawnInv, road' = road, l' = l, r' = r
  PROVE  RedrawnInv'
<1>1. Shaped(l') /\ Shaped(r')
  BY DEF RedrawnInv
<1>2. Inside' /\ Course'
  BY DEF RedrawnInv, Inside, Course
<1>3. Closed'
  BY DEF RedrawnInv, Closed, CrossCon4
<1>4. Across("State3", 187, 187, 10)' /\ Across("out", 180, 186, 20)'
  BY DEF RedrawnInv, Across
<1> QED
  BY <1>1, <1>2, <1>3, <1>4 DEF RedrawnInv

\* Vision_Handle.
LEMMA MiddleKeeps ==
  ASSUME SteeringInv, Middle
  PROVE  SteeringInv'
<1>1. /\ pc = "redrawn" /\ pc' = "middle" /\ road' = road /\ l' = l /\ r' = r
      /\ sum' = sum /\ valid_line' = valid_line
      /\ mid' = [row \in Rows |-> Quot(r.b[row] + l.b[row], 2)]
  BY DEF Middle
<1>2. SteeringTypeOK /\ Shaped(l) /\ Shaped(r) /\ RedrawnInv
  BY <1>1 DEF SteeringInv, RedrawnInv
<1>3. ASSUME NEW row \in Rows
      PROVE  Quot(r.b[row] + l.b[row], 2) \in (-imgCol) .. 2 * imgCol
  <2>1. l.b[row] \in -imgCol .. 2 * imgCol /\ r.b[row] \in -imgCol .. 2 * imgCol
    BY <1>2 DEF SteeringTypeOK
  <2> QED
    BY <2>1, Image DEF Quot
<1>4. mid' \in [Rows -> (-imgCol) .. 2 * imgCol]
  BY <1>1, <1>3
<1>5. SteeringTypeOK'
  BY <1>1, <1>2, <1>4 DEF SteeringTypeOK
<1>6. RedrawnInv'
  BY <1>1, <1>2, RedrawnStays
<1>7. Middles'
  BY <1>1 DEF Middles
<1> QED
  BY <1>1, <1>2, <1>5, <1>6, <1>7 DEF SteeringInv, RedrawnInv

\* trace_line_method.
LEMMA TraceKeeps ==
  ASSUME SteeringInv, trace_line_method
  PROVE  SteeringInv'
<1>1. /\ pc = "middle" /\ pc' = "steered" /\ road' = road /\ l' = l /\ r' = r /\ mid' = mid
      /\ valid_line' = Cardinality(Valid)
  BY DEF trace_line_method
<1>2. SteeringTypeOK /\ Shaped(l) /\ Shaped(r) /\ RedrawnInv /\ Middles
  BY <1>1 DEF SteeringInv, RedrawnInv
<1>3. sum' = SumOver(Share, Valid)
  BY FoldIsSum, Weights DEF trace_line_method
<1>4. SumOver(Share, Valid) \in Int
  <2>1. ASSUME NEW row \in Valid PROVE Share[row] \in Int
    <3>1. row \in Rows /\ Weight(row) \in Int /\ mid[row] \in Int /\ imgCol \div 2 \in Int
      BY <1>2, Weights, Image DEF SteeringTypeOK
    <3> QED
      BY <3>1 DEF Share
  <2> QED
    BY <2>1, Weights, SumIsInt
<1>5. SteeringTypeOK'
  BY <1>1, <1>2, <1>3, <1>4, Weights DEF SteeringTypeOK
<1>6. RedrawnInv'
  BY <1>1, <1>2, RedrawnStays
<1>7. Middles'
  BY <1>1, <1>2 DEF Middles
<1>8. Weighed'
  <2>1. Share' = Share /\ Valid' = Valid
    BY <1>1 DEF Share, Valid
  <2> QED
    BY <1>1, <1>3, <2>1 DEF Weighed, SumOver
<1> QED
  BY <1>1, <1>2, <1>5, <1>6, <1>7, <1>8 DEF SteeringInv, RedrawnInv

\* Every step keeps the invariant.
LEMMA SteeringKept == SteeringInv /\ [SteeringNext]_steeringVars => SteeringInv'
<1> SUFFICES ASSUME SteeringInv, [SteeringNext]_steeringVars PROVE SteeringInv'
  OBVIOUS
<1>1. CASE Vision_RSHandle
  BY <1>1, RedrawKeeps
<1>2. CASE Middle
  BY <1>2, MiddleKeeps
<1>3. CASE trace_line_method
  BY <1>3, TraceKeeps
<1>4. CASE UNCHANGED steeringVars
  <2>1. /\ road' = road /\ l' = l /\ r' = r /\ mid' = mid /\ sum' = sum
        /\ valid_line' = valid_line /\ pc' = pc
    BY <1>4 DEF steeringVars
  <2>2. RedrawnInv => RedrawnInv'
    BY <2>1, RedrawnStays
  <2>3. SteeringTypeOK' /\ Shaped(l') /\ Shaped(r')
    BY <2>1 DEF SteeringInv, SteeringTypeOK
  <2>4. pc = "judged" => Judged(l') /\ Judged(r')
    BY <2>1 DEF SteeringInv
  <2>5. (Middles' <=> Middles) /\ (Weighed' <=> Weighed)
    <3>1. Share' = Share /\ Valid' = Valid
      BY <2>1 DEF Share, Valid
    <3> QED
      BY <2>1, <3>1 DEF Middles, Weighed, SumOver
  <2> QED
    BY <2>1, <2>2, <2>3, <2>4, <2>5 DEF SteeringInv, RedrawnInv
<1> QED
  BY <1>1, <1>2, <1>3, <1>4 DEF SteeringNext, SteeringDone

\* The inductive invariant: what a frame is judged to be until it is redrawn, what the
\* redrawing left from then on, and how the middles and the sum came from it.
THEOREM SteeringInvariant == SteeringSpec => []SteeringInv
  BY SteeringInitially, SteeringKept, PTL DEF SteeringSpec
-----------------------------------------------------------------------------
(* The properties.                                                          *)

\* trace_line_method steers by at most half the width of the image, and no border it
\* is computed from runs away.
THEOREM OffsetWithinImage == SteeringSpec => []OffsetBounded
<1>1. SteeringInv => OffsetBounded
  <2> SUFFICES ASSUME SteeringInv, OffsetKnown, road[1] # "State1"
               PROVE  /\ \A row \in Rows : l.b[row] \in 0 .. imgCol - 1 /\ r.b[row] \in 0 .. imgCol - 1
                      /\ sum <= valid_line * imgRow * imgRow * (imgCol \div 2)
                      /\ -sum <= valid_line * imgRow * imgRow * (imgCol \div 2)
    BY DEF OffsetBounded, SteersWithinImage, SteeringInv
  <2>1. l.b \in [Rows -> Cols] /\ r.b \in [Rows -> Cols] /\ Middles /\ Weighed
    BY DEF SteeringInv, OffsetKnown, Inside
  <2>2. ASSUME NEW row \in Rows PROVE mid[row] \in Cols
    <3>1. mid[row] = Quot(r.b[row] + l.b[row], 2)
      BY <2>1 DEF Middles
    <3>2. r.b[row] \in Cols /\ l.b[row] \in Cols
      BY <2>1
    <3> QED
      BY <3>1, <3>2, Image DEF Quot
  <2>3. mid \in [Rows -> Cols]
    BY <2>1, <2>2 DEF Middles
  <2>4. /\ sum <= valid_line * imgRow * imgRow * (imgCol \div 2)
        /\ -sum <= valid_line * imgRow * imgRow * (imgCol \div 2)
    BY <2>1, <2>3, OffsetWithin DEF Weighed
  <2> QED
    BY <2>1, <2>4 DEF Cols
<1> QED
  BY <1>1, SteeringInvariant, PTL

\* A crossing met at an angle is closed.
THEOREM CrossingsClosed == SteeringSpec => []CrossClosed
<1>1. SteeringInv => CrossClosed
  <2> SUFFICES ASSUME SteeringInv, OffsetKnown, road = <<"Cross">>, CrossCon4,
                      <<"arc">> \in {l.seg, r.seg}
               PROVE  \A border \in {l, r} : Continued(border)
    BY DEF CrossClosed, Continued
  <2>1. Closed
    BY DEF SteeringInv, OffsetKnown
  <2> QED
    BY <2>1 DEF Closed
<1> QED
  BY <1>1, SteeringInvariant, PTL

\* Past the mouth of a roundabout the car keeps its course.
THEOREM MouthPassed == SteeringSpec => []CourseKept
<1>1. SteeringInv => CourseKept
  <2> SUFFICES ASSUME SteeringInv, OffsetKnown, road[1] = "State1"
               PROVE  CourseKept
    BY DEF CourseKept
  <2>1. road \in Roads /\ Course /\ Middles
    BY DEF SteeringInv, SteeringTypeOK, OffsetKnown
  <2>2. \A i \in Rows : mid[i] = Quot(r.b[i] + l.b[i], 2)
    BY <2>1 DEF Middles
  <2>3. ASSUME NEW near, NEW far, Mirrored(near, far),
               far.seg = <<"straight">>, near.fp > 0, Seg(near, 0) # "lose",
               NEW i \in Rows, NEW k \in Rows
        PROVE  /\ near.b[i] + far.b[i] \in Int /\ near.b[k] + far.b[k] \in Int
               /\ Quot(near.b[i] + far.b[i], 2) - Quot(near.b[k] + far.b[k], 2) \in -1 .. 1
    BY <2>3, MiddlesInLine
  <2>4. \A i \in Rows : l.b[i] \in Int /\ r.b[i] \in Int
    BY Image DEF SteeringInv, SteeringTypeOK
  <2>5. CASE road = <<"State1", "L">>
    <3>1. Mirrored(l, r) /\ road[2] = "L"
      BY <2>1, <2>5, RoadNames DEF Course
    <3>2. \A i \in Rows : r.b[i] + l.b[i] = l.b[i] + r.b[i]
      BY <2>4
    <3> QED
      BY <2>2, <2>3, <3>1, <3>2 DEF CourseKept
  <2>6. CASE road = <<"State1", "R">>
    <3>1. Mirrored(r, l) /\ road[2] = "R"
      BY <2>1, <2>6, RoadNames DEF Course
    <3> QED
      BY <2>2, <2>3, <3>1 DEF CourseKept
  <2> QED
    BY <2>1, <2>5, <2>6, RoadNames
<1> QED
  BY <1>1, SteeringInvariant, PTL

\* A roundabout is steered as its side says, in the image the code works on.
THEOREM RingIsSteered ==
  ASSUME imgRow = 70, imgCol = 188, row_begin = 20
  PROVE  SteeringSpec => []RingSteered
<1>1. SteeringInv => RingSteersIn
  <2> SUFFICES ASSUME SteeringInv, OffsetKnown, road \in {"State3", "out"} \X {"L", "R"}
               PROVE  LET side == IF road[2] = "L" THEN sum ELSE -sum
                      IN valid_line > 0 /\ 8 * side > valid_line * imgRow * imgRow * (imgCol \div 2)
    BY DEF RingSteersIn
  <2>1. /\ Middles /\ Weighed /\ Inside
        /\ Across("State3", 187, 187, 10) /\ Across("out", 180, 186, 20)
    BY DEF SteeringInv, OffsetKnown
  <2>2. l.b \in [Rows -> Cols] /\ r.b \in [Rows -> Cols]
    BY <2>1 DEF Inside
  <2>3. mid \in [Rows -> Cols]
    <3>1. ASSUME NEW row \in Rows PROVE Quot(r.b[row] + l.b[row], 2) \in Cols
      <4>1. r.b[row] \in Cols /\ l.b[row] \in Cols
        BY <2>2
      <4> QED
        BY <4>1, Image DEF Quot
    <3> QED
      BY <2>1, <3>1 DEF Middles
  <2>4. valid_line > 0 /\ sum \in Int /\ (8 * Side) * sum > Due * valid_line
    BY <2>1, <2>3, SteeredAcross DEF Weighed
  <2>5. valid_line \in Int
    BY <2>1, Weights DEF Weighed
  <2>6. Due * valid_line = valid_line * imgRow * imgRow * (imgCol \div 2)
    <3>1. imgCol \div 2 = 94
      OBVIOUS
    <3>2. valid_line * 70 * 70 * 94 = 460600 * valid_line
      BY <2>5, SMT
    <3> QED
      BY <3>1, <3>2, SMT DEF Due
  <2>7. (8 * Side) * sum = 8 * (IF road[2] = "L" THEN sum ELSE -sum)
    BY <2>4 DEF Side
  <2> QED
    BY <2>4, <2>6, <2>7
<1>2. SteeringSpec => []RingSteersIn
  BY <1>1, SteeringInvariant, PTL
<1> QED
  BY <1>2, MouthPassed, PTL DEF RingSteered
=============================================================================
