--------------------------- MODULE LineScanProofs ---------------------------
(***************************************************************************)
(* Proofs about LineScan, for every size of the image and every choice of  *)
(* its margins that satisfies ScanAssumption.                              *)
(***************************************************************************)
EXTENDS LineScan, WellFoundedInduction, TLAPS

\* A set of naturals that is not empty has a least element.
LEMMA LeastNatural ==
  ASSUME NEW S \in SUBSET Nat, S # {}
  PROVE  \E x \in S : \A y \in S : x <= y
<1> DEFINE R == OpToRel(<, Nat)
<1>1. IsWellFoundedOn(R, Nat)
  BY NatLessThanWellFounded
<1>2. PICK x \in S : \A y \in S : ~ (<<y, x>> \in R)
  <2> HIDE DEF R
  <2> QED
    BY <1>1, WFMin
<1>3. \A y \in S : ~ (y < x)
  BY <1>2 DEF OpToRel
<1> QED
  BY <1>3

\* A set of columns that is not empty has a least and a greatest one.
LEMMA ColumnsBounded ==
  ASSUME NEW S, NEW a \in Nat, NEW b \in Nat, S \subseteq a .. b, S # {}
  PROVE  /\ Min(S) \in S /\ \A x \in S : Min(S) <= x
         /\ Max(S) \in S /\ \A x \in S : x <= Max(S)
<1>1. \E x \in S : \A y \in S : x <= y
  BY LeastNatural
<1>2. \E x \in S : \A y \in S : x >= y
  <2> DEFINE T == {b - x : x \in S}
  <2>1. T \in SUBSET Nat /\ T # {}
    <3>1. \A x \in S : x \in Int /\ x <= b
      OBVIOUS
    <3>2. \A x \in S : b - x \in Nat
      BY <3>1
    <3>3. PICK x \in S : TRUE
      OBVIOUS
    <3>4. b - x \in T
      OBVIOUS
    <3> QED
      BY <3>2, <3>4
  <2>2. PICK t \in T : \A y \in T : t <= y
    <3> HIDE DEF T
    <3> QED
      BY <2>1, LeastNatural
  <2>3. PICK x \in S : t = b - x
    OBVIOUS
  <2>4. \A y \in S : b - x <= b - y
    BY <2>2, <2>3
  <2> QED
    BY <2>4
<1>3. Min(S) \in S /\ \A x \in S : Min(S) <= x
  BY <1>1 DEF Min
<1>4. Max(S) \in S /\ \A x \in S : Max(S) >= x
  BY <1>2 DEF Max
<1>5. \A x \in S : x \in Int
  OBVIOUS
<1> QED
  BY <1>3, <1>4, <1>5
-----------------------------------------------------------------------------
(* The invariant.                                                           *)

\* A limit is acted on in the round after the one that set it, and until then all
\* rows below the one that set it are wide enough.
Scanned ==
  i >= 0 =>
    /\ Limit # 0 => Limit = i + 1
    /\ \A r \in Rows : r > i /\ r # Limit => leftBroder[r] <= rightBroder[r] - MinWidth

IInv == TypeOK /\ Scanned /\ NoCrossedRow

\* A border that was searched for, or lost, is a column of the image.
Border == [col : Cols, add : {0, 1}]

\* The size of the image, and the columns the code names.
LEMMA Image ==
  /\ imgCol \in Nat /\ MID \in Nat /\ 3 < MID /\ MID < imgCol - 1
  /\ imgCol - 1 \in Cols /\ 0 \in Cols /\ 1 \in Cols
  /\ \A j \in Cols : j \in Nat /\ j <= imgCol - 1
<1>1. imgCol \in Nat /\ MID > 3
  BY ScanAssumption
<1>2. MID \in Int /\ 2 * (MID + 1) <= imgCol
  BY <1>1 DEF MID
<1> HIDE DEF MID
<1>3. MID \in Nat /\ MID < imgCol - 1 /\ imgCol > 8
  BY <1>1, <1>2
<1> QED
  BY <1>1, <1>3 DEF Cols

\* The left border is the column before the one where the road begins.
LEMMA LeftAtBorder ==
  ASSUME NEW js, js \subseteq 1 .. imgCol - 1
  PROVE  LeftAt(js) \in Border
<1>1. CASE js = {}
  BY <1>1, Image DEF LeftAt, LostLeft, Border
<1>2. CASE js # {}
  <2>1. Max(js) \in js
    BY <1>2, Image, ColumnsBounded, 1 \in Nat, imgCol - 1 \in Nat
  <2>2. Max(js) \in 1 .. imgCol - 1
    BY <2>1
  <2>3. \A m \in 1 .. imgCol - 1 : m - 1 \in Cols
    BY Image DEF Cols
  <2> QED
    BY <1>2, <2>2, <2>3 DEF LeftAt, Border
<1> QED
  BY <1>1, <1>2

\* The right border is the column where the road ends.
LEMMA RightAtBorder ==
  ASSUME NEW js, js \subseteq 1 .. imgCol - 1
  PROVE  RightAt(js) \in Border
<1>1. CASE js = {}
  BY <1>1, Image DEF RightAt, LostRight, Border
<1>2. CASE js # {}
  <2>1. Min(js) \in js
    BY <1>2, Image, ColumnsBounded, 1 \in Nat, imgCol - 1 \in Nat
  <2>2. Min(js) \in 1 .. imgCol - 1
    BY <2>1
  <2>3. \A m \in 1 .. imgCol - 1 : m \in Cols
    BY Image DEF Cols
  <2> QED
    BY <1>2, <2>2, <2>3 DEF RightAt, Border
<1> QED
  BY <1>1, <1>2

\* A search from a to b finds columns from a to b.
LEMMA SearchRange ==
  ASSUME NEW p, NEW a \in Nat, NEW b \in Int, a >= 1, b <= imgCol - 1
  PROVE  /\ Begins(p, a, b) \subseteq a .. b /\ Begins(p, a, b) \subseteq 1 .. imgCol - 1
         /\ Ends(p, a, b) \subseteq a .. b /\ Ends(p, a, b) \subseteq 1 .. imgCol - 1
  BY Image DEF Begins, Ends

\* So what it finds, if anything, is a border.
LEMMA SearchBorder ==
  ASSUME NEW p, NEW a \in Nat, NEW b \in Int, a >= 1, b <= imgCol - 1
  PROVE  LeftAt(Begins(p, a, b)) \in Border /\ RightAt(Ends(p, a, b)) \in Border
  BY SearchRange, LeftAtBorder, RightAtBorder

\* Bounds of the searches of the nearest row.
LEMMA Middle ==
  /\ 1 \in Nat /\ 1 >= 1 /\ MID >= 1 /\ MID \in Int /\ MID \in Nat
  /\ MID <= imgCol - 1 /\ imgCol - 1 \in Int /\ imgCol - 1 \in Nat
  /\ imgCol - 1 <= imgCol - 1
  BY Image

\* The borders of the nearest row with a bright middle are columns.
LEMMA WhiteMiddleBorders ==
  ASSUME NEW p
  PROVE  WhiteMiddle(p).L \in Border /\ WhiteMiddle(p).R \in Border
<1>1. LeftAt(Begins(p, 1, MID)) \in Border
  BY Middle, SearchBorder
<1>2. RightAt(Ends(p, MID, imgCol - 1)) \in Border
  BY Middle, SearchBorder
<1> QED
  BY <1>1, <1>2 DEF WhiteMiddle

\* So are those of the nearest row with a dark middle, on whichever side the road is.
LEMMA DarkMiddleBorders ==
  ASSUME NEW p
  PROVE  DarkMiddle(p).L \in Border /\ DarkMiddle(p).R \in Border
<1> DEFINE right == Begins(p, MID, imgCol - 1)
           left == Ends(p, 1, MID)
           begin == Min(right) - 1
           end == Max(left)
           first == IF right = {}
                    THEN [L |-> LostLeft, R |-> [col |-> imgCol - 1, add |-> 0]]
                    ELSE [L |-> [col |-> begin, add |-> 0],
                          R |-> RightAt(Ends(p, begin + 1, imgCol - 1))]
           near == Begins(p, 1, end - 1)
           other == [L |-> [col |-> IF near = {} THEN 1 ELSE Max(near),
                            add |-> IF near = {} THEN 1 ELSE 0],
                     R |-> [col |-> end, add |-> first.R.add]]
<1>1. DarkMiddle(p) = IF left = {} THEN first ELSE other
  BY DEF DarkMiddle
<1>2. right \subseteq MID .. imgCol - 1 /\ left \subseteq 1 .. MID
  BY DEF Begins, Ends
<1>3. first.L \in Border /\ first.R \in Border
  <2>1. CASE right = {}
    BY <2>1, Image DEF LostLeft, Border
  <2>2. CASE right # {}
    <3>1. Min(right) \in MID .. imgCol - 1
      <4> HIDE DEF right
      <4> QED
        BY <1>2, <2>2, Image, ColumnsBounded, imgCol - 1 \in Nat
    <3>2. begin \in Cols /\ begin + 1 \in Nat /\ begin + 1 >= 1
      <4> DEFINE m == Min(right)
      <4> HIDE DEF m
      <4>1. m \in MID .. imgCol - 1
        BY <3>1 DEF m
      <4>2. m - 1 \in Cols /\ (m - 1) + 1 \in Nat /\ (m - 1) + 1 >= 1
        BY <4>1, Image DEF Cols
      <4> QED
        BY <4>2 DEF m
    <3>3. RightAt(Ends(p, begin + 1, imgCol - 1)) \in Border
      <4> HIDE DEF begin
      <4> QED
        BY <3>2, Middle, SearchBorder
    <3> HIDE DEF begin
    <3> QED
      BY <2>2, <3>2, <3>3 DEF Border
  <2> QED
    BY <2>1, <2>2
<1>4. ASSUME left # {} PROVE other.L \in Border /\ other.R \in Border
  <2>1. end \in 1 .. MID
    <3> HIDE DEF left
    <3> QED
      BY <1>2, <1>4, Image, ColumnsBounded, 1 \in Nat
  <2>2. near \subseteq 1 .. imgCol - 1
    <3> HIDE DEF end
    <3>1. end - 1 \in Int /\ end - 1 <= imgCol - 1
      BY <2>1, Image
    <3>2. near \subseteq 1 .. end - 1
      BY DEF Begins
    <3> HIDE DEF near
    <3> QED
      BY <3>1, <3>2, Middle
  <2>3. near # {} => Max(near) \in Cols
    <3> HIDE DEF near
    <3>1. near # {} => Max(near) \in near
      BY <2>2, Middle, ColumnsBounded
    <3>2. 1 .. imgCol - 1 \subseteq Cols
      BY Image DEF Cols
    <3> QED
      BY <2>2, <3>1, <3>2
  <2>4. end \in Cols
    <3> HIDE DEF end
    <3> QED
      BY <2>1, Image DEF Cols
  <2>5. first.R.add \in {0, 1}
    <3> HIDE DEF first
    <3> QED
      BY <1>3 DEF Border
  <2> HIDE DEF first, near, end
  <2> QED
    BY <2>3, <2>4, <2>5, Image DEF Border
<1> HIDE DEF left, first, other
<1> QED
  BY <1>1, <1>3, <1>4
\* The columns from which and up to which a row above is searched.
LEMMA Above ==
  ASSUME NEW c \in Cols
  PROVE  /\ c \in Int /\ c <= imgCol - 1
         /\ (IF c + range_line > imgCol - 1 THEN imgCol - 1 ELSE c + range_line) \in Int
         /\ (IF c + range_line > imgCol - 1 THEN imgCol - 1 ELSE c + range_line) <= imgCol - 1
         /\ (IF c - range_line <= 1 THEN 1 ELSE c - range_line) \in Nat
         /\ (IF c - range_line <= 1 THEN 1 ELSE c - range_line) >= 1
         /\ (IF c = 0 THEN 1 ELSE c) \in Nat
         /\ (IF c = 0 THEN 1 ELSE c) >= 1
         /\ imgCol - 2 \in Int /\ imgCol - 2 <= imgCol - 1
         /\ 4 \in Nat /\ 4 >= 1
  BY Image, ScanAssumption DEF Cols

\* The borders found from borders of the row below are columns.
LEMMA LeftAboveBorder ==
  ASSUME NEW p, NEW l \in Border, NEW r \in Border
  PROVE  LeftAbove(p, l, r) \in Border
<1> DEFINE high == IF l.col + range_line > imgCol - 1 THEN imgCol - 1
                   ELSE l.col + range_line
<1>1. l.col \in Cols /\ r.col \in Cols
  BY DEF Border
<1>2. high \in Int /\ high <= imgCol - 1 /\ r.col \in Int /\ r.col <= imgCol - 1
  BY <1>1, Above
<1>3. LeftAbove(p, l, r) = IF l.add = 0 THEN LeftAt(Begins(p, 4, high))
                           ELSE IF r.add = 0 THEN LeftAt(Begins(p, 1, r.col))
                           ELSE LeftAt(Begins(p, 4, MID))
  BY DEF LeftAbove
<1> HIDE DEF high
<1>4. 4 \in Nat /\ 4 >= 1
  OBVIOUS
<1>5. LeftAt(Begins(p, 4, high)) \in Border
  BY <1>2, <1>4, SearchBorder
<1>6. LeftAt(Begins(p, 1, r.col)) \in Border
  BY <1>2, Middle, SearchBorder
<1>7. LeftAt(Begins(p, 4, MID)) \in Border
  BY <1>4, Middle, SearchBorder
<1> QED
  BY <1>3, <1>5, <1>6, <1>7

\* The right one too, whatever pixel is read beside column 0.
LEMMA RightAboveBorder ==
  ASSUME NEW p, NEW l \in Border, NEW r \in Border, NEW at
  PROVE  RightAbove(p, l, r, at) \in Border
<1> DEFINE low == IF r.col - range_line <= 1 THEN 1 ELSE r.col - range_line
           from == IF l.col = 0 THEN 1 ELSE l.col
<1>1. l.col \in Cols /\ r.col \in Cols
  BY DEF Border
<1>2. low \in Nat /\ low >= 1 /\ from \in Nat /\ from >= 1
  BY <1>1, Above
<1>3. RightAbove(p, l, r, at) =
        IF r.add = 0 THEN RightAt(Ends(p, low, imgCol - 2))
        ELSE IF l.add = 0
        THEN IF l.col = 0 /\ p[0] = "dark" /\ at = "bright" THEN [col |-> 0, add |-> 0]
             ELSE RightAt(Ends(p, from, imgCol - 1))
        ELSE RightAt(Ends(p, MID, imgCol - 1))
  BY DEF RightAbove
<1> HIDE DEF low, from
<1>4. imgCol - 2 \in Int /\ imgCol - 2 <= imgCol - 1
  BY Image
<1>5. RightAt(Ends(p, low, imgCol - 2)) \in Border
  BY <1>2, <1>4, SearchBorder
<1>6. RightAt(Ends(p, from, imgCol - 1)) \in Border
  BY <1>2, Middle, SearchBorder
<1>7. RightAt(Ends(p, MID, imgCol - 1)) \in Border
  BY Middle, SearchBorder
<1>8. [col |-> 0, add |-> 0] \in Border
  BY Image DEF Border
<1> QED
  BY <1>3, <1>5, <1>6, <1>7, <1>8
-----------------------------------------------------------------------------
(* The steps.                                                               *)

\* The borders of a row keep the invariant: a road that is too narrow sets the
\* limit, which is not row -1.
LEMMA FoundKeeps ==
  ASSUME NEW p, NEW black, NEW l \in Border, NEW r \in Border,
         IInv, i >= 0, Limit = 0, Found(p, black, l, r)
  PROVE  IInv'
<1> DEFINE given == Given(p, black, l, r)
<1>1. /\ l.col \in Cols /\ r.col \in Cols /\ l.add \in {0, 1} /\ r.add \in {0, 1}
      /\ l.col \in Int /\ r.col \in Int
  BY Image DEF Border
<1>2. ~ given => l.col <= r.col - MinWidth
  <2>1. ~ given => ~ (l.col > r.col - MinWidth)
    BY DEF Given
  <2>2. MinWidth \in Int
    BY ScanAssumption, Image
  <2> HIDE DEF given
  <2> QED
    BY <1>1, <2>1, <2>2
<1>3. /\ leftBroder' = [leftBroder EXCEPT ![i] = l.col]
      /\ rightBroder' = [rightBroder EXCEPT ![i] = r.col]
      /\ left_add_flag' = l.add /\ right_add_flag' = r.add
      /\ Limit' = IF given THEN i ELSE 0
      /\ i' = i - 1
  BY DEF Found
<1> HIDE DEF given
<1>4. i \in Rows /\ 0 \in Rows /\ i \in Nat
  BY ScanAssumption DEF IInv, TypeOK, Rows
<1>5. TypeOK'
  <2>1. leftBroder' \in [Rows -> Cols] /\ rightBroder' \in [Rows -> Cols]
    BY <1>1, <1>3 DEF IInv, TypeOK
  <2>2. i' \in -1 .. imgRow - 1
    BY <1>3, <1>4, ScanAssumption DEF Rows
  <2> QED
    BY <1>1, <1>3, <1>4, <2>1, <2>2 DEF TypeOK
<1>6. \A q \in Rows : q >= i /\ q # Limit' => leftBroder'[q] <= rightBroder'[q] - MinWidth
  <2> SUFFICES ASSUME NEW q \in Rows, q >= i, q # 0 \/ i = 0, q # Limit'
               PROVE  leftBroder'[q] <= rightBroder'[q] - MinWidth
    <3>1. \A q \in Rows : q >= i /\ q = 0 => i = 0
      BY <1>4
    <3> QED
      BY <3>1
  <2>1. CASE q = i
    <3>1. ~ given
      BY <1>3, <2>1
    <3>2. leftBroder'[q] = l.col /\ rightBroder'[q] = r.col
      BY <1>3, <1>4, <2>1 DEF IInv, TypeOK
    <3> QED
      BY <1>2, <3>1, <3>2
  <2>2. CASE q # i
    <3>1. q > i /\ q # Limit
      BY <1>4, <2>2 DEF Rows
    <3>2. leftBroder[q] <= rightBroder[q] - MinWidth
      BY <3>1, <1>4 DEF IInv, Scanned
    <3>3. leftBroder'[q] = leftBroder[q] /\ rightBroder'[q] = rightBroder[q]
      BY <1>3, <2>2 DEF IInv, TypeOK
    <3> QED
      BY <3>2, <3>3
  <2> QED
    BY <2>1, <2>2
<1>7. \A q \in Rows : q > i' => q >= i
  BY <1>3, <1>4 DEF Rows
<1>8. Scanned'
  <2>1. Limit' # 0 => Limit' = i' + 1
    BY <1>3, <1>4
  <2> QED
    BY <1>6, <1>7, <2>1 DEF Scanned
<1>9. NoCrossedRow'
  <2> SUFFICES ASSUME i' = -1, NEW q \in Rows \ {0}
               PROVE  leftBroder'[q] <= rightBroder'[q] - MinWidth
    BY DEF NoCrossedRow
  <2>1. i = 0
    BY <1>3, <1>4
  <2>2. Limit' = 0 /\ q >= i /\ q # Limit'
    BY <1>3, <2>1 DEF Rows
  <2> QED
    BY <1>6, <2>2
<1> QED
  BY <1>5, <1>8, <1>9 DEF IInv
\* Giving up keeps the invariant: the rows given up are as wide as the image, and
\* those nearer than the limit were wide enough.
LEMMA GiveUpKeeps ==
  ASSUME IInv, GiveUp
  PROVE  IInv'
<1>1. Limit = i + 1 /\ i \in Nat /\ Limit \in Rows
  BY ScanAssumption DEF IInv, TypeOK, Scanned, GiveUp
<1>2. /\ leftBroder' = [r \in Rows |-> IF r <= Limit THEN 0 ELSE leftBroder[r]]
      /\ rightBroder' = [r \in Rows |-> IF r <= Limit THEN imgCol - 1 ELSE rightBroder[r]]
      /\ i' = -1
      /\ left_add_flag' = left_add_flag /\ right_add_flag' = right_add_flag
      /\ Limit' = Limit
  BY DEF GiveUp
<1>3. TypeOK'
  <2>1. leftBroder' \in [Rows -> Cols] /\ rightBroder' \in [Rows -> Cols]
    BY <1>2, Image DEF IInv, TypeOK
  <2>2. i' \in -1 .. imgRow - 1
    BY <1>2, ScanAssumption
  <2> QED
    BY <1>2, <2>1, <2>2 DEF IInv, TypeOK
<1>4. Scanned'
  BY <1>2 DEF Scanned
<1>5. NoCrossedRow'
  <2> SUFFICES ASSUME NEW q \in Rows \ {0}
               PROVE  leftBroder'[q] <= rightBroder'[q] - MinWidth
    BY DEF NoCrossedRow
  <2>1. CASE q <= Limit
    <3>1. leftBroder'[q] = 0 /\ rightBroder'[q] = imgCol - 1
      BY <1>2, <2>1
    <3>2. 0 <= (imgCol - 1) - MinWidth
      BY ScanAssumption, Image
    <3> QED
      BY <3>1, <3>2
  <2>2. CASE ~ (q <= Limit)
    <3>1. leftBroder'[q] = leftBroder[q] /\ rightBroder'[q] = rightBroder[q]
      BY <1>2, <2>2
    <3>2. q > i /\ q # Limit
      BY <1>1, <2>2 DEF Rows
    <3> QED
      BY <1>1, <3>1, <3>2 DEF IInv, Scanned
  <2> QED
    BY <2>1, <2>2
<1> QED
  BY <1>3, <1>4, <1>5 DEF IInv

\* IInv is an inductive invariant of the scan.
THEOREM InductiveInvariant == Spec => []IInv
<1>1. ASSUME Init PROVE IInv
  <2>1. TypeOK
    BY <1>1, ScanAssumption, Image DEF Init, TypeOK, Rows
  <2>2. Scanned
    <3>1. Limit = 0 /\ i = imgRow - 1
      BY <1>1 DEF Init
    <3>2. \A r \in Rows : ~ (r > i)
      BY <3>1, ScanAssumption DEF Rows
    <3> QED
      BY <3>1, <3>2 DEF Scanned
  <2>3. NoCrossedRow
    BY <1>1, ScanAssumption DEF Init, NoCrossedRow
  <2> QED
    BY <2>1, <2>2, <2>3 DEF IInv
<1>2. ASSUME IInv, [Next]_vars PROVE IInv'
  <2>1. ASSUME NEW p, NEW black, FirstRow(p, black)
        PROVE  IInv'
    <3>1. i = imgRow - 1 /\ i >= 0 /\ Limit = 0
      BY <1>2, <2>1, ScanAssumption DEF FirstRow, IInv, TypeOK, Scanned, Rows
    <3>2. CASE p[MID] = "dark"
      <4>1. Found(p, black, DarkMiddle(p).L, DarkMiddle(p).R)
        BY <2>1, <3>2 DEF FirstRow
      <4> QED
        BY <1>2, <3>1, <4>1, DarkMiddleBorders, FoundKeeps
    <3>3. CASE p[MID] # "dark"
      <4>1. Found(p, black, WhiteMiddle(p).L, WhiteMiddle(p).R)
        BY <2>1, <3>3 DEF FirstRow
      <4> QED
        BY <1>2, <3>1, <4>1, WhiteMiddleBorders, FoundKeeps
    <3> QED
      BY <3>2, <3>3
  <2>2. ASSUME NEW p, NEW black, NEW at, RowAbove(p, black, at)
        PROVE  IInv'
    <3>1. i >= 0 /\ Limit = 0 /\ i + 1 \in Rows
      BY <2>2, ScanAssumption DEF RowAbove, Rows
    <3>2. LastLeft \in Border /\ LastRight \in Border
      BY <1>2, <3>1 DEF LastLeft, LastRight, Border, IInv, TypeOK
    <3>3. /\ LeftAbove(p, LastLeft, LastRight) \in Border
          /\ RightAbove(p, LastLeft, LastRight, at) \in Border
      BY <3>2, LeftAboveBorder, RightAboveBorder
    <3>4. Found(p, black, LeftAbove(p, LastLeft, LastRight),
                          RightAbove(p, LastLeft, LastRight, at))
      BY <2>2 DEF RowAbove
    <3> QED
      BY <1>2, <3>1, <3>3, <3>4, FoundKeeps
  <2>3. CASE GiveUp
    BY <1>2, <2>3, GiveUpKeeps
  <2>4. CASE UNCHANGED vars
    BY <1>2, <2>4 DEF vars, IInv, TypeOK, Scanned, NoCrossedRow
  <2> QED
    BY <1>2, <2>1, <2>2, <2>3, <2>4 DEF Next, Done
<1> QED
  BY <1>1, <1>2, PTL DEF Spec

\* The borders that are handed on are columns of the image, and no row but row 0
\* has borders that are crossed or too near to each other.
THEOREM UsableBorders == Spec => []BordersUsable
<1>1. IInv => BordersUsable
  BY DEF IInv, BordersUsable
<1> QED
  BY <1>1, InductiveInvariant, PTL
-----------------------------------------------------------------------------
(* Following a road.                                                        *)

\* The greatest and the least member of a set of one column.
LEMMA OneColumn ==
  ASSUME NEW a \in Int
  PROVE  Max({a}) = a /\ Min({a}) = a
  BY DEF Max, Min

\* A search that covers its border finds the road exactly there.
LEMMA RoadBorders ==
  ASSUME NEW a \in Cols, NEW b \in Cols, 3 < a, a <= b, b + 1 < imgCol - 1,
         NEW lo \in Int, NEW hi \in Int, lo >= 1, hi <= imgCol - 1
  PROVE  /\ lo <= a /\ a <= hi => Begins(Road(a, b), lo, hi) = {a}
         /\ lo <= b + 1 /\ b + 1 <= hi => Ends(Road(a, b), lo, hi) = {b + 1}
<1>1. a \in Nat /\ b \in Nat /\ imgCol \in Nat
  BY Image
<1>2. \A j \in lo .. hi :
        /\ Road(a, b)[j] = IF j \in a .. b THEN "bright" ELSE "dark"
        /\ Road(a, b)[j - 1] = IF j - 1 \in a .. b THEN "bright" ELSE "dark"
  <2>1. \A j \in lo .. hi : j \in Cols /\ j - 1 \in Cols
    BY <1>1 DEF Cols
  <2> QED
    BY <2>1 DEF Road
<1>3. \A j \in lo .. hi :
        /\ (Road(a, b)[j] = "bright" /\ Road(a, b)[j - 1] = "dark") <=> j = a
        /\ (Road(a, b)[j] = "dark" /\ Road(a, b)[j - 1] = "bright") <=> j = b + 1
  <2> SUFFICES ASSUME NEW j \in lo .. hi
               PROVE  /\ (Road(a, b)[j] = "bright" /\ Road(a, b)[j - 1] = "dark") <=> j = a
                      /\ (Road(a, b)[j] = "dark" /\ Road(a, b)[j - 1] = "bright") <=> j = b + 1
    OBVIOUS
  <2>1. (j \in a .. b /\ ~ (j - 1 \in a .. b)) <=> j = a
    BY <1>1
  <2>2. (~ (j \in a .. b) /\ j - 1 \in a .. b) <=> j = b + 1
    BY <1>1
  <2> QED
    BY <1>2, <2>1, <2>2
<1> QED
  BY <1>1, <1>3 DEF Begins, Ends

\* A road seen in the row below, and moved by no more than the range, is found in
\* the next row with exactly its borders.
THEOREM FollowsRoad == Spec => []RoadFollowed
<1>1. ASSUME IInv PROVE RoadFollowed
  <2> SUFFICES ASSUME i \in 0 .. imgRow - 2, left_add_flag = 0, right_add_flag = 0,
                      NEW a \in Cols, NEW b \in Cols, 3 < a, a <= b, b + 1 < imgCol - 1,
                      a <= LastLeft.col + range_line, b + 1 >= LastRight.col - range_line
               PROVE  /\ LeftAbove(Road(a, b), LastLeft, LastRight) = [col |-> a - 1, add |-> 0]
                      /\ RightAbove(Road(a, b), LastLeft, LastRight, "dark")
                           = [col |-> b + 1, add |-> 0]
    BY DEF RoadFollowed
  <2> DEFINE high == IF LastLeft.col + range_line > imgCol - 1 THEN imgCol - 1
                     ELSE LastLeft.col + range_line
             low == IF LastRight.col - range_line <= 1 THEN 1
                    ELSE LastRight.col - range_line
  <2>1. LastLeft.add = 0 /\ LastRight.add = 0
    BY DEF LastLeft, LastRight
  <2>2. LastLeft.col \in Cols /\ LastRight.col \in Cols
    <3>1. i + 1 \in Rows
      BY ScanAssumption DEF Rows
    <3> QED
      BY <1>1, <3>1 DEF IInv, TypeOK, LastLeft, LastRight
  <2>3. a \in Nat /\ b \in Nat /\ imgCol \in Nat /\ range_line \in Nat
    BY Image, ScanAssumption
  <2>4. /\ high \in Int /\ high <= imgCol - 1
        /\ low \in Int /\ low >= 1
    BY <2>2, Above
  <2>5. a <= high /\ low <= b + 1
    BY <2>2, <2>3, Image
  <2>6. /\ LeftAbove(Road(a, b), LastLeft, LastRight) = LeftAt(Begins(Road(a, b), 4, high))
        /\ RightAbove(Road(a, b), LastLeft, LastRight, "dark")
             = RightAt(Ends(Road(a, b), low, imgCol - 2))
    BY <2>1 DEF LeftAbove, RightAbove
  <2> HIDE DEF high, low
  <2>7. Begins(Road(a, b), 4, high) = {a}
    <3>1. 4 \in Int /\ 4 >= 1 /\ 4 <= a
      BY <2>3
    <3> QED
      BY <2>4, <2>5, <3>1, RoadBorders
  <2>8. Ends(Road(a, b), low, imgCol - 2) = {b + 1}
    <3>1. imgCol - 2 \in Int /\ imgCol - 2 <= imgCol - 1 /\ b + 1 <= imgCol - 2
      BY <2>3
    <3> QED
      BY <2>4, <2>5, <3>1, RoadBorders
  <2>9. Max({a}) = a /\ Min({b + 1}) = b + 1
    BY <2>3, OneColumn
  <2> QED
    BY <2>6, <2>7, <2>8, <2>9 DEF LeftAt, RightAt
<1> QED
  BY <1>1, InductiveInvariant, PTL
=============================================================================
