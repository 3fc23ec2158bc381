------------------------------ MODULE LineScan ------------------------------
(***************************************************************************)
(* Camera_FindMyLine: the two borders of the road are searched row by row, *)
(* from the nearest row upwards; in every row the search begins around the *)
(* borders of the row below, or in the middle if those were lost.  When    *)
(* the borders meet or leave the image the rest of the image is given up.  *)
(*                                                                         *)
(* A pixel is compared with the threshold only: it is darker ("dark"),     *)
(* brighter ("bright") or neither ("equal").  A row of pixels is chosen    *)
(* when it is scanned, and so is whether its dark pixels are black (zero). *)
(***************************************************************************)
EXTENDS Integers, FiniteSetsExt

CONSTANTS
  imgRow, imgCol,
  Shades,          \* the shades that occur
  range_line,      \* how far from the row below a border is searched
  RightZone,       \* 10: the right border is at the left side of the image
  LeftZone,        \* 150: the left border is at the right side of the image
  Probes,          \* columns 25 and 135
  MinWidth         \* 6: a narrower road has ended

MID == imgCol \div 2 - 1   \* MID_COL-1

ASSUME ScanAssumption ==
  /\ imgRow \in Nat \ {0} /\ imgCol \in Nat
  /\ Shades \subseteq {"dark", "equal", "bright"}
  /\ range_line \in Nat /\ range_line >= 3 /\ MID > 3
  /\ RightZone \in Nat /\ LeftZone \in Nat /\ Probes \subseteq 0 .. imgCol - 1
  /\ MinWidth \in 1 .. imgCol - 1

VARIABLES
  leftBroder, rightBroder,           \* row -> column
  left_add_flag, right_add_flag,     \* of the last row scanned: no border found
  Limit,                             \* Limit_Broder: the row to give up from
  i                                  \* the loop variable

vars == <<leftBroder, rightBroder, left_add_flag, right_add_flag, Limit, i>>

Rows == 0 .. imgRow - 1
Cols == 0 .. imgCol - 1
Pixels == [Cols -> Shades]

TypeOK ==
  /\ leftBroder \in [Rows -> Cols] /\ rightBroder \in [Rows -> Cols]
  /\ left_add_flag \in {0, 1} /\ right_add_flag \in {0, 1}
  /\ Limit \in Rows
  /\ i \in -1 .. imgRow - 1

Init ==
  /\ leftBroder = [r \in Rows |-> 0]
  /\ rightBroder = [r \in Rows |-> imgCol - 1]
  /\ left_add_flag = 0 /\ right_add_flag = 0
  /\ Limit = 0
  /\ i = imgRow - 1
-----------------------------------------------------------------------------
\* Columns from a to b where the road begins, and where it ends.
Begins(p, a, b) == {j \in a .. b : p[j] = "bright" /\ p[j - 1] = "dark"}
Ends(p, a, b) == {j \in a .. b : p[j] = "dark" /\ p[j - 1] = "bright"}

\* A border: its column and whether it was found.
LostLeft  == [col |-> 0, add |-> 1]
LostRight == [col |-> imgCol - 1, add |-> 1]
LeftAt(js) == IF js = {} THEN LostLeft ELSE [col |-> Max(js) - 1, add |-> 0]
RightAt(js) == IF js = {} THEN LostRight ELSE [col |-> Min(js), add |-> 0]
-----------------------------------------------------------------------------
(* The nearest row.                                                         *)

WhiteMiddle(p) ==
  [L |-> LeftAt(Begins(p, 1, MID)), R |-> RightAt(Ends(p, MID, imgCol - 1))]

\* The middle is dark: first the road to the right of it, then, instead, the one
\* to the left.  Without either the right border is not marked as lost.
DarkMiddle(p) ==
  LET right == Begins(p, MID, imgCol - 1)
      left == Ends(p, 1, MID)
      begin == Min(right) - 1
      end == Max(left)
      first == IF right = {}
               THEN [L |-> LostLeft, R |-> [col |-> imgCol - 1, add |-> 0]]
               ELSE [L |-> [col |-> begin, add |-> 0],
                     R |-> RightAt(Ends(p, begin + 1, imgCol - 1))]
      near == Begins(p, 1, end - 1)
  IN IF left = {} THEN first
     ELSE [L |-> [col |-> IF near = {} THEN 1 ELSE Max(near),
                  add |-> IF near = {} THEN 1 ELSE 0],
           R |-> [col |-> end, add |-> first.R.add]]
-----------------------------------------------------------------------------
(* The rows above it, from the borders l and r of the row below.            *)

\* Variant: the search begins at the border of the row below.
LeftAbove_Outward(p, l, r) ==
  IF l.add = 0 THEN LeftAt(Begins(p, 4, l.col))
  ELSE IF r.add = 0 THEN LeftAt(Begins(p, 1, r.col))
  ELSE LeftAt(Begins(p, 4, MID))

\* The search stops at column 3, and a border found there counts as lost.
LeftAbove(p, l, r) ==
  IF l.add = 0
  THEN LeftAt(Begins(p, 4, IF l.col + range_line > imgCol - 1 THEN imgCol - 1
                           ELSE l.col + range_line))
  ELSE IF r.add = 0 THEN LeftAt(Begins(p, 1, r.col))
  ELSE LeftAt(Begins(p, 4, MID))

\* Beside column 0 the last pixel of the row above is read; at is it.
RightAbove(p, l, r, at) ==
  IF r.add = 0
  THEN RightAt(Ends(p, IF r.col - range_line <= 1 THEN 1 ELSE r.col - range_line,
                    imgCol - 2))
  ELSE IF l.add = 0
  THEN IF l.col = 0 /\ p[0] = "dark" /\ at = "bright" THEN [col |-> 0, add |-> 0]
       ELSE RightAt(Ends(p, IF l.col = 0 THEN 1 ELSE l.col, imgCol - 1))
  ELSE RightAt(Ends(p, MID, imgCol - 1))

\* The road has left the image, or both borders are lost in the dark (the darkest
\* shade there is, not just below the threshold), or it is too narrow (or its
\* borders are crossed).
Given(p, black, l, r) ==
  \/ l.col <= r.col /\ r.col <= RightZone
  \/ r.col >= l.col /\ l.col >= LeftZone
  \/ l.add = 1 /\ r.add = 1 /\ black /\ \A j \in Probes : p[j] = "dark"
  \/ l.col > r.col - MinWidth

\* The borders of row i.
Found(p, black, l, r) ==
  /\ leftBroder' = [leftBroder EXCEPT ![i] = l.col]
  /\ rightBroder' = [rightBroder EXCEPT ![i] = r.col]
  /\ left_add_flag' = l.add /\ right_add_flag' = r.add
  /\ Limit' = IF Given(p, black, l, r) THEN i ELSE 0
  /\ i' = i - 1

FirstRow(p, black) ==
  /\ i = imgRow - 1
  /\ LET b == IF p[MID] = "dark" THEN DarkMiddle(p) ELSE WhiteMiddle(p)
     IN Found(p, black, b.L, b.R)

LastLeft == [col |-> leftBroder[i + 1], add |-> left_add_flag]
LastRight == [col |-> rightBroder[i + 1], add |-> right_add_flag]

RowAbove(p, black, at) ==
  /\ i \in 0 .. imgRow - 2 /\ Limit = 0
  /\ Found(p, black, LeftAbove(p, LastLeft, LastRight),
                     RightAbove(p, LastLeft, LastRight, at))

\* Variant: the row with the limit keeps its borders.
GiveUp_Above ==
  /\ i >= 0 /\ Limit # 0
  /\ leftBroder' = [r \in Rows |-> IF r < Limit THEN 0 ELSE leftBroder[r]]
  /\ rightBroder' = [r \in Rows |-> IF r < Limit THEN imgCol - 1 ELSE rightBroder[r]]
  /\ i' = -1
  /\ UNCHANGED <<left_add_flag, right_add_flag, Limit>>

\* From the limit on everything is lost.
GiveUp ==
  /\ i >= 0 /\ Limit # 0
  /\ leftBroder' = [r \in Rows |-> IF r <= Limit THEN 0 ELSE leftBroder[r]]
  /\ rightBroder' = [r \in Rows |-> IF r <= Limit THEN imgCol - 1 ELSE rightBroder[r]]
  /\ i' = -1
  /\ UNCHANGED <<left_add_flag, right_add_flag, Limit>>

Done == i = -1 /\ UNCHANGED vars

Next ==
  \/ \E p \in Pixels, black \in BOOLEAN :
       FirstRow(p, black) \/ \E at \in Shades : RowAbove(p, black, at)
  \/ GiveUp
  \/ Done

Spec == Init /\ [][Next]_vars
-----------------------------------------------------------------------------
\* In the result no row but the last one (row 0, where no next round of the loop
\* follows) has borders that are crossed or nearer than the minimal width: such a
\* row is given up together with all rows beyond it.
NoCrossedRow ==
  i = -1 => \A r \in Rows \ {0} : leftBroder[r] <= rightBroder[r] - MinWidth

\* Road(a, b): columns a to b are the road, and all others are dark.
Road(a, b) == [j \in Cols |-> IF j \in a .. b THEN "bright" ELSE "dark"]

\* A road that was found in the row below and is the only bright part of the
\* next row is found there as well, with exactly its borders, if these have not
\* moved by more than the range and are not within the margins of the image.
\* (Of rows with other bright parts beside the road nothing is said.)
RoadFollowed ==
  i \in 0 .. imgRow - 2 /\ Limit = 0 /\ left_add_flag = 0 /\ right_add_flag = 0 =>
    \A a, b \in Cols :
      (/\ 3 < a /\ a <= b /\ b + 1 < imgCol - 1
       /\ a <= LastLeft.col + range_line /\ b + 1 >= LastRight.col - range_line)
        => /\ LeftAbove(Road(a, b), LastLeft, LastRight) = [col |-> a - 1, add |-> 0]
           /\ RightAbove(Road(a, b), LastLeft, LastRight, "dark") = [col |-> b + 1, add |-> 0]

\* Camera_FindMyLine returns columns of the image, and crossed ones nowhere but in
\* row 0.
BordersUsable == TypeOK /\ NoCrossedRow
=============================================================================
