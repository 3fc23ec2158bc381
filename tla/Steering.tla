------------------------------ MODULE Steering ------------------------------
(***************************************************************************)
(* From the two borders of a frame to the offset the car steers by: the    *)
(* handlers of the road elements redraw borders, Vision_Handle takes the   *)
(* middle of every row, and trace_line_method weighs the middles.          *)
(*                                                                         *)
(* A border is a column for every row, what Vision_GetSegment says of it,  *)
(* and the row of its first feature point (zero if there is none, as the   *)
(* code clears the points).  Slopes are quotients of integers, and columns *)
(* are truncated from them as the code truncates its floats.               *)
(***************************************************************************)
EXTENDS BorderShape, FiniteSets, Folds

CONSTANTS
  imgRow, imgCol,
  row_begin,       \* rows beyond this one do not count for the steering
  LeftColumns,     \* columns at which the left border may be
  PointRows        \* rows at which a border may break or bend

ASSUME SteeringAssumption ==
  /\ imgRow \in Nat /\ imgCol \in Nat /\ imgRow > 12
  /\ imgCol > 187  \* the lines across the road begin or end in column 187
  /\ row_begin \in 1 .. imgRow - 1
  /\ LeftColumns \subseteq 1 .. imgCol \div 2 - 1
  /\ PointRows \subseteq 7 .. imgRow - 2

VARIABLES
  road,            \* Current_Road; of a roundabout the state and the side
  l, r,            \* the borders: [b, seg, fp, x]
  mid,             \* MID_Table
  sum,             \* TraceLine_Aver_Offset before the division, times imgRow^2
  valid_line,
  pc

steeringVars == <<road, l, r, mid, sum, valid_line, pc>>

Rows == 0 .. imgRow - 1
Near == imgRow - 1
Quot(n, d) == IF n >= 0 THEN n \div d ELSE -((-n) \div d)

LEFT_LOSE_VALUE == 0
RIGHT_LOSE_VALUE == imgCol - 1

Roads == {<<"Normal">>, <<"Cross">>, <<"Corner">>}
           \cup ({"State1", "State2", "State3", "Cor", "out"} \X {"L", "R"})

SteeringTypeOK ==
  /\ road \in Roads
  /\ \A border \in {l, r} :
       /\ border.b \in [Rows -> (-imgCol) .. 2 * imgCol]
       /\ [seg |-> border.seg, fp |-> border.fp] \in Features
       /\ border.x \in Rows
  /\ mid \in [Rows -> (-imgCol) .. 2 * imgCol]
  /\ sum \in Int /\ valid_line \in 0 .. imgRow
  /\ pc \in {"judged", "redrawn", "middle", "steered"}
-----------------------------------------------------------------------------
(* The frames.                                                              *)

\* The straight line that is at column p in row i and at column q in row k < i.
Between(p, i, q, k, row) == p + ((i - row) * (q - p)) \div (i - k)

Straight(p, q) ==
  [b |-> [row \in Rows |-> Between(p, Near, q, 0, row)], seg |-> <<"straight">>,
   fp |-> 0, x |-> 0]

\* A line that breaks off above row x and is lost from there on.
Broken(p, q, x, lost) ==
  [b |-> [row \in Rows |-> IF row >= x THEN Between(p, Near, q, 0, row) ELSE lost],
   seg |-> <<"straight", "lose">>, fp |-> 1, x |-> x]

\* The same with a bent line.
BrokenArc(p, q, x, lost) ==
  [Broken(p, q, x, lost) EXCEPT !.seg = <<"arc", "lose">>]

\* A line that begins at row x.
Late(p, q, x, lost) ==
  [b |-> [row \in Rows |-> IF row <= x THEN Between(p, Near, q, 0, row) ELSE lost],
   seg |-> <<"lose", "straight">>, fp |-> 1, x |-> x]

\* A line that is bent at row x and has its corner point there, or none.
Bent(p, m, q, x, n) ==
  [b |-> [row \in Rows |-> IF row >= x THEN Between(p, Near, m, x, row)
                           ELSE Between(m, x, q, 0, row)],
   seg |-> <<"arc">>, fp |-> n, x |-> IF n = 0 THEN 0 ELSE x]

Gone(lost) == [b |-> [row \in Rows |-> lost], seg |-> <<"lose">>, fp |-> 0, x |-> 0]

BordersAt(columns, lost) ==
  {Gone(lost)}
    \cup {Straight(p, q) : p \in columns, q \in columns}
    \cup {Broken(p, q, x, lost) : p \in columns, q \in columns, x \in PointRows}
    \cup {BrokenArc(p, q, x, lost) : p \in columns, q \in columns, x \in PointRows}
    \cup {Late(p, q, x, lost) : p \in columns, q \in columns, x \in PointRows}
    \cup {Bent(p, m, q, x, n) : p \in columns, m \in columns, q \in columns,
                                x \in PointRows, n \in ArcPoints}

RightColumns == {imgCol - 1 - p : p \in LeftColumns}

SteeringInit ==
  /\ road \in Roads
  /\ l \in BordersAt(LeftColumns, LEFT_LOSE_VALUE)
  /\ r \in BordersAt(RightColumns, RIGHT_LOSE_VALUE)
  /\ mid = [row \in Rows |-> 80]
  /\ sum = 0 /\ valid_line = 0
  /\ pc = "judged"
-----------------------------------------------------------------------------
(* Redrawing.                                                               *)

\* Variant: a border is kept from leaving the image on the left only.
InImage_LeftOnly(column) == IF column < 0 THEN 0 ELSE column

InImage(column) ==
  IF column < 0 THEN 0 ELSE IF column > imgCol - 1 THEN imgCol - 1 ELSE column

\* Vision_ExtendLine to the far end: the slope of the five rows below row x.  Row 0
\* is not reached.
ExtendFar(b, x) ==
  LET k == IF x + 5 <= Near THEN 5 ELSE Near - x
  IN [row \in Rows |->
        IF row \in 1 .. x - 1
        THEN InImage(Quot(b[x] * k - (b[x + k] - b[x]) * (x - row), k)) ELSE b[row]]

\* To the near end: the slope of the five rows above row x.  The last row is not
\* reached.
ExtendNear(b, x) ==
  LET k == IF x - 5 >= 0 THEN 5 ELSE x
  IN [row \in Rows |->
        IF row \in x .. Near - 1
        THEN InImage(Quot(b[x] * k + (b[x] - b[x - k]) * (row - x), k)) ELSE b[row]]

\* Vision_set_AdditionalLine over all rows, between two given columns.
AdditionalLine(far, near) ==
  [row \in Rows |-> Quot(row * (near - far) + Near * far, Near)]

\* Vision_SetLose(0, imgRow - 1), which leaves the last row alone.
SetLose(b, lost) == [row \in Rows |-> IF row < Near THEN lost ELSE b[row]]

\* Variant: the line has the slope of the other border itself.
SetLineWithPointK_Parallel(b, x, other) ==
  [row \in Rows |-> Quot(b[x] * Near + (row - x) * (other[Near] - other[0]), Near)]

\* Vision_SetLineWithPointK through row x, with the negative slope of the other
\* border.
SetLineWithPointK(b, x, other) ==
  [row \in Rows |-> Quot(b[x] * Near - (row - x) * (other[Near] - other[0]), Near)]

Seg(border, i) == IF i < Len(border.seg) THEN border.seg[i + 1] ELSE "null"

CrossCon4 ==
  /\ l.fp > 0
  /\ \/ Seg(r, 0) = "lose" /\ Seg(r, 1) # "null" /\ Len(l.seg) <= 2 /\ Seg(l, 0) = "arc"
     \/ Seg(l, 0) = "lose" /\ Seg(l, 1) # "null" /\ Len(r.seg) <= 2 /\ Seg(r, 0) = "arc"

\* Variant: only the arc is extended.
CrossRedraw_ArcOnly ==
  /\ road = <<"Cross">>
  /\ IF CrossCon4 /\ l.seg = <<"arc">>
     THEN l' = [l EXCEPT !.b = ExtendFar(@, l.x)] /\ UNCHANGED r
     ELSE IF CrossCon4 /\ r.seg = <<"arc">>
     THEN r' = [r EXCEPT !.b = ExtendFar(@, r.x)] /\ UNCHANGED l
     ELSE UNCHANGED <<l, r>>

\* A crossing that is met at an angle: the arc is extended to the far end, the
\* line on the other side to the near end.
CrossRedraw ==
  /\ road = <<"Cross">>
  /\ IF CrossCon4 /\ l.seg = <<"arc">>
     THEN l' = [l EXCEPT !.b = ExtendFar(@, l.x)] /\ r' = [r EXCEPT !.b = ExtendNear(@, r.x)]
     ELSE IF CrossCon4 /\ r.seg = <<"arc">>
     THEN l' = [l EXCEPT !.b = ExtendNear(@, l.x)] /\ r' = [r EXCEPT !.b = ExtendFar(@, r.x)]
     ELSE UNCHANGED <<l, r>>

\* Vision_CornerHandle: CornerState3 marks lost rows as lost once more.
CornerRedraw == road = <<"Corner">> /\ UNCHANGED <<l, r>>

\* In the first state of a roundabout the border on its side is drawn through the
\* corner point, as the mirror image of the other one.
RingBegins ==
  \/ /\ road = <<"State1", "L">>
     /\ l' = IF l.fp > 0 /\ Seg(l, 0) # "lose"
             THEN [l EXCEPT !.b = SetLineWithPointK(@, l.x, r.b)] ELSE l
     /\ UNCHANGED r
  \/ /\ road = <<"State1", "R">>
     /\ r' = IF r.fp > 0 /\ Seg(r, 0) # "lose"
             THEN [r EXCEPT !.b = SetLineWithPointK(@, r.x, l.b)] ELSE r
     /\ UNCHANGED l

\* Variant: the two borders are mixed up.
RingAcross_OwnSide(state, leftNear, rightFar, rightNear) ==
  \/ /\ road = <<state, "L">>
     /\ l' = [l EXCEPT !.b = AdditionalLine(0, leftNear)]
     /\ r' = [r EXCEPT !.b = SetLose(@, RIGHT_LOSE_VALUE)]
  \/ /\ road = <<state, "R">>
     /\ r' = [r EXCEPT !.b = AdditionalLine(rightFar, rightNear)]
     /\ l' = [l EXCEPT !.b = SetLose(@, LEFT_LOSE_VALUE)]

\* On the way in and out a line across the road takes the place of the border on
\* the other side, and the border on its own side is lost.
RingAcross(state, leftNear, rightFar, rightNear) ==
  \/ /\ road = <<state, "L">>
     /\ r' = [r EXCEPT !.b = AdditionalLine(0, leftNear)]
     /\ l' = [l EXCEPT !.b = SetLose(@, LEFT_LOSE_VALUE)]
  \/ /\ road = <<state, "R">>
     /\ l' = [l EXCEPT !.b = AdditionalLine(rightFar, rightNear)]
     /\ r' = [r EXCEPT !.b = SetLose(@, RIGHT_LOSE_VALUE)]

RingRedraw ==
  \/ RingBegins
  \/ RingAcross("State3", 187, 187, 10)
  \/ RingAcross("out", 180, 186, 20)
  \/ Head(road) \in {"State2", "Cor"} /\ UNCHANGED <<l, r>>

Vision_RSHandle ==
  /\ pc = "judged" /\ pc' = "redrawn"
  /\ \/ CrossRedraw \/ CornerRedraw \/ RingRedraw
     \/ road = <<"Normal">> /\ UNCHANGED <<l, r>>
  /\ UNCHANGED <<road, mid, sum, valid_line>>
-----------------------------------------------------------------------------
Middle ==
  /\ pc = "redrawn" /\ pc' = "middle"
  /\ mid' = [row \in Rows |-> Quot(r.b[row] + l.b[row], 2)]
  /\ UNCHANGED <<road, l, r, sum, valid_line>>

\* A row lost on both sides does not count.
Valid == {row \in row_begin .. Near :
            l.b[row] # LEFT_LOSE_VALUE \/ r.b[row] # RIGHT_LOSE_VALUE}

\* The weight of a row, times imgRow^2: the nearest row has 1.
Weight(row) == imgRow * imgRow - (imgRow - row - 1) * (imgRow - row - 1)

trace_line_method ==
  /\ pc = "middle" /\ pc' = "steered"
  /\ sum' = MapThenFoldSet(+, 0, LAMBDA row : (imgCol \div 2 - mid[row]) * Weight(row),
                           LAMBDA S : CHOOSE row \in S : TRUE, Valid)
  /\ valid_line' = Cardinality(Valid)
  /\ UNCHANGED <<road, l, r, mid>>

SteeringDone == pc = "steered" /\ UNCHANGED steeringVars

SteeringNext == Vision_RSHandle \/ Middle \/ trace_line_method \/ SteeringDone

SteeringSpec == SteeringInit /\ [][SteeringNext]_steeringVars
-----------------------------------------------------------------------------
OffsetKnown == pc = "steered"

\* On the way into a roundabout and out of it the car steers to the side on which
\* the roundabout is, whatever the camera saw, by at least an eighth of the
\* image's half on average.
RingSteersIn ==
  OffsetKnown /\ road \in {"State3", "out"} \X {"L", "R"} =>
    LET side == IF road[2] = "L" THEN sum ELSE -sum
    IN valid_line > 0 /\ 8 * side > valid_line * imgRow * imgRow * (imgCol \div 2)

\* While the car passes the mouth of a roundabout with a straight border on the
\* other side, it keeps its course: the middles of all rows are in one column.
CourseKept ==
  OffsetKnown /\ road[1] = "State1" =>
    LET near == IF road[2] = "L" THEN l ELSE r
        far == IF road[2] = "L" THEN r ELSE l
    IN far.seg = <<"straight">> /\ near.fp > 0 /\ Seg(near, 0) # "lose" =>
         \A i, k \in Rows : mid[i] - mid[k] \in -1 .. 1

\* But for the first state of a roundabout, redrawing leaves both borders inside
\* the image, so that the mean offset is never more than half an image.
SteersWithinImage ==
  OffsetKnown /\ road[1] # "State1" =>
    /\ \A row \in Rows : l.b[row] \in 0 .. imgCol - 1 /\ r.b[row] \in 0 .. imgCol - 1
    /\ sum <= valid_line * imgRow * imgRow * (imgCol \div 2)
    /\ -sum <= valid_line * imgRow * imgRow * (imgCol \div 2)

\* The difference of a row and the row below.
Jump(b, row) == IF b[row + 1] > b[row] THEN b[row + 1] - b[row] ELSE b[row] - b[row + 1]

\* A crossing met at an angle is closed: between the outermost rows a redrawn
\* border nowhere jumps by more than the line it continues does, although it
\* takes the place of lost rows on one side and of a bend on the other.
CrossClosed ==
  OffsetKnown /\ road = <<"Cross">> /\ CrossCon4 /\ <<"arc">> \in {l.seg, r.seg} =>
    \A border \in {l, r} :
      /\ border.seg = <<"arc">> /\ border.fp > 0 =>
           \A row \in 1 .. border.x - 1 : \E k \in border.x .. Near - 1 :
             Jump(border.b, row) <= Jump(border.b, k)
      /\ border.seg[1] = "lose" =>
           \A row \in border.x .. Near - 2 : \E k \in 0 .. border.x - 1 :
             Jump(border.b, row) <= Jump(border.b, k)

\* trace_line_method steers by at most half the width of the image, and no border
\* it is computed from runs away beyond one more width on either side.
OffsetBounded == SteeringTypeOK /\ SteersWithinImage

\* A roundabout (CirState1, CirState3, CirOut) is steered as its side says: straight
\* past its mouth, then across the road into it and out of it again.
RingSteered == RingSteersIn /\ CourseKept
=============================================================================
