---------------------------- MODULE CornerPoints ----------------------------
(***************************************************************************)
(* Vision_BroderFindFP, which runs on a border after Vision_GetSegment and *)
(* places up to two corner points on it: where the line breaks off before  *)
(* a long gap and where it goes on behind it, where it begins if the near  *)
(* rows are lost, or on a lone arc.                                        *)
(***************************************************************************)
EXTENDS Segments, BorderShape

CONSTANTS
  Long,            \* Vision_IsLone: a gap with at least this many rows more than one
  Reach,           \* how many rows of a far line are searched for a corner
  ArcRow           \* a lone arc is searched down to this row

ASSUME CornerAssumption ==
  Long \in Nat /\ Reach \in Nat \ {0} /\ ArcRow \in 0 .. imgRow - 2

VARIABLES
  fp,              \* the feature points that FP_n counts
  found            \* the search is over

cornerVars == <<vars, fp, found>>

FPTypeOK ==
  /\ TypeOK
  /\ fp \in Seq([x : Rows, y : 0 .. 187]) /\ Len(fp) <= 2
  /\ found \in BOOLEAN

CornerInit == Init /\ fp = <<>> /\ found = FALSE

Segment == Scan \/ Merge \/ Judge

Vision_IsLone(s) == s.begin - s.end >= Long

NoPoint == [x |-> -1, y |-> -1]

\* The border after a search between two rows: rows with a value that stands for
\* a lost line take the value of the row above.
Filtered(b, high, low) ==
  [r \in Rows |-> IF r \in low + 2 .. high - 2 /\ b[r] \in {0, 187} THEN b[r - 1] ELSE b[r]]

\* Variant: the value is taken before the rows are filtered.
Vision_FindArcFP_Stale(b, high, low) ==
  {NoPoint} \cup {[x |-> r, y |-> b[r]] : r \in {high - 1} \cup (low + 2 .. high - 2)}

\* The sharpest row between two rows, if it is sharp enough.  Which one it is
\* depends on the pixels and on the rounding of the cosines: it may be any row of
\* the range but the outermost ones.
Vision_FindArcFP(b, high, low) ==
  {NoPoint} \cup {[x |-> r, y |-> Filtered(b, high, low)[r]] :
                    r \in {high - 1} \cup (low + 2 .. high - 2)}

OrElse(p, b, row) == IF p = NoPoint THEN [x |-> row, y |-> b[row]] ELSE p

\* The rows of a far line that are searched.
Low(s) == IF s.begin - s.end >= Reach THEN s.begin - Reach ELSE s.end

\* Variant: the last row of the gap is taken for the first one of the line.
FarPoint_RowBelow(b, s, before) ==
  \E p \in Vision_FindArcFP(b, s.begin, Low(s)) :
    /\ broder' = Filtered(b, s.begin, Low(s))
    /\ fp' = Append(before, OrElse(p, b, s.begin + 1))

\* The point where a far line begins, or the corner near to it.
FarPoint(b, s, before) ==
  \E p \in Vision_FindArcFP(b, s.begin, Low(s)) :
    /\ broder' = Filtered(b, s.begin, Low(s))
    /\ fp' = Append(before, OrElse(p, b, s.begin))

\* Variant: short gaps count as well.
IsGap_Short == Len(segs) >= 2 /\ segs[2].type = "lose"

IsGap == Len(segs) >= 2 /\ segs[2].type = "lose" /\ Vision_IsLone(segs[2])

\* Variant: a point is kept although the lines belong to different borders.
FindAtGap_Keeps ==
  LET near == segs[1]
      b == Filtered(broder, near.begin, near.end)
  IN /\ IsGap
     /\ \E p \in Vision_FindArcFP(broder, near.begin, near.end) :
          LET first == <<OrElse(p, b, near.end)>>
          IN \/ fp' = first /\ broder' = b
             \/ Len(segs) > 2 /\ FarPoint(b, segs[3], first)

\* A long gap behind the near line.  If the lines before and behind it are too far
\* apart there is no point after all; Line_GetAverage adds to a variable that is
\* never set, so this may happen on any border.
FindAtGap ==
  LET near == segs[1]
      b == Filtered(broder, near.begin, near.end)
  IN /\ IsGap
     /\ \E p \in Vision_FindArcFP(broder, near.begin, near.end) :
          LET first == <<OrElse(p, b, near.end)>>
          IN \/ Len(segs) = 2 /\ fp' = first /\ broder' = b
             \/ Len(segs) > 2 /\ fp' = <<>> /\ broder' = b
             \/ Len(segs) > 2 /\ FarPoint(b, segs[3], first)

\* The near rows are lost.
FindBehindLost ==
  /\ ~IsGap /\ segs[1].type = "lose"
  /\ IF Len(segs) >= 2 THEN FarPoint(broder, segs[2], <<>>) ELSE UNCHANGED <<broder, fp>>

\* A border that is one arc.
FindOnArc ==
  /\ ~IsGap /\ segs[1].type = "arc" /\ Len(segs) = 1
  /\ broder' = Filtered(broder, segs[1].begin, ArcRow)
  /\ \E p \in Vision_FindArcFP(broder, segs[1].begin, ArcRow) :
       fp' = IF p = NoPoint THEN <<>> ELSE <<p>>

FindNothing ==
  /\ ~IsGap /\ segs[1].type # "lose" /\ ~(segs[1].type = "arc" /\ Len(segs) = 1)
  /\ UNCHANGED <<broder, fp>>

Vision_BroderFindFP ==
  /\ pc = "done" /\ ~found
  /\ FindAtGap \/ FindBehindLost \/ FindOnArc \/ FindNothing
  /\ found' = TRUE
  /\ UNCHANGED <<LorR, segs, begin_flag, i, pc, breaks>>

CornerNext ==
  \/ Segment /\ UNCHANGED <<fp, found>>
  \/ Vision_BroderFindFP
  \/ found /\ UNCHANGED cornerVars

CornerSpec == CornerInit /\ [][CornerNext]_cornerVars
-----------------------------------------------------------------------------
Kinds == [k \in 1 .. Len(segs) |-> segs[k].type]

\* Whatever the border, what Vision_GetSegment and Vision_BroderFindFP report of it
\* is one of the shapes that the road elements are modelled for: the inputs of
\* RoadSymbol leave out nothing the code can produce.
ShapeKnown == found => [seg |-> Shape(Kinds), fp |-> Len(fp)] \in Features

\* A counted point lies on the border as it is handed to the handlers, on a row of
\* the line it belongs to, although the search goes on rewriting rows.
PointsOnTheLine ==
  \A k \in 1 .. Len(fp) :
    /\ fp[k].y = broder[fp[k].x]
    /\ \E s \in 1 .. Len(segs) :
         IsLine(segs[s]) /\ fp[k].x \in segs[s].end .. segs[s].begin

\* Two points have one whole long gap between them, so that a border redrawn
\* from one to the other closes it.
PointsAcrossTheGap ==
  Len(fp) = 2 =>
    \E s \in 1 .. Len(segs) :
      /\ ~IsLine(segs[s]) /\ Vision_IsLone(segs[s])
      /\ fp[1].x > segs[s].begin /\ segs[s].end > fp[2].x

\* A point behind a gap is not on a row that was lost (on the near line it may be:
\* the first rows are part of the line even where they were not seen).
PointsSeen ==
  \A k \in 1 .. Len(fp) : fp[k].x >= 3 /\ fp[k].x < segs[1].end => ~Lost(fp[k].y)

\* The segments of a border (Vision_GetSegment) are what the code that reads them
\* takes for granted: they cover all rows from the near end to the far one, lost
\* ones and lines alternate, and there are no more of them than the changes of the
\* border and its rows allow - ten at most, as many as the array holds, for a border
\* that changes at most eight times between seen and lost.
Segmented == FPTypeOK /\ SegmentsCover /\ AlternateButLast /\ SegmentsFit

\* The corner points of Vision_BroderFindFP can be drawn through: they lie on
\* their lines, on rows that were seen, and two of them span a long gap.
PointsPlaced == PointsOnTheLine /\ PointsAcrossTheGap /\ PointsSeen
=============================================================================
