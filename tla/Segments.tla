------------------------------ MODULE Segments ------------------------------
(***************************************************************************)
(* Vision_GetSegment: one border of the road is cut, from the nearest row  *)
(* upwards, into stretches where the line is seen and stretches where it   *)
(* is lost, and the lines are judged straight or bent.                     *)
(*                                                                         *)
(* A border gives for every row the distance of the line from the edge of  *)
(* the image on its own side, so that one module serves the left and the   *)
(* right one: LEFT_LOSE_VALUE and RIGHT_LOSE_VALUE are both distance zero. *)
(***************************************************************************)
EXTENDS Integers, Sequences, FiniteSets

CONSTANTS
  imgRow,          \* number of rows; row 0 is the farthest
  Distances,       \* the distances a border may have
  GivenBorders,    \* the borders the line scan may hand over
  Short            \* a first segment this short is merged into the second

ASSUME SegmentAssumption ==
  /\ imgRow \in Nat /\ Short \in Nat /\ imgRow > Short + 1 /\ imgRow >= 4
  /\ Distances \subseteq 0 .. 187

VARIABLES
  LorR,            \* which border
  broder,          \* row -> distance
  segs,            \* target_segment[0 .. segment_n]
  begin_flag,
  i,               \* the loop variable
  pc,
  breaks           \* history: how often the given border changes between seen and lost

vars == <<LorR, broder, segs, begin_flag, i, pc, breaks>>

Rows == 0 .. imgRow - 1

ASSUME GivenAssumption == GivenBorders \subseteq [Rows -> Distances]

\* All borders there are (a value for GivenBorders).
EveryBorder == [Rows -> Distances]

Lost(d) == d <= 5
\* Where a segment begins, the left border must be nearer to its edge.
StartsLost(d) == d <= IF LorR = "L" THEN 3 ELSE 5
OffTheFarEdge(d) == d >= 182

Types == {"null", "lose", "straight", "arc", "corner"}
IsLine(s) == s.type # "lose"

TypeOK ==
  /\ LorR \in {"L", "R"}
  /\ broder \in [Rows -> 0 .. 187]
  /\ segs \in Seq([begin : Rows, end : 0 .. imgRow, type : Types])
  /\ begin_flag \in {0, 1}
  /\ i \in Rows
  /\ pc \in {"scan", "merge", "judge", "done"}
  /\ breaks \in Nat

\* The rows up to row r that begin a stretch of rows seen or of rows lost.
Changes(b, r) == {q \in 1 .. r : Lost(b[q]) # Lost(b[q - 1])}

Init ==
  /\ LorR \in {"L", "R"}
  /\ broder \in GivenBorders
  /\ segs = <<>>
  /\ begin_flag = 1
  /\ i = imgRow - 1
  /\ pc = "scan"
  /\ breaks = Cardinality(Changes(broder, imgRow - 1))
-----------------------------------------------------------------------------
LoseRows(b, rows) == [r \in Rows |-> IF r \in rows THEN 0 ELSE b[r]]

\* The beginning of a segment at row i: two lost rows make a lost segment, and
\* are marked together with the next one.
Begins ==
  LET lost == i >= 2 /\ StartsLost(broder[i]) /\ StartsLost(broder[i - 1])
  IN IF begin_flag = 0 THEN [s |-> segs, b |-> broder]
     ELSE [s |-> Append(segs, [begin |-> IF i = imgRow - 1 THEN i ELSE i + 1,
                               end |-> 0, type |-> IF lost THEN "lose" ELSE "null"]),
           b |-> IF lost THEN LoseRows(broder, {i, i - 1, i - 2}) ELSE broder]

\* The row below row i; of the first row there is none, and what is read is
\* whatever follows the array.
Below(b, beyond) == IF i = imgRow - 1 THEN beyond ELSE b[i + 1]

\* Variant: one row that is seen ends a lost segment.
EndsLost_One(b) == i >= 3 /\ ~Lost(b[i])

\* A lost segment ends before four rows that are seen.
EndsLost(b) == i >= 3 /\ \A k \in 0 .. 3 : ~Lost(b[i - k])

\* A line ends before three rows that are lost.
EndsLine(b) == i >= 2 /\ \A k \in 0 .. 2 : Lost(b[i - k])

Closed(s) == [s EXCEPT ![Len(s)].end = i + 1]

\* Variant: the rows of a lost segment keep their values.
InLost_NotMarked(s, b) ==
  /\ s[Len(s)].type = "lose"
  /\ segs' = IF EndsLost(b) THEN Closed(s) ELSE s
  /\ begin_flag' = IF EndsLost(b) THEN 1 ELSE 0
  /\ broder' = b

\* The rows of a lost segment are marked, the last ones not.
InLost(s, b) ==
  /\ s[Len(s)].type = "lose"
  /\ segs' = IF EndsLost(b) THEN Closed(s) ELSE s
  /\ begin_flag' = IF EndsLost(b) THEN 1 ELSE 0
  /\ broder' = IF i < 3 \/ EndsLost(b) THEN b ELSE LoseRows(b, {i})

\* Variant: the rows that end a line are not marked.
InLine_NotMarked(s, b, beyond) ==
  /\ s[Len(s)].type = "null"
  /\ segs' = IF EndsLine(b) THEN Closed(s) ELSE s
  /\ begin_flag' = IF EndsLine(b) THEN 1 ELSE 0
  /\ broder' = IF i < 2 \/ EndsLine(b) \/ ~(Lost(b[i]) \/ OffTheFarEdge(b[i])) THEN b
               ELSE [b EXCEPT ![i] = Below(b, beyond)]

\* A single row off the image takes the value of the row below.
InLine(s, b, beyond) ==
  /\ s[Len(s)].type = "null"
  /\ segs' = IF EndsLine(b) THEN Closed(s) ELSE s
  /\ begin_flag' = IF EndsLine(b) THEN 1 ELSE 0
  /\ broder' = IF i < 2 THEN b
               ELSE IF EndsLine(b) THEN LoseRows(b, {i, i - 1, i - 2})
               ELSE IF Lost(b[i]) \/ OffTheFarEdge(b[i])
                    THEN [b EXCEPT ![i] = Below(b, beyond)]
               ELSE b

Scan ==
  /\ pc = "scan"
  /\ LET c == Begins
     IN InLost(c.s, c.b) \/ \E beyond \in Distances : InLine(c.s, c.b, beyond)
  /\ i' = i - 1
  /\ pc' = IF i = 1 THEN "merge" ELSE "scan"
  /\ UNCHANGED <<LorR, breaks>>

\* Variant: the first segment keeps its end.
Merged_KeepsEnd(s) ==
  <<[s[1] EXCEPT !.type = s[2].type]>> \o SubSeq(s, 3, Len(s))

\* The first two segments as one.
Merged(s) ==
  <<[begin |-> s[1].begin, end |-> s[2].end, type |-> s[2].type]>> \o SubSeq(s, 3, Len(s))

\* Too short a first segment takes the value at the far end of the second.
Merge ==
  /\ pc = "merge"
  /\ IF segs[1].begin - segs[1].end <= Short
     THEN /\ segs' = Merged(segs)
          /\ broder' = [r \in Rows |-> IF r \in segs[1].end .. segs[1].begin
                                       THEN broder[segs[2].end] ELSE broder[r]]
     ELSE UNCHANGED <<segs, broder>>
  /\ pc' = "judge"
  /\ UNCHANGED <<LorR, begin_flag, i, breaks>>

\* Line_IsStraight: the rows are compared with the straight line through the two
\* ends, but counted from row 0 instead of the far end of the segment.
Line_IsStraight(x1, x2) ==
  LET n == x1 - x2
      Ideal(k) == (broder[x2] * n + (broder[x1] - broder[x2]) * k) \div n
  IN \A k \in 0 .. n - 1 : broder[k] - Ideal(k) \in -5 .. 5

\* Line_IsMonotonous adds to a variable that is never set, so either answer is
\* possible.
Line_IsMonotonous == {"corner", "arc"}

\* Lines that are not straight are corners or arcs.
Judge ==
  /\ pc = "judge"
  /\ \E bend \in [1 .. Len(segs) -> Line_IsMonotonous] :
       segs' = [k \in 1 .. Len(segs) |->
                  IF segs[k].type # "null" THEN segs[k]
                  ELSE [segs[k] EXCEPT !.type =
                          IF Line_IsStraight(segs[k].begin, segs[k].end)
                          THEN "straight" ELSE bend[k]]]
  /\ pc' = "done"
  /\ UNCHANGED <<LorR, broder, begin_flag, i, breaks>>

Done == pc = "done" /\ UNCHANGED vars

Next == Scan \/ Merge \/ Judge \/ Done

Spec == Init /\ [][Next]_vars
-----------------------------------------------------------------------------
Finished == pc = "done"

\* The segments are a partition of the rows, nearest first: no row is lost
\* between two segments or is in both, through cutting and merging.
SegmentsCover ==
  Finished =>
    /\ segs[1].begin = imgRow - 1
    /\ \A k \in 1 .. Len(segs) - 1 :
         segs[k + 1].begin = segs[k].end - 1 /\ segs[k].end <= segs[k].begin
    /\ segs[Len(segs)].end = 0

\* Lost segments and lines alternate, except that a line which loses exactly the
\* last three rows is followed by another line: there are not enough rows left
\* to begin a lost segment.
AlternateButLast ==
  \A k \in 1 .. Len(segs) - 1 :
    \/ IsLine(segs[k]) # IsLine(segs[k + 1])
    \/ IsLine(segs[k]) /\ k + 1 = Len(segs) /\ segs[k + 1].begin = 2

\* After the first segment every row says the same as its segment, from when it was
\* scanned: the rows of a lost one have the value that stands for a lost line, and
\* the rows of a line are off the edge (but for the rows nearest to the end of the loop).
RowsAgree ==
  \A k \in 2 .. Len(segs) : \A r \in segs[k].end .. segs[k].begin :
    r >= 3 /\ (pc = "scan" => r > i) =>
      /\ ~IsLine(segs[k]) => broder[r] = 0
      /\ IsLine(segs[k]) => ~Lost(broder[r])

\* How many entries of my_segment_L or my_segment_R are written: at most two more
\* than the border changes between seen and lost, whatever the cutting rewrites, and
\* no more than fit on the rows if all but the first and the last have four.  The
\* array has ten entries (my_vision.h line 62) and the code does not look at the
\* bound: it is kept for a border that changes at most eight times, and on the 70
\* rows of the camera's image eighteen segments are possible.
SegmentsFit ==
  /\ Len(segs) <= breaks + 2
  /\ 4 * (Len(segs) - 1) <= imgRow + 1

\* user_math.c line 37: a line is not straight only if one of its rows is off the
\* straight line through its ends.
BentIsOffTheLine ==
  Finished =>
    \A k \in 1 .. Len(segs) : segs[k].type \in {"corner", "arc"} =>
      LET x1 == segs[k].begin
          x2 == segs[k].end
      IN \E r \in x2 .. x1 :
           broder[r] * (x1 - x2) # broder[x2] * (x1 - r) + broder[x1] * (r - x2)
=============================================================================
