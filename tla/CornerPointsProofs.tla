------------------------- MODULE CornerPointsProofs -------------------------
(***************************************************************************)
(* Proofs about CornerPoints and the Segments it extends, for every image  *)
(* height, every set of border values and every length of a gap that       *)
(* satisfies SegmentAssumption and CornerAssumption.                       *)
(***************************************************************************)
EXTENDS CornerPoints, SequenceTheorems, FiniteSetTheorems, WellFoundedInduction, TLAPS

Segs == [begin : Rows, end : 0 .. imgRow, type : Types]
Broders == [Rows -> 0 .. 187]
-----------------------------------------------------------------------------
(* The inductive invariant.                                                *)

\* The nearest segment begins at the nearest row, and each one where the last ends.
Chained(sg) ==
  /\ sg[1].begin = imgRow - 1
  /\ \A k \in 1 .. Len(sg) - 1 : sg[k + 1].begin = sg[k].end - 1

\* A segment that is nearer is nearer with all its rows.
Ordered(sg) ==
  \A k \in 1 .. Len(sg) : \A m \in 1 .. Len(sg) : k < m => sg[m].begin < sg[k].end

\* Between the first segment and the last all have four rows.
Tall(sg) == \A k \in 2 .. Len(sg) - 1 : sg[k].begin - sg[k].end >= 3

Fits(sg) == \A k \in 2 .. Len(sg) : 4 * (k - 2) <= imgRow - 1 - sg[k].begin

Alternate(sg) ==
  \A k \in 1 .. Len(sg) - 1 :
    \/ IsLine(sg[k]) # IsLine(sg[k + 1])
    \/ IsLine(sg[k]) /\ k + 1 = Len(sg) /\ sg[k + 1].begin = 2

\* What a row says of its segment: one row more than RowsAgree asks for, which
\* is what a search for corners may copy.
RowAgrees(s, b, r) ==
  /\ ~IsLine(s) /\ r >= 3 => b[r] = 0
  /\ IsLine(s) /\ r >= 2 /\ s.begin # 2 => ~Lost(b[r])

\* ... of the rows that were scanned.
Agree(sg, b, low) ==
  \A k \in 2 .. Len(sg) : \A r \in sg[k].end .. sg[k].begin : r > low => RowAgrees(sg[k], b, r)

Cut(sg, b, low) ==
  /\ sg \in Seq(Segs) /\ sg # <<>> /\ b \in Broders
  /\ Chained(sg) /\ Ordered(sg) /\ Tall(sg) /\ Fits(sg) /\ Alternate(sg) /\ Agree(sg, b, low)

\* The first rows of a segment, which decide that it does not end before the fourth.
Begun(s, b) ==
  /\ ~IsLine(s) => s.begin >= 3 /\ \A r \in s.begin - 3 .. s.begin - 1 : b[r] = 0
  /\ IsLine(s) => \/ s.begin = 2
                  \/ s.begin >= 3 /\ \A r \in s.begin - 3 .. s.begin - 1 : ~Lost(b[r])

\* The segment nearest to row low, the next one to be scanned, is still open.
Open(sg, b, low) ==
  /\ Cut(sg, b, low)
  /\ sg[Len(sg)].end = 0
  /\ Len(sg) > 1 => sg[Len(sg)].begin > low /\ Begun(sg[Len(sg)], b)

\* The rows in front of the next segment are known: what ended the last one.
Ended(s, b, low) ==
  /\ ~IsLine(s) => low >= 2 /\ \A r \in low - 2 .. low + 1 : ~Lost(b[r])
  /\ IsLine(s) => low >= 1 /\ \A r \in low - 1 .. low + 1 : b[r] = 0

\* The last segment ended at the row before: the next row begins another one.
Closing(sg, b, low) ==
  /\ Cut(sg, b, low)
  /\ sg[Len(sg)].end = low + 2
  /\ Len(sg) > 1 => sg[Len(sg)].begin - sg[Len(sg)].end >= 3
  /\ Ended(sg[Len(sg)], b, low)

Unjudged(sg) == \A k \in 1 .. Len(sg) : sg[k].type \in {"lose", "null"}
Judged(sg) == \A k \in 1 .. Len(sg) : sg[k].type # "null"

Scanning ==
  pc = "scan" =>
    /\ i >= 1 /\ Unjudged(segs)
    /\ segs = <<>> => begin_flag = 1 /\ i = imgRow - 1
    /\ segs # <<>> => i < imgRow - 1
    /\ segs # <<>> /\ begin_flag = 0 => Open(segs, broder, i)
    /\ segs # <<>> /\ begin_flag = 1 => Closing(segs, broder, i)

\* The whole border is cut, and what it says above row low is known.
Parted(sg, b, low) ==
  /\ Cut(sg, b, low)
  /\ sg[Len(sg)].end = 0
  /\ Len(sg) > 1 => sg[Len(sg)].begin >= 2

Scanned ==
  pc # "scan" =>
    /\ Parted(segs, broder, IF found THEN 2 ELSE 0)
    /\ pc # "done" => Unjudged(segs)
    /\ pc # "merge" => segs[1].begin - segs[1].end >= 1
    /\ pc = "done" => Judged(segs)

\* How often the rows up to row r change between seen and lost.
Count(b, r) == Cardinality(Changes(b, r))

\* Whether row r says the contrary of the segment s.
Against(s, b, r) == IF IsLine(s) <=> Lost(b[r]) THEN 1 ELSE 0

\* The segments up to the open one are paid for by changes above row low, and there
\* is one more to pay with if row low does not belong to the segment any more.  No
\* segment ends below row 2.
FewOpen(sg, b, low) ==
  IF Len(sg) = 1 THEN Count(b, low) <= breaks
  ELSE Len(sg) - 2 + Count(b, low) + (IF low >= 2 THEN Against(sg[Len(sg)], b, low) ELSE 0)
         <= breaks

FewClosed(sg, b, low) == Len(sg) - 1 + Count(b, low + 1) <= breaks

Counting ==
  /\ pc = "scan" =>
       /\ segs = <<>> => Count(broder, imgRow - 1) <= breaks
       /\ segs # <<>> /\ begin_flag = 0 => FewOpen(segs, broder, i)
       /\ segs # <<>> /\ begin_flag = 1 => FewClosed(segs, broder, i)
  /\ pc # "scan" => Len(segs) <= breaks + 2

Searching == (pc # "done" => ~found) /\ (~found => fp = <<>>)

IInv == FPTypeOK /\ Scanning /\ Scanned /\ Counting /\ Searching /\ ShapeKnown /\ PointsPlaced
-----------------------------------------------------------------------------
(* Facts about rows and sequences.                                         *)

\* The image has at least four rows, and its rows are naturals.
LEMMA RowFacts ==
  /\ imgRow \in Nat /\ imgRow >= 4 /\ Short \in Nat /\ imgRow > Short + 1
  /\ \A r : r \in Rows <=> r \in Int /\ 0 <= r /\ r < imgRow
  BY SegmentAssumption DEF Rows

\* The members of a segment.
LEMMA SegFacts ==
  ASSUME NEW sg \in Seq(Segs)
  PROVE  /\ Len(sg) \in Nat /\ (sg # <<>> => Len(sg) >= 1)
         /\ \A k \in 1 .. Len(sg) :
              /\ sg[k] \in Segs
              /\ sg[k].begin \in Int /\ 0 <= sg[k].begin /\ sg[k].begin < imgRow
              /\ sg[k].end \in Int /\ 0 <= sg[k].end /\ sg[k].end <= imgRow
              /\ sg[k].type \in Types
<1>1. Len(sg) \in Nat /\ (sg # <<>> => Len(sg) >= 1)
  BY EmptySeq, LenProperties
<1>2. ASSUME NEW k \in 1 .. Len(sg)
      PROVE  /\ sg[k] \in Segs
             /\ sg[k].begin \in Int /\ 0 <= sg[k].begin /\ sg[k].begin < imgRow
             /\ sg[k].end \in Int /\ 0 <= sg[k].end /\ sg[k].end <= imgRow
             /\ sg[k].type \in Types
  <2>1. sg[k] \in Segs
    BY <1>2, ElementOfSeq
  <2> QED
    BY <2>1, RowFacts DEF Segs
<1> QED
  BY <1>1, <1>2

\* Rows marked as lost, and rows that are not.
LEMMA Marked ==
  ASSUME NEW b \in Broders, NEW rows
  PROVE  /\ LoseRows(b, rows) \in Broders
         /\ \A r \in Rows : LoseRows(b, rows)[r] = IF r \in rows THEN 0 ELSE b[r]
  BY DEF LoseRows, Broders

\* A border value is a natural, and zero stands for a lost line.
LEMMA BroderFacts ==
  ASSUME NEW b \in Broders
  PROVE  /\ \A r \in Rows : b[r] \in Int /\ 0 <= b[r] /\ b[r] <= 187
         /\ \A r : b[r] = 0 => Lost(b[r])
  BY DEF Broders, Lost

\* The end of the last segment is set, the rest of it and of the others stays.
LEMMA ClosedIs ==
  ASSUME NEW sg \in Seq(Segs), sg # <<>>, i \in Rows
  PROVE  /\ Closed(sg) \in Seq(Segs) /\ Closed(sg) # <<>> /\ Len(Closed(sg)) = Len(sg)
         /\ \A k \in 1 .. Len(sg) :
              /\ Closed(sg)[k].begin = sg[k].begin /\ Closed(sg)[k].type = sg[k].type
              /\ k # Len(sg) => Closed(sg)[k].end = sg[k].end
         /\ Closed(sg)[Len(sg)].end = i + 1
<1> DEFINE last == [sg[Len(sg)] EXCEPT !.end = i + 1]
<1>1. Len(sg) \in 1 .. Len(sg) /\ sg[Len(sg)] \in Segs /\ i + 1 \in 0 .. imgRow
  BY SegFacts, RowFacts
<1>2. /\ last \in Segs /\ last.end = i + 1
      /\ last.begin = sg[Len(sg)].begin /\ last.type = sg[Len(sg)].type
  BY <1>1 DEF Segs
<1>3. Closed(sg) = [sg EXCEPT ![Len(sg)] = last]
  BY DEF Closed
<1> HIDE DEF last
<1>4. /\ Closed(sg) \in Seq(Segs) /\ Len(Closed(sg)) = Len(sg)
      /\ \A k \in 1 .. Len(sg) : Closed(sg)[k] = IF k = Len(sg) THEN last ELSE sg[k]
  BY <1>1, <1>2, <1>3, ExceptSeq
<1>5. Closed(sg) # <<>>
  BY <1>1, <1>4
<1> QED
  BY <1>1, <1>2, <1>4, <1>5
-----------------------------------------------------------------------------
(* A segment begins.                                                       *)

\* A next segment that takes the row behind the end of the last one.
LEMMA Grown ==
  ASSUME NEW sg, NEW b, NEW low \in Rows, Closing(sg, b, low),
         NEW s \in Segs, s.begin = low + 1, s.end = 0,
         IsLine(s) # IsLine(sg[Len(sg)]) \/ (IsLine(s) /\ low = 1),
         RowAgrees(s, b, low + 1), low >= 1
  PROVE  /\ Cut(Append(sg, s), b, low) /\ Append(sg, s)[Len(sg) + 1] = s
         /\ Len(Append(sg, s)) = Len(sg) + 1
         /\ \A k \in 1 .. Len(sg) : Append(sg, s)[k] = sg[k]
<1> DEFINE t == Append(sg, s)
           n == Len(sg)
<1>0. low \in Nat /\ low < imgRow
  BY RowFacts
<1>1. Cut(sg, b, low) /\ sg \in Seq(Segs) /\ sg # <<>>
  BY DEF Closing, Cut
<1>2. n \in Nat /\ n >= 1
  BY <1>1, SegFacts
<1>3. /\ t \in Seq(Segs) /\ t # <<>> /\ Len(t) = n + 1 /\ t[n + 1] = s
      /\ \A k \in 1 .. n : t[k] = sg[k]
  BY <1>1, AppendProperties
<1>4. /\ sg[n].end = low + 2
      /\ n > 1 => sg[n].begin - sg[n].end >= 3
  BY DEF Closing
<1>5. \A k \in 1 .. n : /\ sg[k].begin \in Int /\ sg[k].end \in Int
                        /\ sg[k].begin < imgRow
  BY <1>1, SegFacts
<1> HIDE DEF t, n
<1>6. Chained(t)
  <2>1. \A k \in 1 .. n - 1 : sg[k + 1].begin = sg[k].end - 1
    BY <1>1 DEF Cut, Chained, n
  <2>2. t[1].begin = imgRow - 1
    BY <1>1, <1>2, <1>3 DEF Cut, Chained
  <2>3. t[n + 1].begin = t[n].end - 1
    BY <1>0, <1>2, <1>3, <1>4
  <2>4. ASSUME NEW k \in 1 .. n PROVE t[k + 1].begin = t[k].end - 1
    <3>1. CASE k = n
      BY <2>3, <3>1
    <3>2. CASE k # n
      <4>1. k \in 1 .. n - 1 /\ k + 1 \in 1 .. n
        BY <1>2, <3>2
      <4> QED
        BY <1>3, <2>1, <4>1
    <3> QED
      BY <3>1, <3>2
  <2> QED
    BY <1>2, <1>3, <2>2, <2>4 DEF Chained
<1>7. Ordered(t)
  <2>1. \A k, m \in 1 .. n : k < m => sg[m].begin < sg[k].end
    BY <1>1 DEF Cut, Ordered, n
  <2>2. ASSUME NEW k \in 1 .. n PROVE s.begin < sg[k].end
    <3>1. CASE k = n
      BY <1>0, <1>4, <3>1
    <3>2. CASE k # n
      <4>1. sg[n].begin < sg[k].end /\ n > 1
        BY <1>2, <2>1, <3>2
      <4> QED
        BY <1>0, <1>2, <1>4, <1>5, <4>1
    <3> QED
      BY <3>1, <3>2
  <2>3. ASSUME NEW k \in 1 .. n + 1, NEW m \in 1 .. n + 1, k < m PROVE t[m].begin < t[k].end
    <3>1. k \in 1 .. n
      BY <1>2, <2>3
    <3>2. CASE m = n + 1
      BY <1>3, <2>2, <3>1, <3>2
    <3>3. CASE m # n + 1
      <4>1. m \in 1 .. n
        BY <1>2, <3>3
      <4> QED
        BY <1>3, <2>1, <2>3, <3>1, <4>1
    <3> QED
      BY <3>2, <3>3
  <2> QED
    BY <1>3, <2>3 DEF Ordered
<1>8. Tall(t)
  <2>1. \A k \in 2 .. n - 1 : sg[k].begin - sg[k].end >= 3
    BY <1>1 DEF Cut, Tall, n
  <2>2. ASSUME NEW k \in 2 .. n PROVE sg[k].begin - sg[k].end >= 3 /\ t[k] = sg[k]
    <3>1. k = n \/ k \in 2 .. n - 1
      BY <1>2
    <3>2. k \in 1 .. n
      BY <1>2
    <3> QED
      BY <1>2, <1>3, <1>4, <2>1, <3>1, <3>2
  <2> QED
    BY <1>2, <1>3, <2>2 DEF Tall
<1>9. Fits(t)
  <2>1. \A k \in 2 .. n : 4 * (k - 2) <= imgRow - 1 - sg[k].begin
    BY <1>1 DEF Cut, Fits, n
  <2>2. 4 * (n - 1) <= imgRow - 1 - (low + 1)
    <3>1. CASE n = 1
      <4>1. sg[1].end <= imgRow
        BY <1>1, <1>2, SegFacts DEF n
      <4> QED
        BY <1>0, <1>2, <1>4, <3>1, <4>1, RowFacts
    <3>2. CASE n > 1
      <4>1. 4 * (n - 2) <= imgRow - 1 - sg[n].begin
        BY <1>2, <2>1, <3>2
      <4>2. sg[n].begin >= low + 5 /\ sg[n].begin \in Int
        BY <1>0, <1>2, <1>4, <1>5, <3>2
      <4> QED
        BY <1>0, <1>2, <4>1, <4>2, RowFacts
    <3> QED
      BY <1>2, <3>1, <3>2
  <2>3. ASSUME NEW k \in 2 .. n + 1 PROVE 4 * (k - 2) <= imgRow - 1 - t[k].begin
    <3>1. CASE k = n + 1
      BY <1>2, <1>3, <2>2, <3>1
    <3>2. CASE k # n + 1
      <4>1. k \in 1 .. n /\ k \in 2 .. n
        BY <1>2, <3>2
      <4> QED
        BY <1>3, <2>1, <4>1
    <3> QED
      BY <3>1, <3>2
  <2> QED
    BY <1>3, <2>3 DEF Fits
<1>10. Alternate(t)
  <2>1. \A k \in 1 .. n - 1 :
          \/ IsLine(sg[k]) # IsLine(sg[k + 1])
          \/ IsLine(sg[k]) /\ k + 1 = n /\ sg[k + 1].begin = 2
    BY <1>1 DEF Cut, Alternate, n
  <2>2. n > 1 => sg[n].begin # 2
    BY <1>0, <1>2, <1>4, <1>5
  <2>3. ASSUME NEW k \in 1 .. n
        PROVE  \/ IsLine(t[k]) # IsLine(t[k + 1])
               \/ IsLine(t[k]) /\ k + 1 = n + 1 /\ t[k + 1].begin = 2
    <3>1. CASE k = n
      <4>1. t[k] = sg[n] /\ t[k + 1] = s
        BY <1>2, <1>3, <3>1
      <4>2. IsLine(s) # IsLine(sg[n]) \/ (IsLine(s) /\ low = 1)
        BY DEF n
      <4>3. low = 1 => s.begin = 2
        BY <1>0
      <4> QED
        BY <3>1, <4>1, <4>2, <4>3 DEF IsLine
    <3>2. CASE k # n
      <4>1. k \in 1 .. n - 1 /\ k + 1 \in 1 .. n /\ n > 1
        BY <1>2, <3>2
      <4>2. t[k] = sg[k] /\ t[k + 1] = sg[k + 1]
        BY <1>3, <4>1
      <4>3. ~(k + 1 = n /\ sg[k + 1].begin = 2)
        BY <2>2, <4>1
      <4> QED
        BY <2>1, <4>1, <4>2, <4>3
    <3> QED
      BY <3>1, <3>2
  <2> QED
    BY <1>2, <1>3, <2>3 DEF Alternate
<1>11. Agree(t, b, low)
  <2>1. \A k \in 2 .. n : \A r \in sg[k].end .. sg[k].begin : r > low => RowAgrees(sg[k], b, r)
    BY <1>1 DEF Cut, Agree, n
  <2>2. ASSUME NEW k \in 2 .. n + 1, NEW r \in t[k].end .. t[k].begin, r > low
        PROVE  RowAgrees(t[k], b, r)
    <3>1. CASE k = n + 1
      <4>1. t[k] = s
        BY <1>3, <3>1
      <4>2. r = low + 1
        BY <1>0, <2>2, <4>1
      <4> QED
        BY <4>1, <4>2
    <3>2. CASE k # n + 1
      <4>1. k \in 2 .. n /\ k \in 1 .. n
        BY <1>2, <3>2
      <4> QED
        BY <1>3, <2>1, <2>2, <4>1
    <3> QED
      BY <3>1, <3>2
  <2> QED
    BY <1>3, <2>2 DEF Agree
<1> QED
  BY <1>1, <1>3, <1>6, <1>7, <1>8, <1>9, <1>10, <1>11 DEF Cut, t, n

\* Rows that are not scanned yet may change.
LEMMA CutUnscanned ==
  ASSUME NEW sg, NEW b, NEW low \in Int, Cut(sg, b, low),
         NEW b2 \in Broders, \A r \in Rows : r > low => b2[r] = b[r]
  PROVE  Cut(sg, b2, low)
<1>1. ASSUME NEW k \in 2 .. Len(sg), NEW r \in sg[k].end .. sg[k].begin, r > low
      PROVE  RowAgrees(sg[k], b2, r)
  <2>1. k \in 1 .. Len(sg) /\ sg \in Seq(Segs)
    BY <1>1, SegFacts DEF Cut
  <2>2. r \in Rows
    BY <1>1, <2>1, SegFacts, RowFacts
  <2>3. RowAgrees(sg[k], b, r) /\ b2[r] = b[r]
    BY <1>1, <2>2 DEF Cut, Agree
  <2> QED
    BY <2>3 DEF RowAgrees
<1> QED
  BY <1>1 DEF Cut, Agree

\* The segment that a scan of row i begins.
NewSeg(lost) ==
  [begin |-> IF i = imgRow - 1 THEN i ELSE i + 1, end |-> 0,
   type |-> IF lost THEN "lose" ELSE "null"]

BeginsLost == i >= 2 /\ StartsLost(broder[i]) /\ StartsLost(broder[i - 1])

\* What Begins makes of the segments and of the border.
LEMMA BeginsIs ==
  ASSUME TypeOK
  PROVE  /\ begin_flag = 0 => Begins.s = segs /\ Begins.b = broder
         /\ begin_flag = 1 =>
              /\ Begins.s = Append(segs, NewSeg(BeginsLost))
              /\ Begins.b = IF BeginsLost THEN LoseRows(broder, {i, i - 1, i - 2}) ELSE broder
         /\ NewSeg(BeginsLost) \in Segs
<1>1. i \in Rows /\ (i # imgRow - 1 => i + 1 \in Rows) /\ 0 \in 0 .. imgRow
  BY RowFacts DEF TypeOK
<1>2. NewSeg(BeginsLost) \in Segs
  BY <1>1 DEF NewSeg, Segs, Types
<1> QED
  BY <1>2 DEF Begins, NewSeg, BeginsLost

\* The first segment begins.
LEMMA FirstBegins ==
  ASSUME NEW s \in Segs, s.begin = imgRow - 1, s.end = 0, NEW b \in Broders, NEW low
  PROVE  Open(Append(<<>>, s), b, low) /\ Len(Append(<<>>, s)) = 1 /\ Append(<<>>, s)[1] = s
<1> DEFINE t == Append(<<>>, s)
<1>1. t \in Seq(Segs) /\ t # <<>> /\ Len(t) = 1 /\ t[1] = s
  <2>1. <<>> \in Seq(Segs) /\ Len(<<>>) = 0
    BY EmptySeq
  <2> QED
    BY <2>1, AppendProperties
<1> HIDE DEF t
<1>2. Chained(t) /\ Ordered(t) /\ Tall(t) /\ Fits(t) /\ Alternate(t) /\ Agree(t, b, low)
  BY <1>1 DEF Chained, Ordered, Tall, Fits, Alternate, Agree
<1>3. Open(t, b, low)
  BY <1>1, <1>2 DEF Open, Cut
<1> QED
  BY <1>1, <1>3 DEF t

\* A next segment begins.
LEMMA NextBegins ==
  ASSUME TypeOK, Unjudged(segs), i >= 1, i < imgRow - 1, begin_flag = 1, Closing(segs, broder, i)
  PROVE  Open(Begins.s, Begins.b, i) /\ Unjudged(Begins.s)
<1> DEFINE s == NewSeg(BeginsLost)
           n == Len(segs)
           last == segs[n]
<1>0. i \in Rows /\ i \in Int /\ broder \in Broders
  BY RowFacts DEF TypeOK, Broders
<1>1. segs \in Seq(Segs) /\ segs # <<>> /\ n \in Nat /\ n >= 1
  BY SegFacts DEF Closing, Cut
<1>2. Begins.s = Append(segs, s) /\ s \in Segs
  BY BeginsIs
<1>3. s.begin = i + 1 /\ s.end = 0 /\ s.type = IF BeginsLost THEN "lose" ELSE "null"
  BY <1>0 DEF NewSeg
<1>4. IsLine(s) <=> ~BeginsLost
  BY <1>3 DEF IsLine
<1>5. Ended(last, broder, i)
  BY DEF Closing
<1>6. CASE ~IsLine(last)
  <2>1. i >= 2 /\ \A r \in i - 2 .. i + 1 : ~Lost(broder[r])
    BY <1>5, <1>6 DEF Ended
  <2>2. i - 2 \in i - 2 .. i + 1 /\ i - 1 \in i - 2 .. i + 1 /\ i \in i - 2 .. i + 1 /\ i + 1 \in i - 2 .. i + 1
    BY <1>0
  <2>3. broder[i] \in Int /\ ~Lost(broder[i]) /\ ~Lost(broder[i + 1])
    BY <1>0, <2>1, <2>2, BroderFacts
  <2>4. ~BeginsLost
    BY <2>3 DEF BeginsLost, StartsLost, Lost
  <2>5. Begins.b = broder /\ IsLine(s)
    BY <1>4, <2>4, BeginsIs
  <2>6. RowAgrees(s, broder, i + 1)
    BY <2>3, <2>5 DEF RowAgrees
  <2>7. Cut(Append(segs, s), broder, i) /\ Append(segs, s)[n + 1] = s /\ Len(Append(segs, s)) = n + 1
        /\ \A k \in 1 .. n : Append(segs, s)[k] = segs[k]
    BY <1>0, <1>2, <1>3, <1>6, <2>5, <2>6, Grown
  <2>8. Begun(s, broder)
    BY <1>0, <1>3, <2>1, <2>5 DEF Begun
  <2>9. Open(Append(segs, s), broder, i)
    BY <1>0, <1>3, <2>7, <2>8 DEF Open
  <2>10. Unjudged(Append(segs, s))
    <3>1. ASSUME NEW k \in 1 .. n + 1 PROVE Append(segs, s)[k].type \in {"lose", "null"}
      BY <1>1, <1>3, <2>7 DEF Unjudged
    <3> QED
      BY <2>7, <3>1 DEF Unjudged
  <2> QED
    BY <1>2, <2>5, <2>9, <2>10
<1>7. CASE IsLine(last)
  <2>1. i >= 1 /\ \A r \in i - 1 .. i + 1 : broder[r] = 0
    BY <1>5, <1>7 DEF Ended
  <2>2. broder[i] = 0 /\ broder[i - 1] = 0 /\ broder[i + 1] = 0
    BY <1>0, <2>1
  <2>3. BeginsLost <=> i >= 2
    BY <2>2 DEF BeginsLost, StartsLost
  <2>4. IsLine(s) => i = 1
    BY <1>0, <1>4, <2>1, <2>3
  <2>5. RowAgrees(s, broder, i + 1)
    BY <1>0, <1>3, <2>2, <2>4 DEF RowAgrees
  <2>6. IsLine(s) # IsLine(last) \/ (IsLine(s) /\ i = 1)
    BY <1>7, <2>4 DEF IsLine
  <2>7. /\ Cut(Append(segs, s), broder, i) /\ Append(segs, s)[n + 1] = s
        /\ Len(Append(segs, s)) = n + 1
        /\ \A k \in 1 .. n : Append(segs, s)[k] = segs[k]
    BY <1>0, <1>2, <1>3, <2>5, <2>6, Grown
  <2>8. Begins.b \in Broders /\ \A r \in Rows : r > i => Begins.b[r] = broder[r]
    <3>1. \A r \in Rows : r > i => r \notin {i, i - 1, i - 2}
      BY <1>0, RowFacts
    <3> QED
      BY <1>0, <3>1, BeginsIs, Marked
  <2>9. Cut(Append(segs, s), Begins.b, i)
    BY <1>0, <2>7, <2>8, CutUnscanned
  <2>10. Begun(s, Begins.b)
    <3>1. CASE IsLine(s)
      BY <1>0, <1>3, <2>4, <3>1 DEF Begun
    <3>2. CASE ~IsLine(s)
      <4>1. BeginsLost /\ i >= 2 /\ Begins.b = LoseRows(broder, {i, i - 1, i - 2})
        BY <1>4, <2>3, <3>2, BeginsIs
      <4>2. ASSUME NEW r \in i - 2 .. i PROVE Begins.b[r] = 0
        <5>1. r \in Rows /\ r \in {i, i - 1, i - 2}
          BY <1>0, <4>1, RowFacts
        <5> QED
          BY <1>0, <4>1, <5>1, Marked
      <4>3. s.begin - 3 = i - 2 /\ s.begin - 1 = i /\ s.begin >= 3
        BY <1>0, <1>3, <4>1
      <4> QED
        BY <3>2, <4>2, <4>3 DEF Begun
    <3> QED
      BY <3>1, <3>2
  <2>11. Open(Append(segs, s), Begins.b, i)
    BY <1>0, <1>3, <2>7, <2>9, <2>10 DEF Open
  <2>12. Unjudged(Append(segs, s))
    <3>1. ASSUME NEW k \in 1 .. n + 1 PROVE Append(segs, s)[k].type \in {"lose", "null"}
      BY <1>1, <1>3, <2>7 DEF Unjudged
    <3> QED
      BY <2>7, <3>1 DEF Unjudged
  <2> QED
    BY <1>2, <2>11, <2>12
<1> QED
  BY <1>6, <1>7
-----------------------------------------------------------------------------
(* A row is scanned.                                                       *)

\* Row low joins the open segment, or the segment ends behind it.
LEMMA CutGoesOn ==
  ASSUME NEW sg, NEW b, NEW low \in Rows, Open(sg, b, low),
         NEW t \in Seq(Segs), Len(t) = Len(sg),
         \A k \in 1 .. Len(sg) : /\ t[k].begin = sg[k].begin /\ t[k].type = sg[k].type
                                 /\ k # Len(sg) => t[k].end = sg[k].end,
         NEW b2 \in Broders, \A r \in Rows : r > low => b2[r] = b[r],
         \/ t[Len(sg)].end = low + 1
         \/ t[Len(sg)].end = 0 /\ (Len(sg) > 1 => RowAgrees(sg[Len(sg)], b2, low))
  PROVE  Cut(t, b2, low - 1)
<1> DEFINE n == Len(sg)
<1>0. low \in Int /\ 0 <= low
  BY RowFacts
<1>1. Cut(sg, b, low) /\ sg \in Seq(Segs) /\ sg # <<>> /\ n \in Nat /\ n >= 1
  BY SegFacts DEF Open, Cut
<1>2. n > 1 => sg[n].begin > low
  BY DEF Open
<1>3. \A k \in 1 .. n : /\ sg[k].begin \in Int /\ sg[k].end \in Int /\ sg[k].end >= 0
                        /\ sg[k].begin < imgRow
  BY <1>1, SegFacts
<1>4. /\ \A k \in 1 .. n : t[k].begin = sg[k].begin /\ IsLine(t[k]) = IsLine(sg[k])
      /\ \A k \in 1 .. n - 1 : t[k].end = sg[k].end
      /\ t # <<>>
  <2>1. t # <<>>
    BY <1>1, EmptySeq
  <2> QED
    BY <1>1, <2>1 DEF IsLine
<1> HIDE DEF n
<1>5. Chained(t)
  BY <1>1, <1>4 DEF Cut, Chained, n
<1>6. Ordered(t)
  <2>1. ASSUME NEW k \in 1 .. n, NEW m \in 1 .. n, k < m PROVE t[m].begin < t[k].end
    <3>1. k \in 1 .. n - 1
      BY <1>1, <2>1
    <3>2. sg[m].begin < sg[k].end
      BY <1>1, <2>1 DEF Cut, Ordered, n
    <3> QED
      BY <1>4, <3>1, <3>2
  <2> QED
    BY <2>1 DEF Ordered, n
<1>7. Tall(t)
  <2>1. ASSUME NEW k \in 2 .. n - 1 PROVE t[k].begin - t[k].end >= 3
    <3>1. k \in 1 .. n - 1 /\ k \in 1 .. n
      BY <1>1
    <3> QED
      BY <1>1, <1>4, <3>1 DEF Cut, Tall, n
  <2> QED
    BY <2>1 DEF Tall, n
<1>8. Fits(t)
  <2>1. ASSUME NEW k \in 2 .. n PROVE 4 * (k - 2) <= imgRow - 1 - t[k].begin
    <3>1. k \in 1 .. n
      BY <1>1
    <3>2. 4 * (k - 2) <= imgRow - 1 - sg[k].begin
      BY <1>1 DEF Cut, Fits, n
    <3> QED
      BY <1>4, <3>1, <3>2
  <2> QED
    BY <2>1 DEF Fits, n
<1>9. Alternate(t)
  <2>1. ASSUME NEW k \in 1 .. n - 1
        PROVE  \/ IsLine(t[k]) # IsLine(t[k + 1])
               \/ IsLine(t[k]) /\ k + 1 = n /\ t[k + 1].begin = 2
    <3>1. k \in 1 .. n /\ k + 1 \in 1 .. n
      BY <1>1
    <3>2. \/ IsLine(sg[k]) # IsLine(sg[k + 1])
          \/ IsLine(sg[k]) /\ k + 1 = n /\ sg[k + 1].begin = 2
      BY <1>1 DEF Cut, Alternate, n
    <3> QED
      BY <1>4, <3>1, <3>2
  <2> QED
    BY <2>1 DEF Alternate, n
<1>10. Agree(t, b2, low - 1)
  <2>1. ASSUME NEW k \in 2 .. n, NEW r \in t[k].end .. t[k].begin, r > low - 1
        PROVE  RowAgrees(t[k], b2, r)
    <3>1. k \in 1 .. n /\ n > 1 /\ t[k].begin = sg[k].begin /\ IsLine(t[k]) = IsLine(sg[k])
      BY <1>1, <1>4
    <3>2. t[k].end \in Int /\ r \in Int /\ r >= low
      <4>1. t[k].end \in Int
        BY <3>1, SegFacts DEF n
      <4> QED
        BY <1>0, <2>1, <3>1, <1>3, <4>1
    <3>3. CASE r = low
      <4>1. k = n
        <5>1. ASSUME k # n PROVE FALSE
          <6>1. k \in 1 .. n - 1 /\ n \in 1 .. n /\ k < n
            BY <1>1, <2>1, <5>1
          <6>2. sg[n].begin < sg[k].end
            BY <1>1, <3>1, <6>1 DEF Cut, Ordered, n
          <6>3. t[k].end = sg[k].end
            BY <1>4, <6>1
          <6> QED
            BY <1>0, <1>2, <1>3, <2>1, <3>1, <3>2, <3>3, <6>1, <6>2, <6>3
        <5> QED
          BY <5>1
      <4>2. t[n].end # low + 1
        BY <1>0, <2>1, <3>1, <3>2, <3>3, <4>1, <1>3
      <4>3. RowAgrees(sg[n], b2, low)
        BY <3>1, <4>2 DEF n
      <4> QED
        BY <3>1, <3>3, <4>1, <4>3 DEF RowAgrees
    <3>4. CASE r > low
      <4>1. r \in Rows
        BY <1>0, <1>3, <2>1, <3>1, <3>2, <3>4, RowFacts
      <4>2. r \in sg[k].end .. sg[k].begin
        <5>1. CASE k = n
          <6>1. sg[n].end = 0
            BY DEF Open, n
          <6> QED
            BY <1>0, <1>3, <2>1, <3>1, <3>2, <3>4, <5>1, <6>1
        <5>2. CASE k # n
          <6>1. k \in 1 .. n - 1
            BY <1>1, <2>1, <5>2
          <6> QED
            BY <1>4, <2>1, <3>1, <6>1
        <5> QED
          BY <5>1, <5>2
      <4>3. RowAgrees(sg[k], b, r)
        BY <1>1, <2>1, <3>4, <4>2 DEF Cut, Agree, n
      <4>4. b2[r] = b[r]
        BY <3>4, <4>1
      <4> QED
        BY <3>1, <4>3, <4>4 DEF RowAgrees
    <3> QED
      BY <1>0, <3>2, <3>3, <3>4
  <2> QED
    BY <2>1 DEF Agree, n
<1> QED
  BY <1>4, <1>5, <1>6, <1>7, <1>8, <1>9, <1>10 DEF Cut

\* After row i: a segment is open, or it ended before the far rows.
RowDone(sg, b, flag) ==
  /\ Unjudged(sg)
  /\ flag = 0 => Open(sg, b, i - 1)
  /\ flag = 1 => Closing(sg, b, i - 1) /\ i >= 2

\* The segment ends behind row i.
LEMMA Ends ==
  ASSUME i \in Rows, NEW sg, NEW b, Open(sg, b, i), Unjudged(sg),
         NEW b2 \in Broders, \A r \in Rows : r > i => b2[r] = b[r],
         Len(sg) > 1 => sg[Len(sg)].begin - i >= 4,
         Ended(sg[Len(sg)], b2, i - 1)
  PROVE  Closing(Closed(sg), b2, i - 1) /\ Unjudged(Closed(sg))
<1>0. i \in Int /\ 0 <= i
  BY RowFacts
<1>1. sg \in Seq(Segs) /\ sg # <<>> /\ Len(sg) \in 1 .. Len(sg)
  BY SegFacts DEF Open, Cut
<1>2. /\ Closed(sg) \in Seq(Segs) /\ Closed(sg) # <<>> /\ Len(Closed(sg)) = Len(sg)
      /\ \A k \in 1 .. Len(sg) :
           /\ Closed(sg)[k].begin = sg[k].begin /\ Closed(sg)[k].type = sg[k].type
           /\ k # Len(sg) => Closed(sg)[k].end = sg[k].end
      /\ Closed(sg)[Len(sg)].end = i + 1
  BY <1>1, ClosedIs
<1>3. Cut(Closed(sg), b2, i - 1)
  BY <1>2, CutGoesOn
<1>4. Ended(Closed(sg)[Len(sg)], b2, i - 1)
  BY <1>1, <1>2 DEF Ended, IsLine
<1>5. Len(sg) > 1 => Closed(sg)[Len(sg)].begin - Closed(sg)[Len(sg)].end >= 3
  <2>1. sg[Len(sg)].begin \in Int /\ Closed(sg)[Len(sg)].begin = sg[Len(sg)].begin
    BY <1>1, <1>2, SegFacts
  <2> QED
    BY <1>0, <1>2, <2>1
<1>6. Unjudged(Closed(sg))
  BY <1>2 DEF Unjudged
<1> QED
  BY <1>0, <1>2, <1>3, <1>4, <1>5, <1>6 DEF Closing

\* The segment goes on at row i.
LEMMA GoesOn ==
  ASSUME i \in Rows, NEW sg, NEW b, Open(sg, b, i),
         NEW b2 \in Broders, \A r \in Rows : r > i => b2[r] = b[r],
         Len(sg) > 1 => RowAgrees(sg[Len(sg)], b2, i) /\ Begun(sg[Len(sg)], b2)
  PROVE  Open(sg, b2, i - 1)
<1>0. i \in Int /\ 0 <= i
  BY RowFacts
<1>1. sg \in Seq(Segs) /\ sg # <<>> /\ Len(sg) \in 1 .. Len(sg)
  BY SegFacts DEF Open, Cut
<1>2. Cut(sg, b2, i - 1)
  BY <1>1, CutGoesOn DEF Open
<1>3. Len(sg) > 1 => sg[Len(sg)].begin > i - 1
  BY <1>0, <1>1, SegFacts DEF Open
<1> QED
  BY <1>2, <1>3 DEF Open

\* A row of a lost segment.
LEMMA LostRow ==
  ASSUME i \in Rows, i >= 1, NEW sg, NEW b, Open(sg, b, i), Unjudged(sg), InLost(sg, b)
  PROVE  RowDone(segs', broder', begin_flag') /\ begin_flag' \in {0, 1}
<1> DEFINE s == sg[Len(sg)]
<1>0. i \in Int /\ i < imgRow /\ b \in Broders
  BY RowFacts DEF Open, Cut
<1>1. ~IsLine(s)
  BY DEF InLost, IsLine
<1>2. Len(sg) > 1 => /\ s.begin \in Int /\ s.begin < imgRow /\ s.begin > i /\ s.begin >= 3
                     /\ \A r \in s.begin - 3 .. s.begin - 1 : b[r] = 0
  <2>1. sg \in Seq(Segs) /\ Len(sg) \in 1 .. Len(sg)
    BY SegFacts DEF Open, Cut
  <2> QED
    BY <1>1, <2>1, SegFacts DEF Open, Begun
<1>3. CASE EndsLost(b)
  <2>1. segs' = Closed(sg) /\ begin_flag' = 1 /\ broder' = b
    BY <1>3 DEF InLost
  <2>2. i >= 3 /\ ~Lost(b[i]) /\ ~Lost(b[i - 1]) /\ ~Lost(b[i - 2]) /\ ~Lost(b[i - 3])
    <3>1. i >= 3 /\ \A k \in 0 .. 3 : ~Lost(b[i - k])
      BY <1>3 DEF EndsLost
    <3>2. 0 \in 0 .. 3 /\ 1 \in 0 .. 3 /\ 2 \in 0 .. 3 /\ 3 \in 0 .. 3 /\ i - 0 = i
      BY <1>0
    <3> QED
      BY <3>1, <3>2
  <2>3. Len(sg) > 1 => s.begin - i >= 4
    <3>1. b[i] # 0
      BY <1>0, <2>2, BroderFacts
    <3>2. Len(sg) > 1 => ~(i \in s.begin - 3 .. s.begin - 1)
      BY <1>2, <3>1
    <3> QED
      BY <1>0, <1>2, <3>2
  <2>4. Ended(s, b, i - 1)
    <3>1. ASSUME NEW r \in (i - 1) - 2 .. (i - 1) + 1 PROVE ~Lost(b[r])
      <4>1. r = i \/ r = i - 1 \/ r = i - 2 \/ r = i - 3
        BY <1>0, <3>1
      <4> QED
        BY <2>2, <4>1
    <3>2. i - 1 >= 2
      BY <1>0, <2>2
    <3> QED
      BY <1>1, <3>1, <3>2 DEF Ended
  <2>5. Closing(Closed(sg), b, i - 1) /\ Unjudged(Closed(sg))
    BY <1>0, <2>3, <2>4, Ends
  <2> QED
    BY <1>0, <2>1, <2>2, <2>5 DEF RowDone
<1>4. CASE ~EndsLost(b)
  <2>1. segs' = sg /\ begin_flag' = 0 /\ broder' = IF i < 3 THEN b ELSE LoseRows(b, {i})
    BY <1>4 DEF InLost
  <2>2. broder' \in Broders /\ \A r \in Rows : broder'[r] = IF i >= 3 /\ r = i THEN 0 ELSE b[r]
    BY <1>0, <2>1, Marked
  <2>3. \A r \in Rows : r > i => broder'[r] = b[r]
    BY <1>0, <2>2, RowFacts
  <2>4. Len(sg) > 1 => RowAgrees(s, broder', i) /\ Begun(s, broder')
    <3>1. SUFFICES ASSUME Len(sg) > 1 PROVE RowAgrees(s, broder', i) /\ Begun(s, broder')
      OBVIOUS
    <3>2. ASSUME NEW r \in s.begin - 3 .. s.begin - 1 PROVE broder'[r] = 0
      <4>1. r \in Rows /\ b[r] = 0
        BY <1>2, <3>1, <3>2, RowFacts
      <4> QED
        BY <2>2, <4>1
    <3> QED
      BY <1>1, <1>2, <2>2, <3>1, <3>2 DEF RowAgrees, Begun
  <2>5. Open(sg, broder', i - 1)
    BY <2>2, <2>3, <2>4, GoesOn
  <2> QED
    BY <2>1, <2>5 DEF RowDone
<1> QED
  BY <1>3, <1>4

\* A row of a line.
LEMMA LineRow ==
  ASSUME i \in Rows, i >= 1, NEW sg, NEW b, Open(sg, b, i), Unjudged(sg),
         NEW beyond \in Distances, InLine(sg, b, beyond)
  PROVE  RowDone(segs', broder', begin_flag') /\ begin_flag' \in {0, 1}
<1> DEFINE s == sg[Len(sg)]
<1>0. i \in Int /\ i < imgRow /\ b \in Broders
  BY RowFacts DEF Open, Cut
<1>1. IsLine(s)
  BY DEF InLine, IsLine
<1>2. Len(sg) > 1 =>
        /\ s.begin \in Int /\ s.begin < imgRow /\ s.begin > i
        /\ s.begin = 2 \/ (s.begin >= 3 /\ \A r \in s.begin - 3 .. s.begin - 1 : ~Lost(b[r]))
  <2>1. sg \in Seq(Segs) /\ Len(sg) \in 1 .. Len(sg)
    BY SegFacts DEF Open, Cut
  <2> QED
    BY <1>1, <2>1, SegFacts DEF Open, Begun
<1>3. CASE EndsLine(b)
  <2>1. i >= 2 /\ Lost(b[i])
    <3>1. i >= 2 /\ \A k \in 0 .. 2 : Lost(b[i - k])
      BY <1>3 DEF EndsLine
    <3>2. 0 \in 0 .. 2 /\ i - 0 = i
      BY <1>0
    <3> QED
      BY <3>1, <3>2
  <2>2. segs' = Closed(sg) /\ begin_flag' = 1 /\ broder' = LoseRows(b, {i, i - 1, i - 2})
    BY <1>0, <1>3, <2>1 DEF InLine
  <2>3. /\ broder' \in Broders
        /\ \A r \in Rows : broder'[r] = IF r \in {i, i - 1, i - 2} THEN 0 ELSE b[r]
    BY <1>0, <2>2, Marked
  <2>4. \A r \in Rows : r > i => broder'[r] = b[r]
    BY <1>0, <2>3, RowFacts
  <2>5. Len(sg) > 1 => s.begin - i >= 4
    <3>1. Len(sg) > 1 => s.begin >= 3 /\ ~(i \in s.begin - 3 .. s.begin - 1)
      BY <1>0, <1>2, <2>1
    <3> QED
      BY <1>0, <1>2, <3>1
  <2>6. Ended(s, broder', i - 1)
    <3>1. ASSUME NEW r \in (i - 1) - 1 .. (i - 1) + 1 PROVE broder'[r] = 0
      <4>1. r \in Rows /\ r \in {i, i - 1, i - 2}
        BY <1>0, <2>1, <3>1, RowFacts
      <4> QED
        BY <2>3, <4>1
    <3>2. i - 1 >= 1
      BY <1>0, <2>1
    <3> QED
      BY <1>1, <3>1, <3>2 DEF Ended
  <2>7. Closing(Closed(sg), broder', i - 1) /\ Unjudged(Closed(sg))
    BY <2>3, <2>4, <2>5, <2>6, Ends
  <2> QED
    BY <2>1, <2>2, <2>7 DEF RowDone
<1>4. CASE ~EndsLine(b)
  <2> DEFINE copies == i >= 2 /\ (Lost(b[i]) \/ OffTheFarEdge(b[i]))
  <2>1. segs' = sg /\ begin_flag' = 0
        /\ broder' = IF copies THEN [b EXCEPT ![i] = Below(b, beyond)] ELSE b
    BY <1>0, <1>4 DEF InLine
  <2>2. Below(b, beyond) \in 0 .. 187
    <3>1. beyond \in 0 .. 187
      BY SegmentAssumption
    <3>2. i # imgRow - 1 => i + 1 \in Rows
      BY <1>0, RowFacts
    <3> QED
      BY <1>0, <3>1, <3>2 DEF Below, Broders
  <2>3. /\ broder' \in Broders
        /\ \A r \in Rows : broder'[r] = IF copies /\ r = i THEN Below(b, beyond) ELSE b[r]
    BY <1>0, <2>1, <2>2 DEF Broders
  <2>4. \A r \in Rows : r > i => broder'[r] = b[r]
    BY <1>0, <2>3, RowFacts
  <2>5. Len(sg) > 1 => RowAgrees(s, broder', i) /\ Begun(s, broder')
    <3>1. SUFFICES ASSUME Len(sg) > 1 PROVE RowAgrees(s, broder', i) /\ Begun(s, broder')
      OBVIOUS
    <3>2. ASSUME i >= 2, s.begin # 2 PROVE ~Lost(Below(b, beyond))
      <4>1. sg \in Seq(Segs) /\ Len(sg) \in 2 .. Len(sg) /\ s.end = 0
        BY <3>1, SegFacts DEF Open, Cut
      <4>2. i + 1 \in s.end .. s.begin /\ i + 1 > i /\ i # imgRow - 1
        <5>1. i < s.begin /\ s.begin \in Int /\ s.begin < imgRow
          BY <1>2, <3>1
        <5>2. i + 1 \in 0 .. s.begin /\ i # imgRow - 1 /\ i + 1 > i
          <6> HIDE DEF s
          <6> QED
            BY <1>0, <5>1, RowFacts
        <5> QED
          BY <4>1, <5>2
      <4>3. RowAgrees(s, b, i + 1)
        BY <4>1, <4>2 DEF Open, Cut, Agree
      <4> QED
        BY <1>0, <1>1, <3>2, <4>2, <4>3 DEF RowAgrees, Below
    <3>3. ASSUME i >= 2, s.begin # 2 PROVE ~Lost(broder'[i])
      BY <2>3, <3>2, <3>3
    <3>4. ASSUME NEW r \in s.begin - 3 .. s.begin - 1, s.begin >= 3 PROVE ~Lost(broder'[r])
      <4>1. r \in Rows /\ r \in Int
        BY <1>2, <3>1, <3>4, RowFacts
      <4>2. ~Lost(b[r])
        BY <1>2, <3>1, <3>4
      <4>3. CASE copies /\ r = i
        BY <1>2, <3>1, <3>3, <3>4, <4>3
      <4>4. CASE ~(copies /\ r = i)
        BY <2>3, <4>1, <4>2, <4>4
      <4> QED
        BY <4>3, <4>4
    <3> QED
      BY <1>1, <1>2, <3>1, <3>3, <3>4 DEF RowAgrees, Begun
  <2>6. Open(sg, broder', i - 1)
    BY <2>3, <2>4, <2>5, GoesOn
  <2> QED
    BY <2>1, <2>6 DEF RowDone
<1> QED
  BY <1>3, <1>4

\* A row is scanned with a segment open, begun before or at this row.
LEMMA ScanOpens ==
  ASSUME TypeOK, Scanning, pc = "scan"
  PROVE  Open(Begins.s, Begins.b, i) /\ Unjudged(Begins.s)
<1>0. i \in Rows /\ i \in Int /\ i >= 1 /\ broder \in Broders /\ segs \in Seq(Segs)
  BY RowFacts DEF TypeOK, Scanning, Broders, Segs
<1>1. CASE segs = <<>>
  <2>1. begin_flag = 1 /\ i = imgRow - 1
    BY <1>1 DEF Scanning
  <2>2. /\ Begins.s = Append(<<>>, NewSeg(BeginsLost)) /\ NewSeg(BeginsLost) \in Segs
        /\ Begins.b = IF BeginsLost THEN LoseRows(broder, {i, i - 1, i - 2}) ELSE broder
    BY <1>1, <2>1, BeginsIs
  <2>3. Begins.b \in Broders
    BY <1>0, <2>2, Marked
  <2>4. /\ NewSeg(BeginsLost).begin = imgRow - 1 /\ NewSeg(BeginsLost).end = 0
        /\ NewSeg(BeginsLost).type \in {"lose", "null"}
    BY <2>1 DEF NewSeg
  <2>5. /\ Open(Begins.s, Begins.b, i) /\ Len(Begins.s) = 1
        /\ Begins.s[1] = NewSeg(BeginsLost)
    BY <2>2, <2>3, <2>4, FirstBegins
  <2> QED
    BY <2>4, <2>5 DEF Unjudged
<1>2. CASE segs # <<>> /\ begin_flag = 0
  <2>1. Open(segs, broder, i) /\ Unjudged(segs)
    BY <1>2 DEF Scanning
  <2> QED
    BY <1>2, <2>1, BeginsIs
<1>3. CASE segs # <<>> /\ begin_flag = 1
  BY <1>3, NextBegins DEF Scanning
<1> QED
  BY <1>1, <1>2, <1>3 DEF TypeOK

\* Cutting a row keeps the invariant of the segments.
LEMMA ScanKeeps ==
  ASSUME TypeOK, Scanning, Scan, found = FALSE, found' = FALSE
  PROVE  TypeOK' /\ Scanning' /\ Scanned'
<1>0. /\ pc = "scan" /\ i' = i - 1 /\ LorR' = LorR /\ breaks' = breaks
      /\ pc' = IF i = 1 THEN "merge" ELSE "scan"
  BY DEF Scan
<1>1. i \in Rows /\ i \in Int /\ i >= 1 /\ broder \in Broders /\ segs \in Seq(Segs)
  BY <1>0, RowFacts DEF TypeOK, Scanning, Broders, Segs
<1>2. Open(Begins.s, Begins.b, i) /\ Unjudged(Begins.s)
  BY <1>0, ScanOpens
<1>3. RowDone(segs', broder', begin_flag') /\ begin_flag' \in {0, 1}
  <2>1. CASE InLost(Begins.s, Begins.b)
    BY <1>1, <1>2, <2>1, LostRow
  <2>2. ASSUME NEW beyond \in Distances, InLine(Begins.s, Begins.b, beyond)
        PROVE  RowDone(segs', broder', begin_flag') /\ begin_flag' \in {0, 1}
    BY <1>1, <1>2, <2>2, LineRow
  <2> QED
    BY <2>1, <2>2 DEF Scan
<1>4. Cut(segs', broder', i - 1) /\ Unjudged(segs') /\ i' \in Rows
  <2>1. i - 1 \in Rows
    BY <1>1, RowFacts
  <2> QED
    BY <1>0, <1>3, <2>1 DEF RowDone, Open, Closing
<1>5. TypeOK'
  BY <1>0, <1>3, <1>4 DEF TypeOK, Cut, Broders, Segs
<1>6. Scanning'
  <2>1. SUFFICES ASSUME pc' = "scan" PROVE Scanning'
    BY DEF Scanning
  <2>2. i' >= 1 /\ i' < imgRow - 1
    BY <1>0, <1>1, <2>1, RowFacts
  <2>3. segs' # <<>>
    BY <1>4 DEF Cut
  <2>4. begin_flag' = 0 => Open(segs', broder', i')
    BY <1>0, <1>3 DEF RowDone
  <2>5. begin_flag' = 1 => Closing(segs', broder', i')
    BY <1>0, <1>3 DEF RowDone
  <2>6. Unjudged(segs')
    BY <1>4
  <2> QED
    BY <2>2, <2>3, <2>4, <2>5, <2>6 DEF Scanning, Unjudged
<1>7. Scanned'
  <2>1. SUFFICES ASSUME pc' # "scan" PROVE Scanned'
    BY DEF Scanned
  <2>2. i = 1 /\ pc' = "merge"
    BY <1>0, <2>1
  <2>3. Open(segs', broder', 0)
    BY <1>1, <1>3, <2>2 DEF RowDone
  <2>4. Len(segs') > 1 => segs'[Len(segs')].begin >= 2
    <3>1. Len(segs') > 1 => Begun(segs'[Len(segs')], broder')
      BY <2>3 DEF Open
    <3>2. segs'[Len(segs')].begin \in Int
      BY <1>4, SegFacts DEF Cut
    <3> QED
      BY <3>1, <3>2 DEF Begun
  <2>5. Parted(segs', broder', 0)
    BY <2>3, <2>4 DEF Parted, Open
  <2>6. Unjudged(segs')
    BY <1>4
  <2> QED
    BY <2>2, <2>5, <2>6 DEF Scanned, Unjudged, Parted
<1> QED
  BY <1>5, <1>6, <1>7
-----------------------------------------------------------------------------
(* The segments and the changes of the border.                             *)

\* There are finitely many changes, one more or none in each row.
LEMMA CountIs ==
  ASSUME NEW b, NEW r \in Nat
  PROVE  /\ Count(b, r) \in Nat
         /\ r = 0 => Count(b, r) = 0
         /\ r >= 1 => Count(b, r) = Count(b, r - 1)
                                     + IF Lost(b[r]) <=> Lost(b[r - 1]) THEN 0 ELSE 1
<1>1. ASSUME NEW n \in Nat PROVE IsFiniteSet(Changes(b, n)) /\ Count(b, n) \in Nat
  <2>1. IsFiniteSet(1 .. n) /\ Changes(b, n) \in SUBSET (1 .. n)
    BY FS_Interval DEF Changes
  <2> QED
    BY <2>1, FS_Subset, FS_CardinalityType DEF Count
<1>2. CASE r = 0
  <2>1. Changes(b, r) = {}
    BY <1>2 DEF Changes
  <2> QED
    BY <1>1, <1>2, <2>1, FS_EmptySet DEF Count
<1>3. CASE r >= 1
  <2>1. r - 1 \in Nat /\ r \notin Changes(b, r - 1)
    BY <1>3 DEF Changes
  <2>2. \A q : q \in 1 .. r <=> q \in 1 .. r - 1 \/ q = r
    BY <1>3
  <2>3. CASE Lost(b[r]) <=> Lost(b[r - 1])
    <3>1. Changes(b, r) = Changes(b, r - 1)
      BY <2>2, <2>3 DEF Changes, Lost
    <3> QED
      BY <1>1, <1>3, <2>1, <2>3, <3>1 DEF Count
  <2>4. CASE ~(Lost(b[r]) <=> Lost(b[r - 1]))
    <3>1. Changes(b, r) = Changes(b, r - 1) \cup {r}
      BY <2>2, <2>4 DEF Changes
    <3>2. Cardinality(Changes(b, r)) = Cardinality(Changes(b, r - 1)) + 1
      BY <1>1, <2>1, <3>1, FS_AddElement
    <3> QED
      BY <1>1, <1>3, <2>4, <3>2 DEF Count
  <2> QED
    BY <2>3, <2>4
<1> QED
  BY <1>2, <1>3

\* Rows that say the same have the same changes.
LEMMA CountSame ==
  ASSUME NEW b, NEW b2, NEW r \in Nat, \A q \in 0 .. r : Lost(b2[q]) <=> Lost(b[q])
  PROVE  Count(b2, r) = Count(b, r)
<1>1. \A q \in 1 .. r : q \in 0 .. r /\ q - 1 \in 0 .. r
  OBVIOUS
<1>2. \A q \in 1 .. r : (Lost(b2[q]) # Lost(b2[q - 1])) <=> (Lost(b[q]) # Lost(b[q - 1]))
  BY <1>1 DEF Lost
<1>3. Changes(b2, r) = Changes(b, r)
  BY <1>2 DEF Changes
<1> QED
  BY <1>3 DEF Count

\* A third row that is marked as lost behind two lost ones takes changes away.
LEMMA CountMarked ==
  ASSUME NEW b \in Broders, NEW r \in Rows, r >= 2, Lost(b[r]), Lost(b[r - 1])
  PROVE  Count(LoseRows(b, {r, r - 1, r - 2}), r) <= Count(b, r)
<1> DEFINE b2 == LoseRows(b, {r, r - 1, r - 2})
<1>1. r \in Nat /\ r \in Int /\ r - 1 \in Nat /\ r - 2 \in Nat /\ r - 1 \in Rows /\ r - 2 \in Rows
  BY RowFacts
<1>2. \A q \in Rows : b2[q] = IF q \in {r, r - 1, r - 2} THEN 0 ELSE b[q]
  BY Marked
<1>3. Lost(b2[r]) /\ Lost(b2[r - 1]) /\ Lost(b2[r - 2])
  BY <1>1, <1>2 DEF Lost
<1> HIDE DEF b2
<1>4. r - 1 - 1 = r - 2 /\ r - 2 - 1 = r - 3 /\ r - 1 >= 1 /\ r >= 1
  BY <1>1
<1>5. /\ Count(b, r) = Count(b, r - 1)
      /\ Count(b, r - 1) = Count(b, r - 2) + IF Lost(b[r - 2]) THEN 0 ELSE 1
      /\ Count(b, r - 2) \in Nat /\ Count(b, r - 1) \in Nat
  <2>1. Count(b, r) = Count(b, r - 1) + 0 /\ Count(b, r - 1) \in Nat /\ Count(b, r - 2) \in Nat
    BY <1>1, <1>4, CountIs
  <2>2. Count(b, r - 1) = Count(b, r - 2) + IF Lost(b[r - 1]) <=> Lost(b[r - 2]) THEN 0 ELSE 1
    BY <1>1, <1>4, CountIs
  <2> QED
    BY <2>1, <2>2
<1>6. /\ Count(b2, r) = Count(b2, r - 2)
      /\ Count(b2, r - 2) \in Nat
  <2>1. Count(b2, r) = Count(b2, r - 1) + 0 /\ Count(b2, r - 1) \in Nat /\ Count(b2, r - 2) \in Nat
    BY <1>1, <1>3, <1>4, CountIs
  <2>2. Count(b2, r - 1) = Count(b2, r - 2) + 0
    BY <1>1, <1>3, <1>4, CountIs
  <2> QED
    BY <2>1, <2>2
<1>7. Count(b2, r - 2) <= Count(b, r - 2) + IF Lost(b[r - 2]) THEN 0 ELSE 1
  <2>1. CASE r = 2
    <3>1. Count(b2, r - 2) = 0
      BY <1>1, <2>1, CountIs
    <3> QED
      BY <1>5, <3>1
  <2>2. CASE r >= 3
    <3>1. r - 3 \in Nat /\ r - 2 >= 1
      BY <1>1, <2>2
    <3>2. ASSUME NEW q \in 0 .. r - 3 PROVE Lost(b2[q]) <=> Lost(b[q])
      <4>1. q \in Rows /\ q \notin {r, r - 1, r - 2}
        BY <1>1, RowFacts
      <4> QED
        BY <1>2, <4>1
    <3>3. Count(b2, r - 3) = Count(b, r - 3) /\ Count(b, r - 3) \in Nat
      BY <3>1, <3>2, CountSame, CountIs
    <3>4. /\ Count(b, r - 2) = Count(b, r - 3)
                               + IF Lost(b[r - 2]) <=> Lost(b[r - 3]) THEN 0 ELSE 1
          /\ Count(b2, r - 2) = Count(b2, r - 3)
                                + IF Lost(b2[r - 2]) <=> Lost(b2[r - 3]) THEN 0 ELSE 1
      BY <1>1, <1>4, <3>1, CountIs
    <3>5. Lost(b2[r - 3]) <=> Lost(b[r - 3])
      <4>1. r - 3 \in 0 .. r - 3
        BY <3>1
      <4> QED
        BY <3>2, <4>1
    <3> QED
      BY <1>3, <3>3, <3>4, <3>5
  <2> QED
    BY <1>1, <2>1, <2>2
<1> QED
  BY <1>5, <1>6, <1>7 DEF b2

\* A segment that begins is paid for by the change that ended the last one.
LEMMA BeginCounts ==
  ASSUME TypeOK, Scanning, Counting, pc = "scan"
  PROVE  FewOpen(Begins.s, Begins.b, i)
<1>0. /\ i \in Rows /\ i \in Int /\ i \in Nat /\ i >= 1 /\ i + 1 \in Nat /\ i + 1 >= 1 /\ i + 1 - 1 = i
      /\ broder \in Broders /\ breaks \in Nat
  BY RowFacts DEF TypeOK, Scanning, Broders
<1>1. Count(Begins.b, i) <= Count(broder, i) /\ Count(Begins.b, i) \in Nat /\ Count(broder, i) \in Nat
  <2>1. CASE begin_flag = 1 /\ BeginsLost
    <3>1. i >= 2 /\ StartsLost(broder[i]) /\ StartsLost(broder[i - 1])
      BY <2>1 DEF BeginsLost
    <3>2. i - 1 \in Rows /\ broder[i] \in Int /\ broder[i - 1] \in Int
      BY <1>0, <3>1, RowFacts, BroderFacts
    <3>3. Lost(broder[i]) /\ Lost(broder[i - 1])
      BY <3>1, <3>2 DEF StartsLost, Lost
    <3>4. Begins.b = LoseRows(broder, {i, i - 1, i - 2})
      BY <2>1, BeginsIs
    <3> QED
      BY <1>0, <3>1, <3>3, <3>4, CountMarked, CountIs
  <2>2. CASE ~(begin_flag = 1 /\ BeginsLost)
    <3>1. Begins.b = broder
      BY <2>2, BeginsIs DEF TypeOK
    <3> QED
      BY <1>0, <3>1, CountIs
  <2> QED
    BY <2>1, <2>2
<1>2. CASE segs = <<>>
  <2>1. i = imgRow - 1 /\ begin_flag = 1 /\ Count(broder, i) <= breaks
    BY <1>2 DEF Scanning, Counting
  <2>2. Len(Begins.s) = 1
    <3>1. Begins.s = Append(<<>>, NewSeg(BeginsLost))
      BY <1>2, <2>1, BeginsIs
    <3>2. <<>> \in Seq(Segs) /\ Len(<<>>) = 0 /\ NewSeg(BeginsLost) \in Segs
      BY EmptySeq, BeginsIs
    <3> QED
      BY <3>1, <3>2, AppendProperties
  <2> QED
    BY <1>0, <1>1, <2>1, <2>2 DEF FewOpen
<1>3. CASE segs # <<>> /\ begin_flag = 0
  BY <1>3, BeginsIs DEF Counting
<1>4. CASE segs # <<>> /\ begin_flag = 1
  <2> DEFINE n == Len(segs)
             s == NewSeg(BeginsLost)
             t == Append(segs, s)
  <2>1. /\ Closing(segs, broder, i) /\ i < imgRow - 1
        /\ n - 1 + Count(broder, i + 1) <= breaks
    BY <1>4 DEF Scanning, Counting, FewClosed
  <2>2. segs \in Seq(Segs) /\ n \in Nat /\ n >= 1
    BY <1>4, <2>1, SegFacts DEF Closing, Cut
  <2>3. /\ s \in Segs /\ Begins.s = t /\ (IsLine(s) <=> ~BeginsLost)
        /\ Begins.b = IF BeginsLost THEN LoseRows(broder, {i, i - 1, i - 2}) ELSE broder
    BY <1>4, BeginsIs DEF IsLine, NewSeg
  <2>4. Len(t) = n + 1 /\ t[n + 1] = s
    BY <2>2, <2>3, AppendProperties
  <2>5. Count(broder, i) <= Count(broder, i + 1) /\ Count(broder, i + 1) \in Nat
    BY <1>0, <1>1, CountIs
  <2>6. ASSUME i >= 2 PROVE Against(s, Begins.b, i) = 0
    <3>1. CASE ~IsLine(segs[n])
      <4>1. \A r \in i - 2 .. i + 1 : ~Lost(broder[r])
        BY <2>1, <3>1 DEF Closing, Ended
      <4>2. ~Lost(broder[i]) /\ broder[i] \in Int
        BY <1>0, <4>1, BroderFacts
      <4>3. ~BeginsLost
        BY <4>2 DEF BeginsLost, StartsLost, Lost
      <4> QED
        BY <2>3, <4>2, <4>3 DEF Against
    <3>2. CASE IsLine(segs[n])
      <4>1. \A r \in i - 1 .. i + 1 : broder[r] = 0
        BY <2>1, <3>2 DEF Closing, Ended
      <4>2. broder[i] = 0 /\ broder[i - 1] = 0
        BY <1>0, <4>1
      <4>3. BeginsLost
        BY <2>6, <4>2 DEF BeginsLost, StartsLost
      <4>4. Begins.b[i] = 0
        BY <1>0, <2>3, <4>3, Marked
      <4>5. ~IsLine(s)
        BY <2>3, <4>3
      <4>6. Lost(Begins.b[i])
        BY <4>4 DEF Lost
      <4> HIDE DEF s
      <4> QED
        BY <4>5, <4>6 DEF Against, IsLine
    <3> QED
      BY <3>1, <3>2
  <2> HIDE DEF n, s, t
  <2>7. (IF i >= 2 THEN Against(s, Begins.b, i) ELSE 0) = 0
    BY <2>6
  <2>8. n - 1 + Count(Begins.b, i) <= breaks
    BY <1>0, <1>1, <2>1, <2>2, <2>5
  <2>9. n + 1 # 1 /\ n + 1 - 2 = n - 1
    BY <2>2
  <2>10. n + 1 - 2 + Count(Begins.b, i) + (IF i >= 2 THEN Against(s, Begins.b, i) ELSE 0) <= breaks
    BY <1>1, <2>2, <2>7, <2>8, <2>9
  <2>11. Len(Begins.s) = n + 1 /\ Begins.s[Len(Begins.s)] = s
    BY <2>3, <2>4
  <2> DEFINE u == Begins.s
             v == Begins.b
  <2>12. /\ Len(u) # 1
         /\ Len(u) - 2 + Count(v, i) + (IF i >= 2 THEN Against(u[Len(u)], v, i) ELSE 0) <= breaks
    <3>1. Len(u) = n + 1 /\ u[Len(u)] = s /\ Len(u) # 1
      BY <2>9, <2>11
    <3>2. n + 1 - 2 + Count(v, i) + (IF i >= 2 THEN Against(s, v, i) ELSE 0) <= breaks
      BY <2>10
    <3> HIDE DEF u, v
    <3>3. Len(u) - 2 = n + 1 - 2
      BY <2>2, <3>1
    <3>4. Against(u[Len(u)], v, i) = Against(s, v, i)
      BY <3>1, Zenon
    <3> QED
      BY <3>1, <3>2, <3>3, <3>4
  <2> HIDE DEF u, v
  <2>13. FewOpen(u, v, i)
    BY <2>12 DEF FewOpen
  <2> QED
    BY <2>13 DEF u, v
<1> QED
  BY <1>2, <1>3, <1>4 DEF TypeOK

\* A segment ends at a row that says the contrary, and the rows below are as seen.
LEMMA RowCounts ==
  ASSUME i \in Rows, i >= 1, breaks \in Nat, NEW sg, NEW b, Open(sg, b, i), FewOpen(sg, b, i),
         InLost(sg, b) \/ \E beyond \in Distances : InLine(sg, b, beyond)
  PROVE  /\ Len(segs') = Len(sg)
         /\ begin_flag' = 0 => FewOpen(segs', broder', i - 1)
         /\ begin_flag' = 1 => FewClosed(segs', broder', i - 1) /\ i >= 2
<1> DEFINE n == Len(sg)
           s == sg[n]
<1>0. /\ i \in Int /\ i \in Nat /\ i - 1 \in Nat /\ i < imgRow /\ i - 1 \in Rows /\ i - 1 + 1 = i
      /\ b \in Broders
  BY RowFacts DEF Open, Cut
<1>1. sg \in Seq(Segs) /\ sg # <<>> /\ n \in Nat /\ n >= 1
  BY SegFacts DEF Open, Cut
<1>2. /\ Count(b, i) \in Nat /\ Count(b, i - 1) \in Nat
      /\ Count(b, i) = Count(b, i - 1) + IF Lost(b[i]) <=> Lost(b[i - 1]) THEN 0 ELSE 1
  BY <1>0, CountIs
<1>3. CASE begin_flag' = 1
  <2>1. /\ segs' = Closed(sg) /\ i >= 2 /\ (IsLine(s) <=> Lost(b[i]))
        /\ \A r \in 0 .. i : Lost(broder'[r]) <=> Lost(b[r])
    <3>1. CASE InLost(sg, b)
      <4>1. EndsLost(b) /\ segs' = Closed(sg) /\ broder' = b /\ ~IsLine(s)
        BY <1>3, <3>1 DEF InLost, IsLine
      <4>2. i >= 3 /\ ~Lost(b[i])
        <5>1. i >= 3 /\ \A k \in 0 .. 3 : ~Lost(b[i - k])
          BY <4>1 DEF EndsLost
        <5>2. 0 \in 0 .. 3 /\ i - 0 = i
          BY <1>0
        <5> QED
          BY <5>1, <5>2
      <4>3. i >= 2
        BY <1>0, <4>2
      <4>4. IsLine(s) <=> Lost(b[i])
        BY <4>1, <4>2, Zenon
      <4>5. \A r \in 0 .. i : Lost(broder'[r]) <=> Lost(b[r])
        BY <4>1, Zenon
      <4> QED
        BY <4>1, <4>3, <4>4, <4>5, Zenon
    <3>2. ASSUME NEW beyond \in Distances, InLine(sg, b, beyond)
          PROVE  /\ segs' = Closed(sg) /\ i >= 2 /\ (IsLine(s) <=> Lost(b[i]))
                 /\ \A r \in 0 .. i : Lost(broder'[r]) <=> Lost(b[r])
      <4>1. EndsLine(b) /\ segs' = Closed(sg) /\ IsLine(s)
        BY <1>3, <3>2 DEF InLine, IsLine
      <4>2. i >= 2 /\ \A k \in 0 .. 2 : Lost(b[i - k])
        BY <4>1 DEF EndsLine
      <4>3. Lost(b[i]) /\ Lost(b[i - 1]) /\ Lost(b[i - 2])
        <5>1. 0 \in 0 .. 2 /\ 1 \in 0 .. 2 /\ 2 \in 0 .. 2 /\ i - 0 = i
          BY <1>0
        <5> QED
          BY <4>2, <5>1
      <4>4. broder' = LoseRows(b, {i, i - 1, i - 2})
        BY <1>0, <3>2, <4>1, <4>2 DEF InLine
      <4>5. ASSUME NEW r \in 0 .. i PROVE Lost(broder'[r]) <=> Lost(b[r])
        <5>1. broder'[r] = IF r \in {i, i - 1, i - 2} THEN 0 ELSE b[r]
          <6>1. r \in Rows
            BY <1>0, RowFacts
          <6> QED
            BY <1>0, <4>4, <6>1, Marked
        <5>2. r \in {i, i - 1, i - 2} => Lost(b[r])
          BY <4>3
        <5> QED
          BY <5>1, <5>2 DEF Lost
      <4> QED
        BY <4>1, <4>2, <4>3, <4>5
    <3> QED
      BY <3>1, <3>2
  <2>2. Len(segs') = n
    BY <1>1, <2>1, ClosedIs
  <2>3. Count(broder', i) = Count(b, i)
    BY <1>0, <2>1, CountSame
  <2>4. n - 1 + Count(b, i) <= breaks
    <3>1. CASE n = 1
      BY <1>2, <3>1 DEF FewOpen
    <3>2. CASE n # 1
      <4>1. n - 2 + Count(b, i) + (IF i >= 2 THEN Against(s, b, i) ELSE 0) <= breaks
        BY <3>2 DEF FewOpen
      <4>2. (IF i >= 2 THEN Against(s, b, i) ELSE 0) = 1
        BY <2>1 DEF Against
      <4> HIDE DEF n, s
      <4> QED
        BY <1>1, <1>2, <4>1, <4>2
    <3> QED
      BY <3>1, <3>2
  <2> QED
    BY <1>0, <1>3, <2>1, <2>2, <2>3, <2>4 DEF FewClosed
<1>4. CASE begin_flag' = 0
  <2>1. segs' = sg /\ \A r \in Rows : r < i => broder'[r] = b[r]
    <3>1. CASE InLost(sg, b)
      <4>1. segs' = sg /\ broder' = IF i < 3 THEN b ELSE LoseRows(b, {i})
        BY <1>4, <3>1 DEF InLost
      <4>2. \A r \in Rows : r < i => r \notin {i}
        BY <1>0
      <4> QED
        BY <1>0, <4>1, <4>2, Marked
    <3>2. ASSUME NEW beyond \in Distances, InLine(sg, b, beyond)
          PROVE  segs' = sg /\ \A r \in Rows : r < i => broder'[r] = b[r]
      <4>1. segs' = sg /\ (broder' = b \/ broder' = [b EXCEPT ![i] = Below(b, beyond)])
        BY <1>4, <3>2 DEF InLine
      <4> QED
        BY <1>0, <4>1 DEF Broders
    <3> QED
      BY <3>1, <3>2
  <2>2. \A r \in 0 .. i - 1 : r \in Rows /\ r < i
    BY <1>0, RowFacts
  <2>3. Count(broder', i - 1) = Count(b, i - 1)
    BY <1>0, <2>1, <2>2, CountSame
  <2>4. Against(s, broder', i - 1) = Against(s, b, i - 1)
    BY <1>0, <2>1 DEF Against
  <2>5. CASE n = 1
    <3>1. Count(b, i) <= breaks
      BY <2>5 DEF FewOpen
    <3>2. Count(broder', i - 1) <= breaks
      BY <1>2, <2>3, <3>1
    <3> HIDE DEF s
    <3> QED
      BY <1>4, <2>1, <2>5, <3>2 DEF FewOpen
  <2>6. CASE n # 1
    <3>1. n - 2 + Count(b, i) + (IF i >= 2 THEN Against(s, b, i) ELSE 0) <= breaks
      BY <2>6 DEF FewOpen
    <3>2. /\ Against(s, b, i) \in 0 .. 1 /\ Against(s, b, i - 1) \in 0 .. 1
          /\ Against(s, b, i - 1) <= Against(s, b, i)
                                      + IF Lost(b[i]) <=> Lost(b[i - 1]) THEN 0 ELSE 1
      BY DEF Against
    <3> HIDE DEF n, s
    <3>3. CASE i - 1 >= 2
      <4>1. i >= 2
        BY <1>0, <3>3
      <4>2. n - 2 + Count(b, i - 1) + Against(s, b, i - 1) <= breaks
        BY <1>1, <1>2, <3>1, <3>2, <4>1
      <4> QED
        BY <1>4, <2>1, <2>3, <2>4, <2>6, <3>3, <4>2 DEF FewOpen, n, s
    <3>4. CASE ~(i - 1 >= 2)
      <4>1. n - 2 + Count(b, i - 1) + 0 <= breaks
        BY <1>1, <1>2, <3>1, <3>2
      <4> QED
        BY <1>4, <2>1, <2>3, <2>6, <3>4, <4>1 DEF FewOpen, n
    <3> QED
      BY <3>3, <3>4
  <2> QED
    BY <1>4, <2>1, <2>5, <2>6
<1>5. begin_flag' = 0 \/ begin_flag' = 1
  BY DEF InLost, InLine
<1> QED
  BY <1>3, <1>4, <1>5

\* Cutting a row keeps the number of segments within the changes of the border.
LEMMA ScanCounts ==
  ASSUME TypeOK, Scanning, Counting, Scan, Scanning', Scanned'
  PROVE  Counting'
<1>0. /\ pc = "scan" /\ i' = i - 1 /\ breaks' = breaks /\ breaks \in Nat
      /\ pc' = IF i = 1 THEN "merge" ELSE "scan"
  BY DEF Scan, TypeOK
<1>1. i \in Rows /\ i \in Int /\ i >= 1
  BY <1>0, RowFacts DEF TypeOK, Scanning
<1>2. Open(Begins.s, Begins.b, i)
  BY <1>0, ScanOpens
<1>3. FewOpen(Begins.s, Begins.b, i)
  BY <1>0, BeginCounts
<1>4. /\ Len(segs') = Len(Begins.s)
      /\ begin_flag' = 0 => FewOpen(segs', broder', i - 1)
      /\ begin_flag' = 1 => FewClosed(segs', broder', i - 1) /\ i >= 2
  BY <1>0, <1>1, <1>2, <1>3, RowCounts DEF Scan
<1>5. begin_flag' = 0 \/ begin_flag' = 1
  BY DEF Scan, InLost, InLine
<1>6. CASE i # 1
  <2>1. pc' = "scan" /\ segs' # <<>>
    <3>1. i' # imgRow - 1
      BY <1>0, <1>1, RowFacts
    <3> QED
      BY <1>0, <1>6, <3>1 DEF Scanning
  <2>2. begin_flag' = 0 => FewOpen(segs, broder, i)'
    BY <1>0, <1>4 DEF FewOpen, Count, Changes, Against, IsLine, Lost
  <2>3. begin_flag' = 1 => FewClosed(segs, broder, i)'
    BY <1>0, <1>4 DEF FewClosed, Count, Changes, Lost
  <2> QED
    BY <2>1, <2>2, <2>3 DEF Counting
<1>7. CASE i = 1
  <2>1. pc' = "merge" /\ begin_flag' = 0 /\ FewOpen(segs', broder', 0)
    BY <1>0, <1>4, <1>5, <1>7
  <2>2. Len(segs') \in Nat /\ Count(broder', 0) = 0
    <3>1. Len(Begins.s) \in Nat
      BY <1>2, SegFacts DEF Open, Cut
    <3> QED
      BY <1>4, <3>1, CountIs
  <2>3. Len(segs') <= breaks + 2
    <3>1. CASE Len(segs') = 1
      BY <1>0, <3>1
    <3>2. CASE Len(segs') # 1
      BY <1>0, <2>1, <2>2, <3>2 DEF FewOpen
    <3> QED
      BY <3>1, <3>2
  <2> QED
    BY <1>0, <2>1, <2>3 DEF Counting
<1> QED
  BY <1>6, <1>7
-----------------------------------------------------------------------------
(* The first two segments are merged.                                      *)

\* The first segment with the end and the kind of the second, and the others.
LEMMA MergedIs ==
  ASSUME NEW sg \in Seq(Segs), Len(sg) >= 2
  PROVE  /\ Merged(sg) \in Seq(Segs) /\ Len(Merged(sg)) = Len(sg) - 1
         /\ Merged(sg)[1].begin = sg[1].begin /\ Merged(sg)[1].end = sg[2].end
         /\ Merged(sg)[1].type = sg[2].type
         /\ \A k \in 2 .. Len(sg) - 1 : Merged(sg)[k] = sg[k + 1]
<1> DEFINE first == [begin |-> sg[1].begin, end |-> sg[2].end, type |-> sg[2].type]
           rest == SubSeq(sg, 3, Len(sg))
           n == Len(sg)
<1>1. n \in Nat /\ n >= 2 /\ 1 \in 1 .. n /\ 2 \in 1 .. n
  BY SegFacts
<1>2. sg[1] \in Segs /\ sg[2] \in Segs
  BY <1>1, SegFacts
<1>3. first \in Segs
  BY <1>2 DEF Segs
<1>4. Merged(sg) = <<first>> \o rest
  BY <1>2 DEF Merged, Segs
<1> HIDE DEF first
<1>5. <<first>> \in Seq(Segs) /\ Len(<<first>>) = 1 /\ <<first>>[1] = first
  BY <1>3
<1>6. /\ rest \in Seq(Segs)
      /\ Len(rest) = IF 3 <= n THEN n - 2 ELSE 0
      /\ \A k \in 1 .. n - 2 : rest[k] = sg[k + 2]
  <2>1. \A k \in 3 .. n : sg[k] \in Segs
    BY <1>1, SegFacts
  <2>2. /\ rest \in Seq(Segs) /\ Len(rest) = IF 3 <= n THEN n - 3 + 1 ELSE 0
        /\ \A k \in 1 .. n - 3 + 1 : rest[k] = sg[3 + k - 1]
    <3> HIDE DEF n
    <3>1. n \in Int /\ 3 \in Int
      BY <1>1
    <3> QED
      BY <2>1, <3>1, SubSeqProperties DEF n
  <2> HIDE DEF rest, n
  <2>3. \A k \in 1 .. n - 2 : 3 + k - 1 = k + 2 /\ k \in 1 .. n - 3 + 1
    BY <1>1
  <2> QED
    BY <1>1, <2>2, <2>3
<1>7. Len(rest) = n - 2
  <2> HIDE DEF rest, n
  <2>1. CASE 3 <= n
    BY <1>6, <2>1
  <2>2. CASE ~(3 <= n)
    BY <1>1, <1>6, <2>2
  <2> QED
    BY <2>1, <2>2
<1> HIDE DEF rest
<1>8. /\ Merged(sg) \in Seq(Segs) /\ Len(Merged(sg)) = 1 + Len(rest)
      /\ \A k \in 1 .. 1 + Len(rest) :
           Merged(sg)[k] = IF k <= 1 THEN <<first>>[k] ELSE rest[k - 1]
  BY <1>4, <1>5, <1>6, ConcatProperties
<1>9. Merged(sg)[1] = first
  <2>1. 1 \in 1 .. 1 + Len(rest)
    BY <1>1, <1>7
  <2> QED
    BY <1>5, <1>8, <2>1
<1>10. ASSUME NEW k \in 2 .. n - 1 PROVE Merged(sg)[k] = sg[k + 1]
  <2>1. k \in 1 .. 1 + Len(rest) /\ ~(k <= 1) /\ k - 1 \in 1 .. n - 2 /\ k - 1 + 2 = k + 1
    BY <1>1, <1>7
  <2> QED
    BY <1>6, <1>8, <2>1
<1>11. Len(Merged(sg)) = n - 1
  BY <1>1, <1>7, <1>8
<1> QED
  BY <1>8, <1>9, <1>10, <1>11 DEF first

\* A border that is cut: behind the first segment no one is shorter than three
\* rows, and the last one ends at the far edge.
LEMMA PartedFacts ==
  ASSUME NEW sg, NEW b, NEW low, Parted(sg, b, low)
  PROVE  /\ sg \in Seq(Segs) /\ b \in Broders /\ Len(sg) \in Nat /\ Len(sg) >= 1
         /\ sg[1].begin = imgRow - 1 /\ sg[Len(sg)].end = 0
         /\ \A k \in 1 .. Len(sg) :
              /\ sg[k] \in Segs /\ sg[k].begin \in Int /\ sg[k].end \in Int
              /\ sg[k].begin < imgRow /\ 0 <= sg[k].end
         /\ \A k \in 2 .. Len(sg) : sg[k].begin - sg[k].end >= 2
<1> DEFINE n == Len(sg)
<1>1. /\ sg \in Seq(Segs) /\ b \in Broders /\ n \in Nat /\ n >= 1
      /\ sg[1].begin = imgRow - 1 /\ sg[n].end = 0
  BY SegFacts DEF Parted, Cut, Chained
<1>2. \A k \in 1 .. n : /\ sg[k] \in Segs /\ sg[k].begin \in Int /\ sg[k].end \in Int
                        /\ sg[k].begin < imgRow /\ 0 <= sg[k].end
  BY <1>1, SegFacts
<1>3. /\ \A k \in 2 .. n - 1 : sg[k].begin - sg[k].end >= 3
      /\ n > 1 => sg[n].begin >= 2
  BY DEF Parted, Cut, Tall
<1> HIDE DEF n
<1>4. ASSUME NEW k \in 2 .. n PROVE sg[k].begin - sg[k].end >= 2
  <2>1. k \in 1 .. n /\ n > 1
    BY <1>1
  <2>2. CASE k = n
    BY <1>1, <1>2, <1>3, <2>1, <2>2
  <2>3. CASE k # n
    <3>1. k \in 2 .. n - 1
      BY <1>1, <2>3
    <3> QED
      BY <1>2, <1>3, <2>1, <3>1
  <2> QED
    BY <2>2, <2>3
<1> QED
  BY <1>1, <1>2, <1>4 DEF n

\* Two segments as one: the border is still cut.
LEMMA MergedParted ==
  ASSUME NEW sg, NEW b, Parted(sg, b, 0), Len(sg) >= 2,
         NEW b2 \in Broders,
         \A r \in Rows : ~(r \in sg[1].end .. sg[1].begin) => b2[r] = b[r]
  PROVE  Parted(Merged(sg), b2, 0) /\ Merged(sg)[1].begin - Merged(sg)[1].end >= 1
<1> DEFINE n == Len(sg)
           t == Merged(sg)
<1>1. /\ sg \in Seq(Segs) /\ b \in Broders /\ n \in Nat /\ n >= 2
      /\ sg[1].begin = imgRow - 1 /\ sg[n].end = 0
      /\ \A k \in 1 .. n : /\ sg[k] \in Segs /\ sg[k].begin \in Int /\ sg[k].end \in Int
                           /\ sg[k].begin < imgRow /\ 0 <= sg[k].end
      /\ \A k \in 2 .. n : sg[k].begin - sg[k].end >= 2
  BY PartedFacts
<1>2. /\ t \in Seq(Segs) /\ Len(t) = n - 1
      /\ t[1].begin = imgRow - 1 /\ t[1].end = sg[2].end /\ t[1].type = sg[2].type
      /\ \A k \in 2 .. n - 1 : t[k] = sg[k + 1]
  BY <1>1, MergedIs
<1>3. /\ \A k \in 1 .. n - 1 : sg[k + 1].begin = sg[k].end - 1
      /\ \A k \in 1 .. n : \A m \in 1 .. n : k < m => sg[m].begin < sg[k].end
      /\ \A k \in 2 .. n - 1 : sg[k].begin - sg[k].end >= 3
      /\ \A k \in 2 .. n : 4 * (k - 2) <= imgRow - 1 - sg[k].begin
      /\ \A k \in 1 .. n - 1 :
           \/ IsLine(sg[k]) # IsLine(sg[k + 1])
           \/ IsLine(sg[k]) /\ k + 1 = n /\ sg[k + 1].begin = 2
      /\ \A k \in 2 .. n : \A r \in sg[k].end .. sg[k].begin : r > 0 => RowAgrees(sg[k], b, r)
  BY DEF Parted, Cut, Chained, Ordered, Tall, Fits, Alternate, Agree
<1>4. n > 1 => sg[n].begin >= 2
  BY DEF Parted
<1> HIDE DEF n, t
<1>5. t # <<>>
  BY <1>1, <1>2, EmptySeq
<1>6. ASSUME NEW k \in 1 .. n - 1
      PROVE  /\ k + 1 \in 1 .. n /\ k + 1 \in 2 .. n /\ k + 1 \in Int
             /\ t[k].end = sg[k + 1].end /\ IsLine(t[k]) = IsLine(sg[k + 1])
             /\ k # 1 => t[k] = sg[k + 1]
  <2>1. CASE k = 1
    BY <1>1, <1>2, <2>1 DEF IsLine
  <2>2. CASE k # 1
    <3>1. k \in 2 .. n - 1
      BY <1>1, <2>2
    <3> QED
      BY <1>1, <1>2, <2>2, <3>1
  <2> QED
    BY <2>1, <2>2
<1>7. Chained(t)
  <2>1. ASSUME NEW k \in 1 .. n - 2 PROVE t[k + 1].begin = t[k].end - 1
    <3>1. k \in 1 .. n - 1 /\ k + 1 \in 1 .. n - 1 /\ k + 1 # 1 /\ k + 1 \in 2 .. n
      BY <1>1
    <3>2. t[k].end = sg[k + 1].end /\ t[k + 1] = sg[(k + 1) + 1]
      BY <1>6, <3>1
    <3>3. sg[(k + 1) + 1].begin = sg[k + 1].end - 1
      BY <1>3, <3>1
    <3> QED
      BY <3>2, <3>3
  <2>2. Len(t) - 1 = n - 2
    BY <1>1, <1>2
  <2> QED
    BY <1>2, <2>1, <2>2 DEF Chained
<1>8. Ordered(t)
  <2>1. ASSUME NEW k \in 1 .. n - 1, NEW m \in 1 .. n - 1, k < m PROVE t[m].begin < t[k].end
    <3>1. m # 1 /\ k + 1 < m + 1
      BY <1>1, <2>1
    <3>2. t[m] = sg[m + 1] /\ t[k].end = sg[k + 1].end /\ m + 1 \in 1 .. n /\ k + 1 \in 1 .. n
      BY <1>6, <3>1
    <3> QED
      BY <1>3, <3>1, <3>2
  <2> QED
    BY <1>2, <2>1 DEF Ordered
<1>9. Tall(t)
  <2>1. ASSUME NEW k \in 2 .. n - 2 PROVE t[k].begin - t[k].end >= 3
    <3>1. k \in 2 .. n - 1 /\ k + 1 \in 2 .. n - 1
      BY <1>1
    <3> QED
      BY <1>2, <1>3, <3>1
  <2> QED
    BY <1>1, <1>2, <2>1 DEF Tall
<1>10. Fits(t)
  <2>1. ASSUME NEW k \in 2 .. n - 1 PROVE 4 * (k - 2) <= imgRow - 1 - t[k].begin
    <3>1. k + 1 \in 2 .. n /\ t[k] = sg[k + 1] /\ k + 1 \in 1 .. n
      BY <1>1, <1>2
    <3>2. 4 * ((k + 1) - 2) <= imgRow - 1 - sg[k + 1].begin
      BY <1>3, <3>1
    <3>3. sg[k + 1].begin \in Int
      BY <1>1, <3>1
    <3> QED
      BY <3>1, <3>2, <3>3, RowFacts
  <2> QED
    BY <1>2, <2>1 DEF Fits
<1>11. Alternate(t)
  <2>1. ASSUME NEW k \in 1 .. n - 2
        PROVE  \/ IsLine(t[k]) # IsLine(t[k + 1])
               \/ IsLine(t[k]) /\ k + 1 = n - 1 /\ t[k + 1].begin = 2
    <3>1. k \in 1 .. n - 1 /\ k + 1 \in 1 .. n - 1 /\ k + 1 # 1
      BY <1>1
    <3>2. /\ IsLine(t[k]) = IsLine(sg[k + 1]) /\ IsLine(t[k + 1]) = IsLine(sg[(k + 1) + 1])
          /\ t[k + 1] = sg[(k + 1) + 1]
      BY <1>6, <3>1
    <3>3. \/ IsLine(sg[k + 1]) # IsLine(sg[(k + 1) + 1])
          \/ IsLine(sg[k + 1]) /\ (k + 1) + 1 = n /\ sg[(k + 1) + 1].begin = 2
      BY <1>3, <3>1
    <3>4. (k + 1) + 1 = n => k + 1 = n - 1
      BY <1>1
    <3> QED
      BY <3>2, <3>3, <3>4
  <2>2. Len(t) - 1 = n - 2
    BY <1>1, <1>2
  <2> QED
    BY <1>2, <2>1, <2>2 DEF Alternate
<1>12. Agree(t, b2, 0)
  <2>1. ASSUME NEW k \in 2 .. n - 1, NEW r \in t[k].end .. t[k].begin, r > 0
        PROVE  RowAgrees(t[k], b2, r)
    <3>1. t[k] = sg[k + 1] /\ k + 1 \in 2 .. n /\ k + 1 \in 1 .. n /\ 1 \in 1 .. n /\ 1 < k + 1
      BY <1>1, <1>2
    <3>2. RowAgrees(sg[k + 1], b, r)
      BY <1>3, <2>1, <3>1
    <3>3. sg[k + 1].begin < sg[1].end
      BY <1>3, <3>1
    <3>4. r \in Int /\ r <= sg[k + 1].begin /\ sg[k + 1].begin \in Int /\ sg[1].end \in Int
          /\ sg[k + 1].begin < imgRow
      BY <1>1, <2>1, <3>1
    <3>5. r \in Rows /\ ~(r \in sg[1].end .. sg[1].begin)
      BY <2>1, <3>3, <3>4, RowFacts
    <3>6. b2[r] = b[r]
      BY <3>5
    <3> QED
      BY <3>1, <3>2, <3>6 DEF RowAgrees
  <2> QED
    BY <1>2, <2>1 DEF Agree
<1>13. t[n - 1].end = 0 /\ (n - 1 > 1 => t[n - 1].begin >= 2)
  <2>1. n - 1 \in 1 .. n - 1 /\ (n - 1) + 1 = n
    <3>1. n \in Nat /\ n >= 2
      BY <1>1
    <3> QED
      BY <3>1
  <2>2. t[n - 1].end = sg[n].end /\ (n - 1 # 1 => t[n - 1] = sg[n])
    BY <1>6, <2>1
  <2> QED
    BY <1>1, <1>4, <2>1, <2>2
<1>14. t[1].begin - t[1].end >= 1
  <2>1. sg[2].begin - sg[2].end >= 2 /\ sg[2].begin < imgRow /\ sg[2].begin \in Int /\ sg[2].end \in Int
    BY <1>1
  <2> QED
    BY <1>2, <2>1, RowFacts
<1>15. Cut(t, b2, 0)
  BY <1>2, <1>5, <1>7, <1>8, <1>9, <1>10, <1>11, <1>12 DEF Cut
<1> QED
  BY <1>2, <1>13, <1>14, <1>15 DEF Parted, t

\* Merging, or leaving a long first segment as it is, keeps the invariant.
LEMMA MergeKeeps ==
  ASSUME TypeOK, Scanned, Merge, found = FALSE, found' = FALSE
  PROVE  TypeOK' /\ Scanning' /\ Scanned'
<1> DEFINE short == segs[1].begin - segs[1].end <= Short
<1>0. pc = "merge" /\ pc' = "judge" /\ UNCHANGED <<LorR, begin_flag, i, breaks>>
  BY DEF Merge
<1>1. Parted(segs, broder, 0) /\ Unjudged(segs)
  BY <1>0 DEF Scanned
<1>2. /\ segs \in Seq(Segs) /\ broder \in Broders /\ Len(segs) \in Nat /\ Len(segs) >= 1
      /\ segs[1].begin = imgRow - 1 /\ segs[Len(segs)].end = 0
      /\ \A k \in 1 .. Len(segs) :
           /\ segs[k] \in Segs /\ segs[k].begin \in Int /\ segs[k].end \in Int
           /\ segs[k].begin < imgRow /\ 0 <= segs[k].end
      /\ \A k \in 2 .. Len(segs) : segs[k].begin - segs[k].end >= 2
  BY <1>1, PartedFacts
<1>3. Parted(segs', broder', 0) /\ segs'[1].begin - segs'[1].end >= 1 /\ Unjudged(segs')
  <2>1. CASE short
    <3>1. /\ segs' = Merged(segs)
          /\ broder' = [r \in Rows |-> IF r \in segs[1].end .. segs[1].begin
                                       THEN broder[segs[2].end] ELSE broder[r]]
      BY <2>1 DEF Merge
    <3>2. Len(segs) >= 2
      <4>1. Len(segs) = 1 => segs[1].begin - segs[1].end = imgRow - 1
        BY <1>2, RowFacts
      <4> QED
        BY <1>2, <2>1, <4>1, RowFacts
    <3>3. segs[2].end \in Rows
      <4>1. 2 \in 1 .. Len(segs) /\ 2 \in 2 .. Len(segs)
        BY <1>2, <3>2
      <4>2. /\ segs[2].begin \in Int /\ segs[2].end \in Int /\ segs[2].begin < imgRow
            /\ 0 <= segs[2].end /\ segs[2].begin - segs[2].end >= 2
        BY <1>2, <4>1
      <4> QED
        BY <4>2, RowFacts
    <3>4. broder' \in Broders
      BY <1>2, <3>1, <3>3 DEF Broders
    <3>5. \A r \in Rows : ~(r \in segs[1].end .. segs[1].begin) => broder'[r] = broder[r]
      BY <3>1
    <3>6. Parted(Merged(segs), broder', 0) /\ Merged(segs)[1].begin - Merged(segs)[1].end >= 1
      BY <1>1, <3>2, <3>4, <3>5, MergedParted
    <3>7. Unjudged(Merged(segs))
      <4>1. /\ Len(Merged(segs)) = Len(segs) - 1 /\ Merged(segs)[1].type = segs[2].type
            /\ \A k \in 2 .. Len(segs) - 1 : Merged(segs)[k] = segs[k + 1]
        BY <1>2, <3>2, MergedIs
      <4>2. ASSUME NEW k \in 1 .. Len(segs) - 1 PROVE Merged(segs)[k].type = segs[k + 1].type
        <5>1. k = 1 \/ k \in 2 .. Len(segs) - 1
          BY <1>2
        <5> QED
          BY <4>1, <5>1
      <4>3. \A k \in 1 .. Len(segs) - 1 : k + 1 \in 1 .. Len(segs)
        BY <1>2
      <4> QED
        BY <1>1, <4>1, <4>2, <4>3 DEF Unjudged
    <3> QED
      BY <3>1, <3>6, <3>7
  <2>2. CASE ~short
    <3>1. segs' = segs /\ broder' = broder
      BY <2>2 DEF Merge
    <3>2. segs[1].begin \in Int /\ segs[1].end \in Int
      BY <1>2
    <3>3. segs[1].begin - segs[1].end >= 1
      BY <2>2, <3>2, RowFacts
    <3> QED
      BY <1>1, <3>1, <3>3
  <2> QED
    BY <2>1, <2>2
<1>4. segs' \in Seq(Segs) /\ broder' \in Broders
  BY <1>3 DEF Parted, Cut
<1>5. TypeOK'
  BY <1>0, <1>4 DEF TypeOK, Segs, Broders
<1>6. Scanning' /\ Scanned'
  BY <1>0, <1>3 DEF Scanning, Scanned, Parted, Unjudged
<1> QED
  BY <1>5, <1>6
-----------------------------------------------------------------------------
(* The lines are judged.                                                   *)

\* A segment may get another kind, as long as lines stay lines.
LEMMA Relabeled ==
  ASSUME NEW sg, NEW b, Parted(sg, b, 0),
         NEW t \in Seq(Segs), Len(t) = Len(sg),
         \A k \in 1 .. Len(sg) : /\ t[k].begin = sg[k].begin /\ t[k].end = sg[k].end
                                 /\ IsLine(t[k]) = IsLine(sg[k])
  PROVE  Parted(t, b, 0)
<1> DEFINE n == Len(sg)
<1>1. n \in Nat /\ n >= 1 /\ t # <<>>
  BY PartedFacts, EmptySeq
<1>2. /\ sg[1].begin = imgRow - 1
      /\ \A k \in 1 .. n - 1 : sg[k + 1].begin = sg[k].end - 1
      /\ \A k \in 1 .. n : \A m \in 1 .. n : k < m => sg[m].begin < sg[k].end
      /\ \A k \in 2 .. n - 1 : sg[k].begin - sg[k].end >= 3
      /\ \A k \in 2 .. n : 4 * (k - 2) <= imgRow - 1 - sg[k].begin
      /\ \A k \in 1 .. n - 1 :
           \/ IsLine(sg[k]) # IsLine(sg[k + 1])
           \/ IsLine(sg[k]) /\ k + 1 = n /\ sg[k + 1].begin = 2
      /\ \A k \in 2 .. n : \A r \in sg[k].end .. sg[k].begin : r > 0 => RowAgrees(sg[k], b, r)
      /\ b \in Broders /\ sg[n].end = 0 /\ (n > 1 => sg[n].begin >= 2)
  BY DEF Parted, Cut, Chained, Ordered, Tall, Fits, Alternate, Agree
<1>3. /\ Len(t) = n
      /\ \A k \in 1 .. n : /\ t[k].begin = sg[k].begin /\ t[k].end = sg[k].end
                           /\ IsLine(t[k]) = IsLine(sg[k])
  OBVIOUS
<1> HIDE DEF n
<1>4. /\ \A k \in 1 .. n - 1 : k \in 1 .. n /\ k + 1 \in 1 .. n
      /\ \A k \in 2 .. n : k \in 1 .. n
      /\ \A k \in 2 .. n - 1 : k \in 1 .. n
      /\ 1 \in 1 .. n /\ n \in 1 .. n
  BY <1>1
<1>5. Chained(t)
  BY <1>2, <1>3, <1>4 DEF Chained
<1>6. Ordered(t)
  BY <1>2, <1>3 DEF Ordered
<1>7. Tall(t)
  BY <1>2, <1>3, <1>4 DEF Tall
<1>8. Fits(t)
  BY <1>2, <1>3, <1>4 DEF Fits
<1>9. Alternate(t)
  BY <1>2, <1>3, <1>4 DEF Alternate
<1>10. Agree(t, b, 0)
  BY <1>2, <1>3, <1>4 DEF Agree, RowAgrees
<1> QED
  BY <1>1, <1>2, <1>3, <1>4, <1>5, <1>6, <1>7, <1>8, <1>9, <1>10 DEF Parted, Cut

\* Judging the lines keeps the invariant.
LEMMA JudgeKeeps ==
  ASSUME TypeOK, Scanned, Judge, found = FALSE, found' = FALSE
  PROVE  TypeOK' /\ Scanning' /\ Scanned'
<1> DEFINE n == Len(segs)
<1>0. pc = "judge" /\ pc' = "done" /\ UNCHANGED <<LorR, broder, begin_flag, i, breaks>>
  BY DEF Judge
<1>1. Parted(segs, broder, 0) /\ Unjudged(segs) /\ segs[1].begin - segs[1].end >= 1
  BY <1>0 DEF Scanned
<1>2. segs \in Seq(Segs) /\ n \in Nat /\ n >= 1 /\ \A k \in 1 .. n : segs[k] \in Segs
  BY <1>1, PartedFacts
<1>3. PICK bend \in [1 .. n -> Line_IsMonotonous] :
        segs' = [k \in 1 .. n |->
                   IF segs[k].type # "null" THEN segs[k]
                   ELSE [segs[k] EXCEPT !.type =
                           IF Line_IsStraight(segs[k].begin, segs[k].end)
                           THEN "straight" ELSE bend[k]]]
  BY DEF Judge
<1>4. ASSUME NEW k \in 1 .. n
      PROVE  /\ segs'[k] \in Segs
             /\ segs'[k].begin = segs[k].begin /\ segs'[k].end = segs[k].end
             /\ segs[k].type = "lose" => segs'[k].type = "lose"
             /\ segs[k].type = "null" => segs'[k].type \in {"straight", "corner", "arc"}
  <2> DEFINE ty == IF Line_IsStraight(segs[k].begin, segs[k].end) THEN "straight" ELSE bend[k]
  <2>1. ty \in {"straight", "corner", "arc"}
    BY <1>3, <1>4 DEF Line_IsMonotonous
  <2>2. segs[k] \in Segs
    BY <1>2, <1>4
  <2>3. segs'[k] = IF segs[k].type # "null" THEN segs[k] ELSE [segs[k] EXCEPT !.type = ty]
    BY <1>3, <1>4
  <2> HIDE DEF ty
  <2>4. ty \in Types
    BY <2>1 DEF Types
  <2>5. LET e == [segs[k] EXCEPT !.type = ty]
        IN  e \in Segs /\ e.begin = segs[k].begin /\ e.end = segs[k].end /\ e.type = ty
    BY <2>2, <2>4 DEF Segs
  <2> QED
    BY <2>1, <2>2, <2>3, <2>5
<1>5. segs' \in Seq(Segs) /\ Len(segs') = n
  <2>1. segs' \in [1 .. n -> Segs]
    BY <1>3, <1>4
  <2> HIDE DEF n
  <2> QED
    BY <1>2, <2>1, SeqDef
<1>6. \A k \in 1 .. n : segs[k].type \in {"lose", "null"}
  BY <1>1 DEF Unjudged
<1>7. \A k \in 1 .. n : IsLine(segs'[k]) = IsLine(segs[k]) /\ segs'[k].type # "null"
  BY <1>4, <1>6 DEF IsLine
<1>8. Parted(segs', broder, 0)
  BY <1>1, <1>4, <1>5, <1>7, Relabeled
<1>9. segs'[1].begin - segs'[1].end >= 1
  <2>1. 1 \in 1 .. n
    BY <1>2
  <2> QED
    BY <1>1, <1>4, <2>1
<1>10. TypeOK'
  BY <1>0, <1>5 DEF TypeOK, Segs
<1>11. Judged(segs')
  BY <1>5, <1>7 DEF Judged
<1>12. Scanning' /\ Scanned'
  BY <1>0, <1>8, <1>9, <1>11 DEF Scanning, Scanned, Parted, Judged
<1> QED
  BY <1>10, <1>12
-----------------------------------------------------------------------------
(* The search for corner points.                                           *)

\* A search changes rows between its two ends only, and copies the row above.
LEMMA FilteredIs ==
  ASSUME NEW b \in Broders, NEW high \in Int, NEW low \in Int
  PROVE  /\ \A r \in Rows : Filtered(b, high, low)[r] =
              IF r \in low + 2 .. high - 2 /\ b[r] \in {0, 187} THEN b[r - 1] ELSE b[r]
         /\ low >= 0 => Filtered(b, high, low) \in Broders
<1>1. ASSUME NEW r \in Rows, low >= 0, r \in low + 2 .. high - 2 PROVE r - 1 \in Rows
  BY <1>1, RowFacts
<1> QED
  BY <1>1 DEF Filtered, Broders

\* A search on the first segment leaves the others as they are.
LEMMA FirstFiltered ==
  ASSUME NEW sg, NEW b, Parted(sg, b, 0),
         NEW high \in Int, NEW low \in Int, sg[1].end <= low, high <= sg[1].begin, low >= 0
  PROVE  Parted(sg, Filtered(b, high, low), 0)
<1> DEFINE b2 == Filtered(b, high, low)
<1>1. /\ sg \in Seq(Segs) /\ b \in Broders /\ Len(sg) \in Nat /\ Len(sg) >= 1
      /\ \A k \in 1 .. Len(sg) :
           /\ sg[k].begin \in Int /\ sg[k].end \in Int
           /\ sg[k].begin < imgRow /\ 0 <= sg[k].end
  BY PartedFacts
<1>2. /\ b2 \in Broders
      /\ \A r \in Rows : ~(r \in low + 2 .. high - 2) => b2[r] = b[r]
  BY <1>1, FilteredIs
<1> HIDE DEF b2
<1>3. ASSUME NEW k \in 2 .. Len(sg), NEW r \in sg[k].end .. sg[k].begin, r > 0
      PROVE  RowAgrees(sg[k], b2, r)
  <2>1. k \in 1 .. Len(sg) /\ 1 \in 1 .. Len(sg) /\ 1 < k
    BY <1>1
  <2>2. RowAgrees(sg[k], b, r) /\ sg[k].begin < sg[1].end
    BY <1>3, <2>1 DEF Parted, Cut, Agree, Ordered
  <2>3. r \in Int /\ r <= sg[k].begin /\ sg[k].begin \in Int /\ sg[k].begin < imgRow /\ sg[1].end \in Int
    BY <1>1, <1>3, <2>1
  <2>4. r \in Rows /\ ~(r \in low + 2 .. high - 2)
    BY <1>3, <2>2, <2>3, RowFacts
  <2> QED
    BY <1>2, <2>2, <2>4 DEF RowAgrees
<1>4. Agree(sg, b2, 0)
  BY <1>3 DEF Agree
<1> QED
  BY <1>2, <1>4 DEF Parted, Cut, b2

\* Nor does a search on a line behind it, but for the last rows.
LEMMA LineFiltered ==
  ASSUME NEW sg, NEW b, Parted(sg, b, 0), NEW m \in 2 .. Len(sg), IsLine(sg[m]),
         NEW high \in Int, NEW low \in Int, sg[m].end <= low, high <= sg[m].begin
  PROVE  Parted(sg, Filtered(b, high, low), 2)
<1> DEFINE b2 == Filtered(b, high, low)
<1>1. /\ sg \in Seq(Segs) /\ b \in Broders /\ Len(sg) \in Nat /\ Len(sg) >= 1
      /\ \A k \in 1 .. Len(sg) :
           /\ sg[k].begin \in Int /\ sg[k].end \in Int
           /\ sg[k].begin < imgRow /\ 0 <= sg[k].end
  BY PartedFacts
<1>2. /\ m \in 1 .. Len(sg)
      /\ sg[m].begin \in Int /\ sg[m].end \in Int /\ sg[m].begin < imgRow /\ 0 <= sg[m].end
      /\ low >= 0
  <2>1. m \in 1 .. Len(sg)
    BY <1>1
  <2>2. sg[m].begin \in Int /\ sg[m].end \in Int /\ sg[m].begin < imgRow /\ 0 <= sg[m].end
    BY <1>1, <2>1
  <2>3. low >= 0
    BY <2>2
  <2> QED
    BY <2>1, <2>2, <2>3
<1>3. /\ b2 \in Broders
      /\ \A r \in Rows : b2[r] =
           IF r \in low + 2 .. high - 2 /\ b[r] \in {0, 187} THEN b[r - 1] ELSE b[r]
  BY <1>1, <1>2, FilteredIs
<1> HIDE DEF b2
<1>4. ASSUME NEW k \in 2 .. Len(sg), NEW r \in sg[k].end .. sg[k].begin, r > 2
      PROVE  RowAgrees(sg[k], b2, r)
  <2>1. k \in 1 .. Len(sg) /\ k \in Int /\ m \in Int
    BY <1>1
  <2>2. /\ sg[k].begin \in Int /\ sg[k].end \in Int /\ sg[k].begin < imgRow
        /\ r \in Int /\ sg[k].end <= r /\ r <= sg[k].begin
    BY <1>1, <1>4, <2>1
  <2>3. r \in Rows
    BY <1>4, <2>2, RowFacts
  <2>4. RowAgrees(sg[k], b, r)
    BY <1>4, <2>2 DEF Parted, Cut, Agree
  <2>5. CASE b2[r] = b[r]
    BY <2>4, <2>5 DEF RowAgrees
  <2>6. CASE b2[r] # b[r]
    <3>1. r \in low + 2 .. high - 2 /\ b[r] \in {0, 187} /\ b2[r] = b[r - 1]
      BY <1>3, <2>3, <2>6
    <3>2. low + 2 <= r /\ r <= high - 2
      BY <3>1, <2>2
    <3>3. sg[m].end < r - 1 + 1 /\ r - 1 \in sg[m].end .. sg[m].begin /\ r < sg[m].begin /\ sg[m].end < r
      BY <1>2, <2>2, <3>2
    <3>4. k = m
      <4>1. k < m => sg[m].begin < sg[k].end
        BY <1>2, <2>1 DEF Parted, Cut, Ordered
      <4>2. m < k => sg[k].begin < sg[m].end
        BY <1>2, <2>1 DEF Parted, Cut, Ordered
      <4> QED
        BY <1>2, <2>1, <2>2, <3>3, <4>1, <4>2
    <3>5. RowAgrees(sg[m], b, r - 1)
      <4>1. r - 1 > 0
        BY <1>4, <2>2
      <4> QED
        BY <3>3, <4>1 DEF Parted, Cut, Agree
    <3>6. ~Lost(b[r - 1])
      <4>1. sg[m].begin # 2 /\ r - 1 >= 2
        BY <1>2, <1>4, <2>2, <3>3
      <4> QED
        BY <3>5, <4>1 DEF RowAgrees
    <3> QED
      BY <3>1, <3>4, <3>6 DEF RowAgrees
  <2> QED
    BY <2>5, <2>6
<1>5. Agree(sg, b2, 2)
  BY <1>4 DEF Agree
<1> QED
  BY <1>3, <1>5 DEF Parted, Cut, b2

\* What is known of all rows is known of the far ones.
LEMMA PartedLess ==
  ASSUME NEW sg, NEW b, Parted(sg, b, 0)
  PROVE  Parted(sg, b, 2)
<1>1. sg \in Seq(Segs) /\ \A k \in 2 .. Len(sg) : k \in 1 .. Len(sg)
  BY PartedFacts
<1>2. ASSUME NEW k \in 2 .. Len(sg), NEW r \in sg[k].end .. sg[k].begin, r > 2
      PROVE  RowAgrees(sg[k], b, r)
  <2>1. r \in Int
    BY <1>1, <1>2, SegFacts
  <2> QED
    BY <1>2, <2>1 DEF Parted, Cut, Agree
<1> QED
  BY <1>2 DEF Parted, Cut, Agree

Point == [x : Rows, y : 0 .. 187]

\* Point q lies on the border at a row of segment s.
On(q, s, b) == q \in Point /\ q.x \in s.end .. s.begin /\ q.y = b[q.x]

\* The corner a search finds on a segment, or the end of it that stands for one.
LEMMA PointOn ==
  ASSUME NEW s \in Segs, s.begin - s.end >= 1, NEW b \in Broders,
         NEW low \in Int, s.end <= low, low < s.begin,
         NEW p \in Vision_FindArcFP(b, s.begin, low),
         NEW b2, NEW row \in {s.begin, s.end}, b2[row] = b[row]
  PROVE  /\ On(OrElse(p, b2, row), s, Filtered(b, s.begin, low))
         /\ p # NoPoint => On(p, s, Filtered(b, s.begin, low))
<1> DEFINE f == Filtered(b, s.begin, low)
<1>1. /\ s.begin \in Int /\ s.end \in Int /\ 0 <= s.end /\ s.begin < imgRow /\ s.end < s.begin
      /\ low >= 0
  <2>1. s.begin \in Rows /\ s.end \in 0 .. imgRow
    BY DEF Segs
  <2>2. s.begin \in Int /\ s.end \in Int /\ 0 <= s.end /\ s.begin < imgRow
    BY <2>1, RowFacts
  <2>3. s.end < s.begin /\ low >= 0
    BY <2>2
  <2> QED
    BY <2>2, <2>3
<1>2. /\ f \in Broders
      /\ \A r \in Rows : f[r] =
           IF r \in low + 2 .. s.begin - 2 /\ b[r] \in {0, 187} THEN b[r - 1] ELSE b[r]
  BY <1>1, FilteredIs
<1>3. p # NoPoint => On(p, s, f)
  <2>1. SUFFICES ASSUME p # NoPoint PROVE On(p, s, f)
    OBVIOUS
  <2>2. PICK r \in {s.begin - 1} \cup (low + 2 .. s.begin - 2) : p = [x |-> r, y |-> f[r]]
    BY <2>1 DEF Vision_FindArcFP
  <2>3. r \in Int /\ s.end <= r /\ r <= s.begin
    <3>1. CASE r = s.begin - 1
      BY <1>1, <3>1
    <3>2. CASE r \in low + 2 .. s.begin - 2
      BY <1>1, <3>2
    <3> QED
      BY <3>1, <3>2
  <2>4. r \in Rows /\ r \in s.end .. s.begin
    BY <1>1, <2>3, RowFacts
  <2>5. f[r] \in 0 .. 187
    BY <1>2, <2>4 DEF Broders
  <2> QED
    BY <2>2, <2>4, <2>5 DEF On, Point
<1>4. On([x |-> row, y |-> b2[row]], s, f)
  <2>1. row \in Rows /\ row \in s.end .. s.begin /\ ~(row \in low + 2 .. s.begin - 2)
    BY <1>1, RowFacts
  <2>2. f[row] = b2[row] /\ f[row] \in 0 .. 187
    BY <1>2, <2>1 DEF Broders
  <2> QED
    BY <2>1, <2>2 DEF On, Point
<1> QED
  BY <1>3, <1>4 DEF OrElse

\* The point behind a gap: on the line it is searched on, and on a row that was seen.
LEMMA FarPointIs ==
  ASSUME NEW b, Parted(segs, b, 0), NEW m \in 2 .. Len(segs), IsLine(segs[m]),
         NEW before, FarPoint(b, segs[m], before)
  PROVE  /\ Parted(segs, broder', 2)
         /\ \A r \in Rows : ~(r \in segs[m].end .. segs[m].begin) => broder'[r] = b[r]
         /\ \E q : /\ fp' = Append(before, q) /\ On(q, segs[m], broder')
                   /\ q.x >= 3 => ~Lost(q.y)
<1> DEFINE s == segs[m]
           low == Low(s)
<1>1. PICK p \in Vision_FindArcFP(b, s.begin, low) :
        broder' = Filtered(b, s.begin, low) /\ fp' = Append(before, OrElse(p, b, s.begin))
  BY DEF FarPoint
<1>2. /\ s \in Segs /\ b \in Broders /\ s.begin \in Int /\ s.end \in Int /\ 0 <= s.end
      /\ s.begin < imgRow /\ s.begin - s.end >= 2 /\ m \in 1 .. Len(segs)
      /\ Len(segs) \in Nat
  <2>1. m \in 1 .. Len(segs) /\ Len(segs) \in Nat
    BY PartedFacts
  <2> QED
    BY <2>1, PartedFacts
<1> HIDE DEF s
<1>3. low \in Int /\ s.end <= low /\ low < s.begin /\ s.begin - s.end >= 1
  <2>1. Reach \in Int /\ Reach >= 1
    BY CornerAssumption
  <2> QED
    BY <1>2, <2>1 DEF Low
<1> HIDE DEF low
<1>4. On(OrElse(p, b, s.begin), s, broder')
  BY <1>1, <1>2, <1>3, PointOn
<1>5. Parted(segs, broder', 2)
  <2>1. s.begin <= s.begin
    BY <1>2
  <2> QED
    BY <1>1, <1>2, <1>3, <2>1, LineFiltered DEF s
<1>6. ASSUME NEW r \in Rows, ~(r \in s.end .. s.begin) PROVE broder'[r] = b[r]
  <2>1. r \in Int
    BY RowFacts
  <2>2. ~(r \in low + 2 .. s.begin - 2)
    BY <1>2, <1>3, <1>6, <2>1
  <2> QED
    BY <1>1, <1>2, <1>3, <2>2, FilteredIs
<1>7. ASSUME NEW q, On(q, s, broder'), q.x >= 3 PROVE ~Lost(q.y)
  <2>1. q.x \in s.end .. s.begin /\ q.y = broder'[q.x]
    BY <1>7 DEF On
  <2>2. q.x > 2 /\ q.x \in Int /\ s.begin # 2 /\ q.x >= 2
    BY <1>2, <1>7, <2>1
  <2>3. RowAgrees(segs[m], broder', q.x)
    BY <1>5, <2>1, <2>2 DEF Parted, Cut, Agree, s
  <2> QED
    BY <2>1, <2>2, <2>3 DEF RowAgrees, s
<1> QED
  BY <1>1, <1>4, <1>5, <1>6, <1>7 DEF s

\* Point q belongs to line k, and was seen if it is behind the first segment.
PointOf(q, k, b) ==
  /\ q \in Point /\ On(q, segs[k], b) /\ IsLine(segs[k])
  /\ k # 1 /\ q.x >= 3 => ~Lost(q.y)

\* What a search has to show.
Result(f, b) ==
  \/ f = <<>>
  \/ \E q \in Point : \E k \in 1 .. Len(segs) : f = <<q>> /\ PointOf(q, k, b)
  \/ \E q1 \in Point : \E q2 \in Point :
       /\ f = <<q1, q2>> /\ PointOf(q1, 1, b) /\ PointOf(q2, 3, b)
       /\ Len(segs) >= 3 /\ ~IsLine(segs[2]) /\ Vision_IsLone(segs[2])

\* How many points it finds.
Numbers ==
  IF IsGap THEN IF Len(segs) = 2 THEN {1} ELSE {0, 2}
  ELSE IF segs[1].type = "lose" THEN IF Len(segs) >= 2 THEN {1} ELSE {0}
  ELSE IF segs[1].type = "arc" /\ Len(segs) = 1 THEN {0, 1} ELSE {0}

\* A sequence of one or two points.
LEMMA PointSeq ==
  ASSUME NEW q, NEW q2
  PROVE  /\ Append(<<>>, q) = <<q>> /\ Append(<<q>>, q2) = <<q, q2>>
         /\ Len(<<>>) = 0 /\ Len(<<q>>) = 1 /\ Len(<<q, q2>>) = 2
         /\ <<q>>[1] = q /\ <<q, q2>>[1] = q /\ <<q, q2>>[2] = q2
<1>1. Len(<<>>) = 0 /\ Len(<<q>>) = 1 /\ Len(<<q, q2>>) = 2
  OBVIOUS
<1>2. <<q>>[1] = q /\ <<q, q2>>[1] = q /\ <<q, q2>>[2] = q2
  OBVIOUS
<1>3. Append(<<>>, q) = <<q>>
  OBVIOUS
<1>4. Append(<<q>>, q2) = <<q, q2>>
  <2> DEFINE S == {q, q2}
             t == Append(<<q>>, q2)
             u == <<q, q2>>
  <2>1. <<q>> \in Seq(S) /\ q2 \in S /\ u \in Seq(S) /\ Len(u) = 2
    BY <1>1
  <2>2. t \in Seq(S) /\ Len(t) = Len(<<q>>) + 1 /\ t[Len(<<q>>) + 1] = q2
        /\ \A k \in 1 .. Len(<<q>>) : t[k] = <<q>>[k]
    <3> HIDE DEF S
    <3> QED
      BY <2>1, AppendProperties
  <2>3. Len(t) = 2 /\ t[1] = q /\ t[2] = q2
    <3> HIDE DEF S, t
    <3>1. 1 \in 1 .. Len(<<q>>)
      BY <1>1
    <3> QED
      BY <1>1, <1>2, <2>2, <3>1
  <2>4. u[1] = q /\ u[2] = q2
    BY <1>2
  <2> HIDE DEF S, t, u
  <2>5. \A k \in 1 .. Len(t) : t[k] = u[k]
    <3>1. \A k \in 1 .. 2 : k = 1 \/ k = 2
      OBVIOUS
    <3> QED
      BY <2>3, <2>4, <3>1
  <2>6. t = u
    BY <2>1, <2>2, <2>3, <2>5, SeqEqual
  <2> QED
    BY <2>6 DEF t, u
<1> QED
  BY <1>1, <1>2, <1>3, <1>4

\* The points at a gap.
LEMMA GapFinds ==
  ASSUME Parted(segs, broder, 0), segs[1].begin - segs[1].end >= 1, FindAtGap
  PROVE  Parted(segs, broder', 2) /\ Result(fp', broder') /\ Len(fp') \in Numbers
<1> DEFINE near == segs[1]
           b == Filtered(broder, near.begin, near.end)
           n == Len(segs)
<1>1. IsGap /\ n >= 2 /\ ~IsLine(segs[2]) /\ Vision_IsLone(segs[2])
  BY DEF FindAtGap, IsGap, IsLine
<1>2. /\ segs \in Seq(Segs) /\ broder \in Broders /\ n \in Nat
      /\ near \in Segs /\ near.begin \in Int /\ near.end \in Int /\ 0 <= near.end
      /\ near.begin < imgRow
  BY PartedFacts
<1>3. IsLine(near) /\ (n > 2 => IsLine(segs[3]))
  <2>1. \A k \in 1 .. n - 1 :
          \/ IsLine(segs[k]) # IsLine(segs[k + 1])
          \/ IsLine(segs[k]) /\ k + 1 = n /\ segs[k + 1].begin = 2
    BY DEF Parted, Cut, Alternate
  <2>2. 1 \in 1 .. n - 1 /\ 1 + 1 = 2 /\ (n > 2 => 2 \in 1 .. n - 1 /\ 2 + 1 = 3)
    BY <1>1, <1>2
  <2>3. IsLine(segs[1]) # IsLine(segs[2]) \/ IsLine(segs[1])
    BY <2>1, <2>2
  <2>4. n > 2 => IsLine(segs[2]) # IsLine(segs[3])
    BY <1>1, <2>1, <2>2
  <2> QED
    BY <1>1, <2>3, <2>4 DEF IsLine
<1>4. PICK p \in Vision_FindArcFP(broder, near.begin, near.end) :
        LET first == <<OrElse(p, b, near.end)>>
        IN \/ n = 2 /\ fp' = first /\ broder' = b
           \/ n > 2 /\ fp' = <<>> /\ broder' = b
           \/ n > 2 /\ FarPoint(b, segs[3], first)
  BY DEF FindAtGap
<1> DEFINE q == OrElse(p, b, near.end)
<1>5. Parted(segs, b, 0)
  <2>1. near.end <= near.end /\ near.begin <= near.begin
    BY <1>2
  <2> QED
    BY <1>2, <2>1, FirstFiltered
<1>6. On(q, near, b)
  <2>1. b[near.end] = broder[near.end]
    <3>1. near.end \in Rows /\ ~(near.end \in near.end + 2 .. near.begin - 2)
      BY <1>2, RowFacts
    <3> QED
      BY <1>2, <3>1, FilteredIs
  <2>2. near.end <= near.end /\ near.end < near.begin
    BY <1>2
  <2> HIDE DEF near
  <2> QED
    BY <1>2, <1>4, <2>1, <2>2, PointOn DEF near
<1> HIDE DEF near, b, q
<1>7. PointOf(q, 1, b)
  BY <1>3, <1>6 DEF PointOf, On, near
<1>8. CASE n = 2 /\ fp' = <<q>> /\ broder' = b
  <2>1. Len(fp') \in Numbers
    <3>1. Len(fp') = 1
      BY <1>8, PointSeq
    <3> QED
      BY <1>1, <1>8, <3>1 DEF Numbers
  <2>2. 1 \in 1 .. Len(segs)
    BY <1>8
  <2>3. Result(fp', broder')
    BY <1>7, <1>8, <2>2 DEF Result, PointOf
  <2> QED
    BY <1>5, <1>8, <2>1, <2>3, PartedLess
<1>9. CASE n > 2 /\ fp' = <<>> /\ broder' = b
  <2>1. Len(fp') \in Numbers
    <3>1. Len(fp') = 0
      BY <1>9, PointSeq
    <3>2. Len(segs) # 2
      <4>1. n > 2 /\ n \in Nat
        BY <1>2, <1>9
      <4> HIDE DEF n
      <4>2. n # 2
        BY <4>1
      <4> QED
        BY <4>2 DEF n
    <3> QED
      BY <1>1, <3>1, <3>2 DEF Numbers
  <2> QED
    BY <1>5, <1>9, <2>1, PartedLess DEF Result
<1>10. CASE n > 2 /\ FarPoint(b, segs[3], <<q>>)
  <2>1. 3 \in 2 .. Len(segs)
    BY <1>2, <1>10
  <2>2. /\ Parted(segs, broder', 2)
        /\ \A r \in Rows : ~(r \in segs[3].end .. segs[3].begin) => broder'[r] = b[r]
        /\ \E q2 : /\ fp' = Append(<<q>>, q2) /\ On(q2, segs[3], broder')
                   /\ q2.x >= 3 => ~Lost(q2.y)
    <3>1. IsLine(segs[3]) /\ FarPoint(b, segs[3], <<q>>)
      BY <1>3, <1>10
    <3> DEFINE before == <<q>>
    <3>2. FarPoint(b, segs[3], before)
      BY <3>1
    <3> HIDE DEF before
    <3>3. /\ Parted(segs, broder', 2)
          /\ \A r \in Rows : ~(r \in segs[3].end .. segs[3].begin) => broder'[r] = b[r]
          /\ \E q2 : /\ fp' = Append(before, q2) /\ On(q2, segs[3], broder')
                     /\ q2.x >= 3 => ~Lost(q2.y)
      BY <1>5, <2>1, <3>1, <3>2, FarPointIs
    <3> QED
      BY <3>3 DEF before
  <2>3. PICK q2 : /\ fp' = Append(<<q>>, q2) /\ On(q2, segs[3], broder')
                  /\ q2.x >= 3 => ~Lost(q2.y)
    BY <2>2
  <2>4. On(q, near, broder')
    <3>1. q.x \in near.end .. near.begin /\ q.y = b[q.x] /\ q \in Point /\ q.x \in Rows
      BY <1>6 DEF On, Point
    <3>2. segs[3].begin < near.end /\ segs[3].begin \in Int /\ segs[3].end \in Int
      <4>1. 1 \in 1 .. Len(segs) /\ 3 \in 1 .. Len(segs) /\ 1 < 3
        BY <1>2, <1>10
      <4> QED
        BY <1>5, <4>1, PartedFacts DEF Parted, Cut, Ordered, near
    <3>3. ~(q.x \in segs[3].end .. segs[3].begin)
      BY <1>2, <3>1, <3>2
    <3> QED
      BY <2>2, <3>1, <3>3 DEF On
  <2>5. PointOf(q, 1, broder') /\ PointOf(q2, 3, broder')
    BY <1>3, <1>10, <2>3, <2>4 DEF PointOf, On, near
  <2>6. fp' = <<q, q2>> /\ Len(fp') = 2
    BY <2>3, PointSeq
  <2>7. Result(fp', broder')
    BY <1>1, <1>2, <1>10, <2>5, <2>6 DEF Result, PointOf
  <2>8. Len(fp') \in Numbers
    BY <1>1, <1>10, <2>6 DEF Numbers
  <2> QED
    BY <2>2, <2>7, <2>8
<1> QED
  BY <1>4, <1>8, <1>9, <1>10 DEF q

\* The point behind lost near rows.
LEMMA BehindLostFinds ==
  ASSUME Parted(segs, broder, 0), fp = <<>>, FindBehindLost
  PROVE  Parted(segs, broder', 2) /\ Result(fp', broder') /\ Len(fp') \in Numbers
<1>0. ~IsGap /\ segs[1].type = "lose" /\ Len(segs) \in Nat
  BY PartedFacts DEF FindBehindLost
<1>1. CASE Len(segs) >= 2
  <2>1. FarPoint(broder, segs[2], <<>>)
    BY <1>1 DEF FindBehindLost
  <2>2. 2 \in 2 .. Len(segs) /\ 2 \in 1 .. Len(segs)
    BY <1>0, <1>1
  <2>3. IsLine(segs[2])
    <3>1. 1 \in 1 .. Len(segs) - 1 /\ 1 + 1 = 2
      BY <1>0, <1>1
    <3>2. ~IsLine(segs[1])
      BY <1>0 DEF IsLine
    <3>3. IsLine(segs[1]) # IsLine(segs[1 + 1]) \/ IsLine(segs[1])
      BY <3>1 DEF Parted, Cut, Alternate
    <3> QED
      BY <3>1, <3>2, <3>3 DEF IsLine
  <2> DEFINE before == <<>>
  <2>4. FarPoint(broder, segs[2], before)
    BY <2>1
  <2> HIDE DEF before
  <2>5. /\ Parted(segs, broder', 2)
        /\ \E q : /\ fp' = Append(before, q) /\ On(q, segs[2], broder')
                  /\ q.x >= 3 => ~Lost(q.y)
    BY <2>2, <2>3, <2>4, FarPointIs
  <2>6. PICK q : /\ fp' = Append(before, q) /\ On(q, segs[2], broder')
                 /\ q.x >= 3 => ~Lost(q.y)
    BY <2>5
  <2>7. fp' = <<q>> /\ Len(fp') = 1
    BY <2>6, PointSeq DEF before
  <2>8. PointOf(q, 2, broder')
    BY <2>3, <2>6 DEF PointOf, On
  <2>9. Result(fp', broder')
    BY <2>2, <2>7, <2>8 DEF Result, PointOf
  <2>10. Len(fp') \in Numbers
    BY <1>0, <1>1, <2>7 DEF Numbers
  <2> QED
    BY <2>5, <2>9, <2>10
<1>2. CASE ~(Len(segs) >= 2)
  <2>1. broder' = broder /\ fp' = <<>>
    BY <1>2 DEF FindBehindLost
  <2>2. Len(fp') = 0
    BY <2>1, PointSeq
  <2>3. Len(fp') \in Numbers
    BY <1>0, <1>2, <2>2 DEF Numbers
  <2> QED
    BY <2>1, <2>3, PartedLess DEF Result
<1> QED
  BY <1>1, <1>2

\* The point on a lone arc.
LEMMA ArcFinds ==
  ASSUME Parted(segs, broder, 0), segs[1].begin - segs[1].end >= 1, FindOnArc
  PROVE  Parted(segs, broder', 2) /\ Result(fp', broder') /\ Len(fp') \in Numbers
<1> DEFINE s == segs[1]
<1>0. /\ ~IsGap /\ s.type = "arc" /\ Len(segs) = 1
      /\ broder' = Filtered(broder, s.begin, ArcRow)
  BY DEF FindOnArc
<1>1. /\ segs \in Seq(Segs) /\ broder \in Broders
      /\ s \in Segs /\ s.begin \in Int /\ s.end = 0 /\ s.begin = imgRow - 1
  BY <1>0, PartedFacts
<1>2. ArcRow \in Int /\ s.end <= ArcRow /\ ArcRow < s.begin /\ ArcRow >= 0 /\ s.begin <= s.begin
  <2>1. ArcRow \in 0 .. imgRow - 2
    BY CornerAssumption
  <2> QED
    BY <1>1, <2>1, RowFacts
<1>3. Parted(segs, broder', 0)
  BY <1>0, <1>1, <1>2, FirstFiltered
<1>4. PICK p \in Vision_FindArcFP(broder, s.begin, ArcRow) :
        fp' = IF p = NoPoint THEN <<>> ELSE <<p>>
  BY DEF FindOnArc
<1>5. p # NoPoint => On(p, s, broder')
  <2>1. s.begin \in {s.begin, s.end} /\ broder[s.begin] = broder[s.begin] /\ s.begin - s.end >= 1
    OBVIOUS
  <2> HIDE DEF s
  <2> QED
    BY <1>0, <1>1, <1>2, <1>4, <2>1, PointOn
<1>6. IsLine(segs[1])
  BY <1>0 DEF IsLine
<1>7. p # NoPoint => PointOf(p, 1, broder')
  BY <1>5, <1>6 DEF PointOf, On
<1>8. Len(fp') = 0 \/ Len(fp') = 1
  BY <1>4, PointSeq
<1>9. Len(fp') \in Numbers
  BY <1>0, <1>8 DEF Numbers
<1>10. Result(fp', broder')
  <2>1. CASE p = NoPoint
    BY <1>4, <2>1 DEF Result
  <2>2. CASE p # NoPoint
    <3>1. fp' = <<p>> /\ 1 \in 1 .. Len(segs)
      BY <1>0, <1>4, <2>2
    <3> QED
      BY <1>7, <2>2, <3>1 DEF Result, PointOf
  <2> QED
    BY <2>1, <2>2
<1> QED
  BY <1>3, <1>9, <1>10, PartedLess

\* Whatever the search finds, the segments keep their rows and the points lie on them.
LEMMA SearchFinds ==
  ASSUME Parted(segs, broder, 0), segs[1].begin - segs[1].end >= 1, fp = <<>>,
         FindAtGap \/ FindBehindLost \/ FindOnArc \/ FindNothing
  PROVE  Parted(segs, broder', 2) /\ Result(fp', broder') /\ Len(fp') \in Numbers
<1>1. CASE FindNothing
  <2>1. broder' = broder /\ fp' = <<>> /\ Len(fp') = 0
    BY <1>1, PointSeq DEF FindNothing
  <2>2. Len(fp') \in Numbers
    BY <1>1, <2>1 DEF FindNothing, Numbers
  <2> QED
    BY <2>1, <2>2, PartedLess DEF Result
<1> QED
  BY <1>1, GapFinds, BehindLostFinds, ArcFinds
-----------------------------------------------------------------------------
(* The shapes of a border.                                                 *)

\* A function on the first one, two or three numbers is a tuple.
LEMMA Tuples ==
  ASSUME NEW f
  PROVE  /\ f = [k \in 1 .. 1 |-> f[k]] => f = <<f[1]>>
         /\ f = [k \in 1 .. 2 |-> f[k]] => f = <<f[1], f[2]>>
         /\ f = [k \in 1 .. 3 |-> f[k]] => f = <<f[1], f[2], f[3]>>
<1>1. ASSUME f = [k \in 1 .. 1 |-> f[k]] PROVE f = <<f[1]>>
  BY <1>1
<1>2. ASSUME f = [k \in 1 .. 2 |-> f[k]] PROVE f = <<f[1], f[2]>>
  BY <1>2
<1>3. ASSUME f = [k \in 1 .. 3 |-> f[k]] PROVE f = <<f[1], f[2], f[3]>>
  BY <1>3
<1> QED
  BY <1>1, <1>2, <1>3

\* A cut and judged border has a known shape, and the search as many points on it
\* as belong to the shape.
LEMMA ShapesKnown ==
  ASSUME NEW low, Parted(segs, broder, low), Judged(segs), NEW m \in Numbers
  PROVE  [seg |-> Shape(Kinds), fp |-> m] \in Features
<1> DEFINE n == Len(segs)
           sh == Shape(Kinds)
           ty(k) == segs[k].type
<1>1. n \in Nat /\ n >= 1 /\ \A k \in 1 .. n : segs[k] \in Segs
  BY PartedFacts
<1>2. \A k \in 1 .. n : ty(k) \in {"lose", "straight", "arc", "corner"}
  BY <1>1 DEF Judged, Segs, Types
<1>3. \A k \in 1 .. n - 1 :
        \/ (ty(k) # "lose") # (ty(k + 1) # "lose")
        \/ ty(k) # "lose" /\ k + 1 = n
  BY DEF Parted, Cut, Alternate, IsLine
<1>4. Kinds \in Seq({"lose", "straight", "arc", "corner"}) /\ Len(Kinds) = n
      /\ \A k \in 1 .. n : Kinds[k] = ty(k)
  <2>1. Kinds \in [1 .. n -> {"lose", "straight", "arc", "corner"}]
    BY <1>2 DEF Kinds
  <2> HIDE DEF n
  <2>2. Kinds \in Seq({"lose", "straight", "arc", "corner"}) /\ Len(Kinds) = n
    BY <1>1, <2>1, SeqDef
  <2>3. \A k \in 1 .. n : Kinds[k] = ty(k)
    BY DEF Kinds, n
  <2> QED
    BY <2>2, <2>3
<1>5. sh = [k \in 1 .. IF n < 3 THEN n ELSE 3 |->
              IF k = 1 \/ Kinds[k] = "lose" THEN Kinds[k]
              ELSE IF k = 3 /\ Kinds[2] # "lose" THEN "lose" ELSE "straight"]
  BY <1>4 DEF Shape
<1>6. SUFFICES sh \in Borders /\ m \in Points(sh)
  BY DEF Features
<1>7. IsGap => n >= 2 /\ ty(2) = "lose"
  BY DEF IsGap
<1> HIDE DEF sh
<1>8. CASE n = 1
  <2>1. sh = [k \in 1 .. 1 |-> sh[k]] /\ sh[1] = ty(1)
    BY <1>4, <1>5, <1>8
  <2>2. sh = <<ty(1)>>
    BY <2>1, Tuples
  <2>3. ty(1) \in {"lose", "straight", "arc", "corner"}
    BY <1>2, <1>8
  <2>4. ~IsGap /\ Len(segs) = 1 /\ ~(Len(segs) >= 2)
    BY <1>7, <1>8
  <2> HIDE DEF ty
  <2>5. sh \in Borders
    BY <2>2, <2>3 DEF Borders, Lines, Bends
  <2>6. Numbers = IF ty(1) = "arc" THEN {0, 1} ELSE {0}
    BY <2>4 DEF Numbers, ty
  <2>7. Len(sh) = 1 /\ sh[1] = ty(1)
    BY <2>2
  <2>8. ty(1) = "lose" => Points(sh) = {0}
    BY <2>7 DEF Points
  <2>9. ty(1) = "arc" => Points(sh) = {0, 1}
    BY <2>2, <2>7 DEF Points, ArcPoints
  <2>10. ty(1) \in {"straight", "corner"} => Points(sh) = {0}
    <3>1. ty(1) \in {"straight", "corner"} => sh # <<"arc">>
      BY <2>7
    <3> QED
      BY <2>7, <3>1 DEF Points
  <2>11. m \in Points(sh)
    BY <2>3, <2>6, <2>8, <2>9, <2>10
  <2> QED
    BY <2>5, <2>11
<1>9. CASE n = 2
  <2>1. sh = [k \in 1 .. 2 |-> sh[k]] /\ sh[1] = ty(1)
        /\ sh[2] = IF ty(2) = "lose" THEN "lose" ELSE "straight"
    BY <1>4, <1>5, <1>9
  <2>2. sh = <<ty(1), IF ty(2) = "lose" THEN "lose" ELSE "straight">>
    BY <2>1, Tuples
  <2>3. /\ ty(1) \in {"lose", "straight", "arc", "corner"}
        /\ ty(2) \in {"lose", "straight", "arc", "corner"}
        /\ ty(1) = "lose" => ty(2) # "lose"
    <3>1. 1 \in 1 .. n /\ 2 \in 1 .. n /\ 1 \in 1 .. n - 1 /\ 1 + 1 = 2
      BY <1>9
    <3> HIDE DEF ty
    <3> QED
      BY <1>2, <1>3, <3>1
  <2>4. Len(segs) = 2 /\ Len(segs) >= 2 /\ Len(segs) # 1
    BY <1>9
  <2>5. Len(sh) = 2
    BY <2>2
  <2>6. (IsGap => ty(2) = "lose") /\ (segs[1].type = ty(1))
    BY <1>7
  <2> HIDE DEF ty
  <2>7. CASE ty(2) = "lose"
    <3>1. sh = <<ty(1), "lose">> /\ ty(1) \in Lines
      BY <2>2, <2>3, <2>7 DEF Lines, Bends
    <3>2. sh \in Borders
      BY <3>1 DEF Borders
    <3>3. Numbers = {0} \/ Numbers = {1}
      BY <2>3, <2>4, <2>6, <2>7 DEF Numbers
    <3>4. Points(sh) = {0, 1}
      BY <2>5, <3>1 DEF Points
    <3> QED
      BY <3>2, <3>3, <3>4
  <2>8. CASE ty(2) # "lose"
    <3>1. sh = <<ty(1), "straight">>
      BY <2>2, <2>8
    <3>2. sh \in Borders
      BY <2>3, <3>1 DEF Borders, Lines, Bends
    <3>3. Numbers = IF ty(1) = "lose" THEN {1} ELSE {0}
      BY <2>3, <2>4, <2>6, <2>8 DEF Numbers
    <3>4. sh[1] = ty(1) /\ sh[2] = "straight" /\ sh # <<"arc">>
      <4>1. sh[1] = ty(1) /\ sh[2] = "straight"
        BY <3>1
      <4>2. Len(<<"arc">>) = 1
        OBVIOUS
      <4>3. sh # <<"arc">>
        BY <2>5, <4>2
      <4> QED
        BY <4>1, <4>3
    <3>5. Points(sh) = IF ty(1) = "lose" THEN {1} ELSE {0}
      BY <2>5, <3>4 DEF Points
    <3> QED
      BY <3>2, <3>3, <3>5
  <2> QED
    BY <2>7, <2>8
<1>10. CASE n >= 3
  <2>1. /\ sh = [k \in 1 .. 3 |-> sh[k]] /\ sh[1] = ty(1)
        /\ sh[2] = IF ty(2) = "lose" THEN "lose" ELSE "straight"
        /\ sh[3] = IF ty(3) = "lose" \/ ty(2) # "lose" THEN "lose" ELSE "straight"
    <3>1. (IF n < 3 THEN n ELSE 3) = 3 /\ 1 \in 1 .. n /\ 2 \in 1 .. n /\ 3 \in 1 .. n
      BY <1>1, <1>10
    <3>2. Kinds[1] = ty(1) /\ Kinds[2] = ty(2) /\ Kinds[3] = ty(3)
      BY <1>4, <3>1
    <3>3. sh = [k \in 1 .. 3 |->
              IF k = 1 \/ Kinds[k] = "lose" THEN Kinds[k]
              ELSE IF k = 3 /\ Kinds[2] # "lose" THEN "lose" ELSE "straight"]
      BY <1>5, <3>1
    <3> HIDE DEF ty
    <3> QED
      BY <3>2, <3>3
  <2>2. sh = <<sh[1], sh[2], sh[3]>>
    BY <2>1, Tuples
  <2>3. /\ ty(1) \in {"lose", "straight", "arc", "corner"}
        /\ (ty(1) = "lose") # (ty(2) = "lose")
        /\ ty(2) = "lose" => ty(3) # "lose"
    <3>1. 1 \in 1 .. n /\ 1 \in 1 .. n - 1 /\ 2 \in 1 .. n - 1 /\ 1 + 1 = 2 /\ 2 + 1 = 3 /\ 2 # n
      BY <1>1, <1>10
    <3> HIDE DEF ty
    <3>2. (ty(1) # "lose") # (ty(2) # "lose")
      BY <1>3, <3>1
    <3>3. ty(2) = "lose" => ty(3) # "lose"
      BY <1>3, <3>1
    <3> QED
      BY <1>2, <3>1, <3>2, <3>3
  <2>4. Len(segs) # 2 /\ Len(segs) >= 2 /\ Len(segs) # 1
    <3> HIDE DEF ty
    <3>1. n # 2 /\ n >= 2 /\ n # 1
      <4>1. n \in Nat
        BY <1>1
      <4> HIDE DEF n
      <4> QED
        BY <1>10, <4>1
    <3> QED
      BY <3>1
  <2>5. Len(sh) = 3 /\ sh # <<"arc">>
    <3>1. Len(<<"arc">>) = 1
      OBVIOUS
    <3>2. Len(sh) = 3
      BY <2>2
    <3> QED
      BY <3>1, <3>2
  <2>6. (IsGap => ty(2) = "lose") /\ segs[1].type = ty(1)
    BY <1>7
  <2> HIDE DEF ty
  <2>7. CASE ty(2) = "lose"
    <3>1. sh = <<ty(1), "lose", "straight">> /\ ty(1) \in Lines
      BY <2>1, <2>2, <2>3, <2>7 DEF Lines, Bends
    <3>2. sh \in Borders
      BY <3>1 DEF Borders
    <3>3. Numbers = {0} \/ Numbers = {0, 2}
      BY <2>3, <2>4, <2>6, <2>7 DEF Numbers
    <3>4. Points(sh) = {0, 2}
      BY <2>1, <2>5, <2>7 DEF Points
    <3> QED
      BY <3>2, <3>3, <3>4
  <2>8. CASE ty(2) # "lose"
    <3>1. sh = <<"lose", "straight", "lose">>
      BY <2>1, <2>2, <2>3, <2>8
    <3>2. sh \in Borders
      BY <3>1 DEF Borders
    <3>3. Numbers = {1}
      BY <2>3, <2>4, <2>6, <2>8 DEF Numbers
    <3>4. Points(sh) = {1}
      BY <2>1, <2>3, <2>5, <2>8 DEF Points
    <3> QED
      BY <3>2, <3>3, <3>4
  <2> QED
    BY <2>7, <2>8
<1>11. n = 1 \/ n = 2 \/ n >= 3
  <2>1. n \in Nat /\ n >= 1
    BY <1>1
  <2> HIDE DEF n
  <2> QED
    BY <2>1
<1> QED
  BY <1>8, <1>9, <1>10, <1>11
-----------------------------------------------------------------------------
(* The search keeps the invariant.                                         *)

\* What a search shows is well placed.
LEMMA ResultPlaced ==
  ASSUME NEW f, NEW b, Parted(segs, b, 2), Result(f, b)
  PROVE  /\ f \in Seq(Point) /\ Len(f) <= 2
         /\ \A k \in 1 .. Len(f) :
              /\ f[k].y = b[f[k].x]
              /\ \E s \in 1 .. Len(segs) :
                   IsLine(segs[s]) /\ f[k].x \in segs[s].end .. segs[s].begin
              /\ f[k].x >= 3 /\ f[k].x < segs[1].end => ~Lost(f[k].y)
         /\ Len(f) = 2 =>
              \E s \in 1 .. Len(segs) :
                /\ ~IsLine(segs[s]) /\ Vision_IsLone(segs[s])
                /\ f[1].x > segs[s].begin /\ segs[s].end > f[2].x
<1>1. /\ segs \in Seq(Segs) /\ Len(segs) \in Nat
      /\ \A k \in 1 .. Len(segs) : segs[k].begin \in Int /\ segs[k].end \in Int
  BY PartedFacts
<1>2. ASSUME NEW q \in Point, NEW k \in 1 .. Len(segs), PointOf(q, k, b)
      PROVE  /\ q.x \in Int /\ q.y = b[q.x] /\ segs[k].end <= q.x /\ q.x <= segs[k].begin
             /\ \E s \in 1 .. Len(segs) :
                  IsLine(segs[s]) /\ q.x \in segs[s].end .. segs[s].begin
             /\ q.x >= 3 /\ q.x < segs[1].end => ~Lost(q.y)
  <2>1. q.y = b[q.x] /\ q.x \in segs[k].end .. segs[k].begin /\ IsLine(segs[k])
        /\ (k # 1 /\ q.x >= 3 => ~Lost(q.y))
    BY <1>2 DEF PointOf, On
  <2>2. q.x \in Int /\ segs[k].end <= q.x /\ q.x <= segs[k].begin
    BY <1>1, <2>1
  <2>3. k = 1 => ~(q.x < segs[1].end)
    BY <1>1, <1>2, <2>2
  <2> QED
    BY <2>1, <2>2, <2>3
<1>3. CASE f = <<>>
  <2>1. Len(f) = 0 /\ f \in Seq(Point)
    BY <1>3, EmptySeq
  <2> QED
    BY <2>1
<1>4. ASSUME NEW q \in Point, NEW k \in 1 .. Len(segs), f = <<q>>, PointOf(q, k, b)
      PROVE  /\ f \in Seq(Point) /\ Len(f) = 1
             /\ f[1].y = b[f[1].x]
             /\ \E s \in 1 .. Len(segs) :
                  IsLine(segs[s]) /\ f[1].x \in segs[s].end .. segs[s].begin
             /\ f[1].x >= 3 /\ f[1].x < segs[1].end => ~Lost(f[1].y)
  <2>1. f \in Seq(Point) /\ Len(f) = 1 /\ f[1] = q
    BY <1>4, PointSeq
  <2> QED
    BY <1>2, <1>4, <2>1
<1>5. ASSUME NEW q1 \in Point, NEW q2 \in Point, f = <<q1, q2>>,
             PointOf(q1, 1, b), PointOf(q2, 3, b),
             Len(segs) >= 3, ~IsLine(segs[2]), Vision_IsLone(segs[2])
      PROVE  /\ f \in Seq(Point) /\ Len(f) = 2
             /\ \A k \in 1 .. 2 :
                  /\ f[k].y = b[f[k].x]
                  /\ \E s \in 1 .. Len(segs) :
                       IsLine(segs[s]) /\ f[k].x \in segs[s].end .. segs[s].begin
                  /\ f[k].x >= 3 /\ f[k].x < segs[1].end => ~Lost(f[k].y)
             /\ 2 \in 1 .. Len(segs) /\ f[1].x > segs[2].begin /\ segs[2].end > f[2].x
  <2>1. f \in Seq(Point) /\ Len(f) = 2 /\ f[1] = q1 /\ f[2] = q2
    BY <1>5, PointSeq
  <2>2. 1 \in 1 .. Len(segs) /\ 2 \in 1 .. Len(segs) /\ 3 \in 1 .. Len(segs)
    BY <1>1, <1>5
  <2>3. segs[2].begin < segs[1].end /\ segs[3].begin < segs[2].end
    BY <2>2 DEF Parted, Cut, Ordered
  <2>4. /\ q1.x \in Int /\ q1.y = b[q1.x] /\ segs[1].end <= q1.x
        /\ \E s \in 1 .. Len(segs) :
             IsLine(segs[s]) /\ q1.x \in segs[s].end .. segs[s].begin
        /\ q1.x >= 3 /\ q1.x < segs[1].end => ~Lost(q1.y)
    BY <1>2, <1>5, <2>2
  <2>5. /\ q2.x \in Int /\ q2.y = b[q2.x] /\ q2.x <= segs[3].begin
        /\ \E s \in 1 .. Len(segs) :
             IsLine(segs[s]) /\ q2.x \in segs[s].end .. segs[s].begin
        /\ q2.x >= 3 /\ q2.x < segs[1].end => ~Lost(q2.y)
    BY <1>2, <1>5, <2>2
  <2>6. q1.x > segs[2].begin /\ segs[2].end > q2.x
    <3>1. segs[1].end \in Int /\ segs[2].begin \in Int /\ segs[2].end \in Int /\ segs[3].begin \in Int
      BY <1>1, <2>2
    <3> QED
      BY <2>3, <2>4, <2>5, <3>1
  <2>7. \A k \in 1 .. 2 : k = 1 \/ k = 2
    OBVIOUS
  <2> QED
    BY <2>1, <2>2, <2>4, <2>5, <2>6, <2>7
<1>6. CASE \E q \in Point : \E k \in 1 .. Len(segs) : f = <<q>> /\ PointOf(q, k, b)
  <2>1. /\ f \in Seq(Point) /\ Len(f) = 1
        /\ f[1].y = b[f[1].x]
        /\ \E s \in 1 .. Len(segs) :
             IsLine(segs[s]) /\ f[1].x \in segs[s].end .. segs[s].begin
        /\ f[1].x >= 3 /\ f[1].x < segs[1].end => ~Lost(f[1].y)
    BY <1>4, <1>6
  <2>2. \A k \in 1 .. 1 : k = 1
    OBVIOUS
  <2> QED
    BY <2>1, <2>2
<1>7. CASE \E q1 \in Point : \E q2 \in Point :
             /\ f = <<q1, q2>> /\ PointOf(q1, 1, b) /\ PointOf(q2, 3, b)
             /\ Len(segs) >= 3 /\ ~IsLine(segs[2]) /\ Vision_IsLone(segs[2])
  <2>1. PICK q1 \in Point, q2 \in Point :
             /\ f = <<q1, q2>> /\ PointOf(q1, 1, b) /\ PointOf(q2, 3, b)
             /\ Len(segs) >= 3 /\ ~IsLine(segs[2]) /\ Vision_IsLone(segs[2])
    BY <1>7
  <2> QED
    BY <1>5, <2>1
<1> QED
  BY <1>3, <1>6, <1>7 DEF Result

\* The search keeps the whole invariant.
LEMMA SearchKeeps ==
  ASSUME IInv, Vision_BroderFindFP
  PROVE  IInv'
<1>0. /\ pc = "done" /\ found = FALSE /\ found' = TRUE
      /\ UNCHANGED <<LorR, segs, begin_flag, i, pc, breaks>>
      /\ FindAtGap \/ FindBehindLost \/ FindOnArc \/ FindNothing
  BY DEF Vision_BroderFindFP, IInv, FPTypeOK
<1>1. /\ Parted(segs, broder, 0) /\ segs[1].begin - segs[1].end >= 1 /\ Judged(segs)
      /\ fp = <<>> /\ TypeOK
  BY <1>0 DEF IInv, Scanned, Searching, FPTypeOK
<1>2. Parted(segs, broder', 2) /\ Result(fp', broder') /\ Len(fp') \in Numbers
  BY <1>0, <1>1, SearchFinds
<1>3. /\ fp' \in Seq(Point) /\ Len(fp') <= 2
      /\ \A k \in 1 .. Len(fp') :
           /\ fp'[k].y = broder'[fp'[k].x]
           /\ \E s \in 1 .. Len(segs) :
                IsLine(segs[s]) /\ fp'[k].x \in segs[s].end .. segs[s].begin
           /\ fp'[k].x >= 3 /\ fp'[k].x < segs[1].end => ~Lost(fp'[k].y)
      /\ Len(fp') = 2 =>
           \E s \in 1 .. Len(segs) :
             /\ ~IsLine(segs[s]) /\ Vision_IsLone(segs[s])
             /\ fp'[1].x > segs[s].begin /\ segs[s].end > fp'[2].x
  BY <1>2, ResultPlaced
<1>4. PointsPlaced'
  BY <1>0, <1>3 DEF PointsPlaced, PointsOnTheLine, PointsAcrossTheGap, PointsSeen
<1>5. FPTypeOK'
  <2>1. broder' \in Broders
    BY <1>2 DEF Parted, Cut
  <2>2. TypeOK'
    BY <1>0, <1>1, <2>1 DEF TypeOK, Broders
  <2> QED
    BY <1>0, <1>3, <2>2 DEF FPTypeOK, Point
<1>6. ShapeKnown'
  <2>1. [seg |-> Shape(Kinds), fp |-> Len(fp')] \in Features
    BY <1>1, <1>2, ShapesKnown
  <2>2. Kinds' = Kinds
    BY <1>0 DEF Kinds
  <2> QED
    BY <2>1, <2>2 DEF ShapeKnown
<1>7. Scanning' /\ Scanned' /\ Counting' /\ Searching'
  <2>1. Parted(segs', broder', 2) /\ segs'[1].begin - segs'[1].end >= 1 /\ Judged(segs')
    BY <1>0, <1>1, <1>2
  <2> QED
    BY <1>0, <2>1 DEF IInv, Counting, Scanning, Scanned, Searching, Parted, Judged
<1> QED
  BY <1>4, <1>5, <1>6, <1>7 DEF IInv

\* A merge takes a segment away, and a judgement leaves their number.
LEMMA LaterCounts ==
  ASSUME TypeOK, Scanned, Counting, Merge \/ Judge
  PROVE  Counting'
<1>1. pc \in {"merge", "judge"} /\ pc' # "scan" /\ breaks' = breaks /\ breaks \in Nat
  BY DEF Merge, Judge, TypeOK
<1>2. Len(segs) <= breaks + 2 /\ Len(segs) \in Nat /\ Len(segs) >= 1 /\ segs \in Seq(Segs)
  BY <1>1, PartedFacts DEF Counting, Scanned
<1>3. Len(segs') <= Len(segs) /\ Len(segs') \in Nat
  <2>1. CASE Merge
    <3>1. CASE segs' = segs
      BY <1>2, <3>1
    <3>2. CASE segs' # segs
      <4>1. segs' = Merged(segs)
        BY <2>1, <3>2 DEF Merge
      <4>2. Len(segs) >= 2
        <5>1. Len(segs) = 1 => segs[1].begin - segs[1].end = imgRow - 1
          BY <1>1, <1>2, PartedFacts, RowFacts DEF Scanned
        <5>2. segs[1].begin - segs[1].end <= Short
          BY <2>1, <3>2 DEF Merge
        <5>3. Len(segs) # 1
          BY <5>1, <5>2, RowFacts
        <5> DEFINE n == Len(segs)
        <5>4. n \in Nat /\ n >= 1 /\ n # 1
          BY <1>2, <5>3
        <5> HIDE DEF n
        <5>5. n >= 2
          BY <5>4
        <5> QED
          BY <5>5 DEF n
      <4> QED
        BY <1>2, <4>1, <4>2, MergedIs
    <3> QED
      BY <3>1, <3>2
  <2>2. CASE Judge
    <3>1. PICK f : segs' = [k \in 1 .. Len(segs) |-> f[k]]
      <4>1. DOMAIN segs' = 1 .. Len(segs) /\ segs' = [k \in 1 .. Len(segs) |-> segs'[k]]
        BY <2>2 DEF Judge
      <4> QED
        BY <4>1
    <3>2. Len(segs') = Len(segs)
      BY <1>2, <3>1
    <3> QED
      BY <1>2, <3>2
  <2> QED
    BY <2>1, <2>2
<1> QED
  BY <1>1, <1>2, <1>3 DEF Counting

\* A cut, a merge or a judgement keeps the whole invariant.
LEMMA SegmentKeeps ==
  ASSUME IInv, Segment, UNCHANGED <<fp, found>>
  PROVE  IInv'
<1>1. pc # "done"
  BY DEF Segment, Scan, Merge, Judge
<1>2. found = FALSE /\ found' = FALSE /\ fp = <<>> /\ fp' = <<>> /\ TypeOK
  BY <1>1 DEF IInv, Searching, FPTypeOK
<1>3. TypeOK' /\ Scanning' /\ Scanned'
  BY <1>2, ScanKeeps, MergeKeeps, JudgeKeeps DEF IInv, Segment
<1>7. Counting'
  <2>1. CASE Scan
    BY <1>2, <1>3, <2>1, ScanCounts DEF IInv
  <2>2. CASE Merge \/ Judge
    BY <1>2, <1>3, <2>2, LaterCounts DEF IInv
  <2> QED
    BY <2>1, <2>2 DEF Segment
<1>4. FPTypeOK' /\ Searching'
  BY <1>2, <1>3 DEF FPTypeOK, Searching, IInv
<1>5. ShapeKnown'
  BY <1>2 DEF ShapeKnown
<1>6. PointsPlaced'
  <2>1. Len(fp') = 0
    BY <1>2, PointSeq
  <2> QED
    BY <2>1 DEF PointsPlaced, PointsOnTheLine, PointsAcrossTheGap, PointsSeen
<1> QED
  BY <1>3, <1>4, <1>5, <1>6, <1>7 DEF IInv
-----------------------------------------------------------------------------
\* IInv is an inductive invariant of cutting a border and searching it.
THEOREM InductiveInvariant == CornerSpec => []IInv
<1>1. ASSUME CornerInit PROVE IInv
  <2>1. /\ segs = <<>> /\ begin_flag = 1 /\ i = imgRow - 1 /\ pc = "scan"
        /\ fp = <<>> /\ found = FALSE /\ LorR \in {"L", "R"} /\ broder \in [Rows -> Distances]
    BY <1>1, GivenAssumption DEF CornerInit, Init
  <2>8. breaks = Count(broder, imgRow - 1) /\ breaks \in Nat
    <3>1. breaks = Count(broder, imgRow - 1) /\ imgRow - 1 \in Nat
      BY <1>1, RowFacts DEF CornerInit, Init, Count
    <3> QED
      BY <3>1, CountIs
  <2>2. Len(fp) = 0 /\ Len(segs) = 0 /\ fp \in Seq(Point) /\ segs \in Seq(Segs)
    BY <2>1, EmptySeq
  <2>3. i \in Rows /\ i >= 1
    BY <2>1, RowFacts
  <2>4. broder \in [Rows -> 0 .. 187]
    BY <2>1, SegmentAssumption
  <2>5. FPTypeOK
    <3>1. segs \in Seq([begin : Rows, end : 0 .. imgRow, type : Types])
      BY <2>2 DEF Segs
    <3>2. TypeOK
      BY <2>1, <2>3, <2>4, <2>8, <3>1 DEF TypeOK
    <3>3. fp \in Seq([x : Rows, y : 0 .. 187]) /\ Len(fp) <= 2
      BY <2>2 DEF Point
    <3>4. found \in BOOLEAN
      BY <2>1
    <3> QED
      BY <3>2, <3>3, <3>4 DEF FPTypeOK
  <2>6. Scanning /\ Scanned /\ Searching
    BY <2>1, <2>2, <2>3 DEF Scanning, Scanned, Searching, Unjudged
  <2>7. ShapeKnown /\ PointsPlaced
    BY <2>1, <2>2 DEF ShapeKnown, PointsPlaced, PointsOnTheLine, PointsAcrossTheGap, PointsSeen
  <2>9. Counting
    BY <2>1, <2>8 DEF Counting
  <2> QED
    BY <2>5, <2>6, <2>7, <2>9 DEF IInv
<1>2. ASSUME IInv, [CornerNext]_cornerVars PROVE IInv'
  <2>1. CASE Segment /\ UNCHANGED <<fp, found>>
    BY <1>2, <2>1, SegmentKeeps
  <2>2. CASE Vision_BroderFindFP
    BY <1>2, <2>2, SearchKeeps
  <2>3. CASE UNCHANGED cornerVars
    <3>1. UNCHANGED <<LorR, broder, segs, begin_flag, i, pc, breaks, fp, found>>
      BY <2>3 DEF cornerVars, vars
    <3>2. FPTypeOK' /\ Scanning' /\ Scanned' /\ Searching'
      BY <1>2, <3>1 DEF IInv, FPTypeOK, TypeOK, Scanning, Scanned, Searching, Unjudged, Judged,
                        Open, Closing, Parted
    <3>4. Counting'
      BY <1>2, <3>1 DEF IInv, Counting, Count, Changes, Lost, FewOpen, FewClosed, Against, IsLine
    <3>3. ShapeKnown' /\ PointsPlaced'
      BY <1>2, <3>1 DEF IInv, ShapeKnown, Kinds, PointsPlaced, PointsOnTheLine,
                        PointsAcrossTheGap, PointsSeen
    <3> QED
      BY <3>2, <3>3, <3>4 DEF IInv
  <2> QED
    BY <1>2, <2>1, <2>2, <2>3 DEF CornerNext
<1> QED
  BY <1>1, <1>2, PTL DEF CornerSpec

\* The number of segments is bounded by the rows they need.
LEMMA FitsBound ==
  ASSUME NEW sg \in Seq(Segs), Fits(sg), Len(sg) > 1 => sg[Len(sg)].begin >= 2
  PROVE  4 * (Len(sg) - 1) <= imgRow + 1
<1> DEFINE n == Len(sg)
<1>1. n \in Nat /\ \A k \in 1 .. n : sg[k].begin \in Int
  BY SegFacts
<1>2. CASE n > 1
  <2>1. 4 * (n - 2) <= imgRow - 1 - sg[n].begin
    BY <1>1, <1>2 DEF Fits
  <2>2. sg[n].begin \in Int /\ sg[n].begin >= 2
    BY <1>1, <1>2
  <2> HIDE DEF n
  <2>3. 4 * (n - 1) <= imgRow + 1
    BY <1>1, <2>1, <2>2, RowFacts
  <2> QED
    BY <2>3 DEF n
<1>3. CASE ~(n > 1)
  <2> HIDE DEF n
  <2>1. 4 * (n - 1) <= imgRow + 1
    BY <1>1, <1>3, RowFacts
  <2> QED
    BY <2>1 DEF n
<1> QED
  BY <1>2, <1>3

\* The number of segments is bounded by the changes they are paid for with.
LEMMA FewSegments ==
  ASSUME IInv
  PROVE  Len(segs) <= breaks + 2
<1>1. breaks \in Nat /\ i \in Nat /\ i + 1 \in Nat /\ begin_flag \in {0, 1} /\ Len(segs) \in Nat
  <2>1. TypeOK
    BY DEF IInv, FPTypeOK
  <2>2. segs \in Seq(Segs)
    BY <2>1 DEF TypeOK, Segs
  <2> QED
    BY <2>1, <2>2, SegFacts, RowFacts DEF TypeOK
<1>2. Count(broder, i) \in Nat /\ Count(broder, i + 1) \in Nat
  BY <1>1, CountIs
<1>3. CASE pc # "scan"
  BY <1>3 DEF IInv, Counting
<1>4. CASE pc = "scan" /\ segs = <<>>
  BY <1>1, <1>4, PointSeq
<1>5. CASE pc = "scan" /\ segs # <<>> /\ begin_flag = 0
  <2>1. FewOpen(segs, broder, i)
    BY <1>5 DEF IInv, Counting
  <2>2. (IF i >= 2 THEN Against(segs[Len(segs)], broder, i) ELSE 0) \in 0 .. 1
    BY DEF Against
  <2>3. CASE Len(segs) = 1
    BY <1>1, <2>3
  <2>4. CASE Len(segs) # 1
    BY <1>1, <1>2, <2>1, <2>2, <2>4 DEF FewOpen
  <2> QED
    BY <2>3, <2>4
<1>6. CASE pc = "scan" /\ segs # <<>> /\ begin_flag = 1
  <2>1. FewClosed(segs, broder, i)
    BY <1>6 DEF IInv, Counting
  <2> QED
    BY <1>1, <1>2, <2>1 DEF FewClosed
<1> QED
  BY <1>1, <1>3, <1>4, <1>5, <1>6

\* The invariant says of the segments what a reader of them takes for granted.
LEMMA IsSegmented ==
  ASSUME IInv
  PROVE  Segmented
<1>1. FPTypeOK
  BY DEF IInv
<1>2. segs = <<>> \/ \E b, low : Cut(segs, b, low)
  BY <1>1 DEF IInv, Scanning, Scanned, Open, Closing, Parted, FPTypeOK, TypeOK
<1>3. Len(segs) > 1 => segs[Len(segs)].begin >= 2
  <2>1. SUFFICES ASSUME Len(segs) > 1 PROVE segs[Len(segs)].begin >= 2
    OBVIOUS
  <2>2. segs # <<>> /\ segs \in Seq(Segs) /\ i \in Int /\ i >= 0
    <3>1. segs # <<>>
      BY <2>1, PointSeq
    <3> QED
      BY <1>1, <3>1, RowFacts DEF FPTypeOK, TypeOK, Segs
  <2>3. segs[Len(segs)].begin \in Int /\ segs[Len(segs)].end \in Int
    BY <2>2, SegFacts
  <2>4. CASE pc # "scan"
    BY <2>1, <2>4 DEF IInv, Scanned, Parted
  <2>5. CASE pc = "scan" /\ begin_flag = 0
    <3>1. i >= 1 /\ segs[Len(segs)].begin > i
      BY <2>1, <2>2, <2>5 DEF IInv, Scanning, Open
    <3> QED
      BY <2>2, <2>3, <3>1
  <2>6. CASE pc = "scan" /\ begin_flag = 1
    <3>1. segs[Len(segs)].end = i + 2 /\ segs[Len(segs)].begin - segs[Len(segs)].end >= 3
      BY <2>1, <2>2, <2>6 DEF IInv, Scanning, Closing
    <3> QED
      BY <2>2, <2>3, <3>1
  <2> QED
    BY <1>1, <2>4, <2>5, <2>6 DEF FPTypeOK, TypeOK
<1>4. CASE segs = <<>>
  <2>1. Len(segs) = 0
    BY <1>4, PointSeq
  <2>2. SegmentsFit
    <3>1. 4 * (0 - 1) <= imgRow + 1
      BY RowFacts
    <3> QED
      BY <2>1, <3>1, FewSegments DEF SegmentsFit
  <2>3. AlternateButLast
    BY <2>1 DEF AlternateButLast
  <2>4. pc = "scan"
    BY <1>4 DEF IInv, Scanned, Parted, Cut
  <2> QED
    BY <1>1, <2>2, <2>3, <2>4 DEF Segmented, SegmentsCover, Finished
<1>5. CASE \E b, low : Cut(segs, b, low)
  <2>1. segs \in Seq(Segs) /\ Fits(segs) /\ Alternate(segs)
    BY <1>5 DEF Cut
  <2>2. SegmentsFit
    BY <1>3, <2>1, FitsBound, FewSegments DEF SegmentsFit
  <2>3. AlternateButLast
    BY <2>1 DEF AlternateButLast, Alternate
  <2>4. SegmentsCover
    <3>1. SUFFICES ASSUME pc = "done" PROVE SegmentsCover
      BY DEF SegmentsCover, Finished
    <3>2. PICK low : Parted(segs, broder, low) /\ segs[1].begin - segs[1].end >= 1
      BY <3>1 DEF IInv, Scanned
    <3>3. /\ segs[1].begin = imgRow - 1 /\ segs[Len(segs)].end = 0 /\ Len(segs) \in Nat
          /\ \A k \in 1 .. Len(segs) : segs[k].begin \in Int /\ segs[k].end \in Int
          /\ \A k \in 2 .. Len(segs) : segs[k].begin - segs[k].end >= 2
      BY <3>2, PartedFacts
    <3>4. ASSUME NEW k \in 1 .. Len(segs) - 1
          PROVE  segs[k + 1].begin = segs[k].end - 1 /\ segs[k].end <= segs[k].begin
      <4>1. k \in 1 .. Len(segs) /\ (k # 1 => k \in 2 .. Len(segs))
        BY <3>3
      <4>2. segs[k].begin \in Int /\ segs[k].end \in Int /\ segs[k].begin - segs[k].end >= 1
        BY <3>2, <3>3, <4>1
      <4>3. segs[k + 1].begin = segs[k].end - 1
        BY <3>2 DEF Parted, Cut, Chained
      <4> QED
        BY <4>2, <4>3
    <3> QED
      BY <3>3, <3>4 DEF SegmentsCover
  <2> QED
    BY <1>1, <2>2, <2>3, <2>4 DEF Segmented
<1> QED
  BY <1>2, <1>4, <1>5

\* The segments Vision_GetSegment cuts a border into are a partition of its rows,
\* lost ones and lines alternate, and there are at most two more of them than the
\* border changes between seen and lost, whatever the border.
THEOREM SegmentsOfBorder == CornerSpec => []Segmented
  BY InductiveInvariant, IsSegmented, PTL

\* Behind the first segment every row says what its segment says, before and after
\* the search for corner points rewrote rows.
THEOREM RowsOfSegments == CornerSpec => []RowsAgree
<1>1. ASSUME IInv PROVE RowsAgree
  <2>1. SUFFICES ASSUME NEW k \in 2 .. Len(segs), NEW r \in segs[k].end .. segs[k].begin,
                        r >= 3, pc = "scan" => r > i
                 PROVE  /\ ~IsLine(segs[k]) => broder[r] = 0
                        /\ IsLine(segs[k]) => ~Lost(broder[r])
    BY DEF RowsAgree
  <2>2. \E low \in {0, 2, i} : Cut(segs, broder, low) /\ (low = i => pc = "scan" \/ low <= 2)
    <3>1. CASE pc = "scan"
      <4>1. segs # <<>>
        BY <2>1
      <4>2. begin_flag \in {0, 1}
        BY <1>1 DEF IInv, FPTypeOK, TypeOK
      <4>3. Open(segs, broder, i) \/ Closing(segs, broder, i)
        BY <1>1, <3>1, <4>1, <4>2 DEF IInv, Scanning
      <4> QED
        BY <3>1, <4>3 DEF Open, Closing
    <3>2. CASE pc # "scan"
      BY <1>1, <3>2 DEF IInv, Scanned, Parted
    <3> QED
      BY <3>1, <3>2
  <2>3. PICK low \in {0, 2, i} : Cut(segs, broder, low) /\ (low = i => pc = "scan" \/ low <= 2)
    BY <2>2
  <2>4. k \in 1 .. Len(segs) /\ segs[k].begin \in Int /\ segs[k].end \in Int
    <3>1. k \in 1 .. Len(segs)
      BY <2>1, <2>3, SegFacts DEF Cut
    <3> QED
      BY <2>3, <3>1, SegFacts DEF Cut
  <2>5. r \in Int /\ r > low /\ r >= 2 /\ segs[k].begin # 2
    <3>1. r \in Int /\ r >= 3 /\ r <= segs[k].begin
      BY <2>1, <2>4
    <3>2. r > low
      BY <2>1, <2>3, <3>1
    <3> QED
      BY <2>4, <3>1, <3>2
  <2>6. RowAgrees(segs[k], broder, r)
    BY <2>3, <2>5 DEF Cut, Agree
  <2> QED
    BY <2>1, <2>5, <2>6 DEF RowAgrees
<1> QED
  BY <1>1, InductiveInvariant, PTL

\* Every border comes out as one of the shapes RoadSymbol takes as its inputs.
THEOREM ShapesOfBorders == CornerSpec => []ShapeKnown
<1>1. IInv => ShapeKnown
  BY DEF IInv
<1> QED
  BY <1>1, InductiveInvariant, PTL

\* Every corner point lies on the line it belongs to, on a row that was seen, and
\* two of them span a long gap.
THEOREM PointsOfBorders == CornerSpec => []PointsPlaced
<1>1. IInv => PointsPlaced
  BY DEF IInv
<1> QED
  BY <1>1, InductiveInvariant, PTL
=============================================================================
