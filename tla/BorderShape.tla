---------------------------- MODULE BorderShape -----------------------------
(***************************************************************************)
(* What is left of a road border once it has been cut into segments and    *)
(* searched for corner points: the kinds of its segments, nearest first,   *)
(* and the number of points.  CornerPoints shows that nothing else comes   *)
(* out of the vision code; RoadSymbol takes every member of Features as an *)
(* input.                                                                  *)
(***************************************************************************)
EXTENDS Integers, Sequences

Bends == {"arc", "corner"}
Lines == Bends \cup {"straight"}

\* What Vision_GetSegment can report of one border: lost stretches and lines
\* alternate, but the last two may both be lines.  Of the second segment the code
\* asks only whether it is there and lost, and of the third only whether it is
\* there, so one kind stands for all.
Borders ==
  {<<"lose">>, <<"lose", "straight">>, <<"lose", "straight", "lose">>}
    \cup UNION {{<<a>>, <<a, "lose">>, <<a, "straight">>, <<a, "lose", "straight">>} :
                a \in Lines}

\* Whether there is a corner point on an arc depends on its pixels.
ArcPoints == {0, 1}

\* The numbers of corner points Vision_BroderFindFP can find on a border.  A gap
\* gives a point at its near end and one behind it, or none if it is short or
\* the two lines are too far apart; a lost near end gives the point where the
\* line begins; a lone arc may have one.
Points(s) ==
  IF Len(s) >= 2 /\ s[2] = "lose" THEN IF Len(s) = 2 THEN {0, 1} ELSE {0, 2}
  ELSE IF s[1] = "lose" THEN IF Len(s) = 1 THEN {0} ELSE {1}
  ELSE IF s = <<"arc">> THEN ArcPoints ELSE {0}

Features == UNION {{[seg |-> s, fp |-> n] : n \in Points(s)} : s \in Borders}

\* The kinds of the first three segments as Borders names them.
Shape(kinds) ==
  [k \in 1 .. IF Len(kinds) < 3 THEN Len(kinds) ELSE 3 |->
     IF k = 1 \/ kinds[k] = "lose" THEN kinds[k]
     ELSE IF k = 3 /\ kinds[2] # "lose" THEN "lose" ELSE "straight"]
=============================================================================
