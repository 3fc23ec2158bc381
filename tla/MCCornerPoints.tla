--------------------------- MODULE MCCornerPoints ---------------------------
EXTENDS CornerPoints

Lose == 0    \* lost
Near == 4    \* lost, but where a segment of the left border begins
Seen == 9

\* Bound: so many rows may be doubtful.
MaxNear == 3

MCDistances == {Lose, Near, Seen}

\* The borders of which few rows are doubtful, the others being lost or seen.
MCBorders == {b \in [Rows -> Distances] : Cardinality({r \in Rows : b[r] = Near}) <= MaxNear}
=============================================================================
