---------------------------- MODULE MCRoadSymbol ----------------------------
EXTENDS RoadSymbol

\* The turn between two frames: a correction back, the turn of the lane, and a
\* quarter turn for a box that was pushed in between.
MCTurns == {-50, 25, 100}
=============================================================================
