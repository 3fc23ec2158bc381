SPECIFICATION CornerSpec
CONSTANTS
  imgRow = 13
  Distances <- MCDistances
  GivenBorders <- MCBorders
  Short = 2
  Long = 4
  Reach = 4
  ArcRow = 4
INVARIANTS
  Segmented
  RowsAgree
  ShapeKnown
  PointsPlaced
