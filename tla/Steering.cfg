SPECIFICATION SteeringSpec
CONSTANTS
  imgRow = 70
  imgCol = 188
  row_begin = 20
  LeftColumns = {12, 40, 75}
  PointRows = {30, 58}
INVARIANTS
  OffsetBounded
  RingSteered
  CrossClosed
