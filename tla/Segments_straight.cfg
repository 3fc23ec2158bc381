SPECIFICATION Spec
CONSTANTS
  imgRow = 9
  Distances = {0, 9, 30}
  GivenBorders <- EveryBorder
  Short = 2
INVARIANT
  BentIsOffTheLine
