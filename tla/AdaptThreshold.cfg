SPECIFICATION Spec
CONSTANTS
  GrayScale = 8
  pixelSum = 9
INVARIANTS
  SplitAtFirstPeak
  WholeFrame
