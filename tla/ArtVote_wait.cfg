SPECIFICATION FairSpec
CONSTANTS
  Classes = {4, 101}
  MaxLosses = 1
  MaxBoxes = 1
PROPERTIES
  WaitsForClass
