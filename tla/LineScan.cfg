SPECIFICATION Spec
CONSTANTS
  imgRow = 3
  imgCol = 10
  Shades = {"dark", "bright"}
  range_line = 3
  RightZone = 2
  LeftZone = 8
  Probes = {1, 7}
  MinWidth = 3
INVARIANTS
  BordersUsable
  RoadFollowed
