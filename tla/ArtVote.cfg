SPECIFICATION FairSpec
CONSTANTS
  Classes = {4, 109}
  MaxLosses = 3
  MaxBoxes = 2
INVARIANTS
  VoteCounted
  KnownClass
  OneEntryPerBox
PROPERTIES
  VoteEnds
