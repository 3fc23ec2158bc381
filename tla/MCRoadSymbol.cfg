SPECIFICATION FairSpec
CONSTANT
  Turns <- MCTurns
INVARIANTS
  StatesAgree
  FinishIsLate
PROPERTIES
  DeniedInARow
  RingTurned
  RingLeft
