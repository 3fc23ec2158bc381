SPECIFICATION FairSpec
INVARIANTS
  TypeOK
  OneDriver
  RightWithTrace
  CoolDownIsQuiet
  StandsStill
  StartedInOrder
PROPERTIES
  ImplementsHandover
  DetectionServed
  PushReturnsControl
  DetectorRearmed
  ShellServed
