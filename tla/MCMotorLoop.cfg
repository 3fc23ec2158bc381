SPECIFICATION FairSpec
CONSTANTS
  Motors = {"A", "B"}
  Commands <- SomeCommands
  ActSpeeds = {0, 500}
  YawErrors <- SomeYawErrors
  YawMax = 500
  Rate = 400
  IMax = 100
  OutMax = 2000
  maxLinearSpeed = 500
INVARIANTS
  TypeOK
  LockedIsStill
  ForwardLimited
PROPERTIES
  SoftStart
  SpeedReached
