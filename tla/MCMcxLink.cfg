SPECIFICATION Spec
CONSTANTS
  Byte <- MCByte
  Payloads <- MCPayloads
  MaxLosses = 3
INVARIANTS
  TypeOK
  FrameAssembled
  Recovers
PROPERTIES
  DetectionAsSent
