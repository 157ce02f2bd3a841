CONSTANTS
  s1 = s1
  s2 = s2
  s3 = s3
  Site = {s1, s2}
  Strategy <- Integrity
  CommandTuples <- AdminOfS1AndWriteOfS2
  MaxPolicyOps <- TwoEach
  MaxDocOps <- OneByS2
SPECIFICATION Spec
CHECK_DEADLOCK FALSE
INVARIANTS
  TypeOK
  Stable
  NoValidConflict
  DeniedWritesErased
  ConvergesUnlessCrossed
  DotsUnique
  DepsDelivered
PROPERTIES
  FavouredCommandTakesEffect
  ReallowRedoesSeenWrites
