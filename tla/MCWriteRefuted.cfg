CONSTANTS
  s1 = s1
  s2 = s2
  s3 = s3
  Site = {s1, s2}
  Strategy <- Integrity
  CommandTuples <- WriteOfS1
  MaxPolicyOps <- TwoEach
  MaxDocOps <- OneByS1
SPECIFICATION Spec
CHECK_DEADLOCK FALSE
PROPERTIES
  AcceptedWriteVisible
