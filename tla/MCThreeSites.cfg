CONSTANTS
  s1 = s1
  s2 = s2
  s3 = s3
  Site = {s1, s2, s3}
  Strategy <- Accessibility
  CommandTuples <- WriteOfS1
  MaxPolicyOps <- TwoEachButByS1
  MaxDocOps <- OneByS1
SPECIFICATION Spec
CHECK_DEADLOCK FALSE
SYMMETRY Administrators
INVARIANTS
  AllowCoversWhatWasSeen
  IInv
  ConvergesUnlessCrossed
PROPERTIES
  ReallowRedoesSeenWrites
  LogsAreDelivered
