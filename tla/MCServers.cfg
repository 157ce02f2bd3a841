CONSTANTS
  Server = {s1, s2, s3}
  Actors = {1, 2, 3, 4}
  MaxOps = 1
  MaxRestarts = 1
SPECIFICATION Spec
SYMMETRY Alike
CHECK_DEADLOCK FALSE
INVARIANTS
  TypeOK
  WinningListSurvives
  MissingOnlyByDot
