CONSTANTS
  Server = {s1, s2, s3}
  Actors = {1, 2, 3}
  MaxOps = 1
  MaxRestarts = 0
SPECIFICATION Spec
CHECK_DEADLOCK FALSE
INVARIANTS
  AppendsSurvive
