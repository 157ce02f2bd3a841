CONSTANTS
  Site = {1, 2}
  MaxEdits <- TwoByTheFirst
  MaxPos = 2
SPECIFICATION Spec
CHECK_DEADLOCK FALSE
INVARIANTS
  TypeOK
  SameEditsSameText
PROPERTIES
  LastEditExact
