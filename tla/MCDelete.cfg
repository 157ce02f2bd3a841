CONSTANTS
  Site = {1, 2}
  MaxEdits <- OneEach
  MaxPos = 0
SPECIFICATION Spec
CHECK_DEADLOCK FALSE
PROPERTIES
  DeleteTakesEffect
