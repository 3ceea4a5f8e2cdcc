SPECIFICATION Spec
CONSTANTS
  Dates = {0, 1}
  MaxRows = 2
  MaxOps = 2
INVARIANT ModificationsAreOfNewResults
CHECK_DEADLOCK FALSE
