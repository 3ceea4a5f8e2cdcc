SPECIFICATION Spec
CONSTANTS
  Dates = {0, 1}
  MaxRows = 4
  MaxOps = 4
INVARIANTS
  PendingChangeIsExact
  ReloadedRowsSurvive
  MovesAreTrue
PROPERTY UnsortedDiffIsMinimal
CHECK_DEADLOCK FALSE
