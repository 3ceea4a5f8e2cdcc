SPECIFICATION Spec
CONSTANTS
  Ids = {1, 2}
  MaxVersions = 3
INVARIANTS
  TypeOK
  BatchIsConsistent
  RowsHaveTalks
  CellsShowTheirTalks
 
CHECK_DEADLOCK FALSE
