SPECIFICATION FairSpec
CONSTANT MaxVersion = 4
INVARIANTS
  TypeOK
  NoChangeTwice
  OutdatedPackageIsEmpty
  HandoverIsContiguous
PROPERTIES
  ImplementsFeed
  HandoverNeverGoesBack
  EveryChangeIsTold
  BeginWriteEnds
  ErrorIsTold
CHECK_DEADLOCK FALSE
