SPECIFICATION FairSpec
CONSTANT MaxVersion = 1
PROPERTY ErrorReachesTheBlock
CHECK_DEADLOCK FALSE
