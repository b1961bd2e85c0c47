SPECIFICATION FairSpec
CONSTANTS
  MaxPlays = 1
  MaxTarget = 2
  MaxLoop = 1
  Shapes <- MCEmptyShapes
PROPERTIES
  EmptyRangesAreRefused
CHECK_DEADLOCK FALSE
