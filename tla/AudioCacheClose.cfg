\* Files larger than the budget, and the end of the process.
CONSTANTS
  PcmKeys = {"large"}
  RawKeys = {"medium"}
  Size <- Sizes
  MaxBytes = 2
  Workers = {w1, w2}
  Playbacks = {p1}
  QueueCapacity = 1
  Blocks = {1, 2, 3, 4, 5, 6}
  None = None
SPECIFICATION FairSpec
INVARIANTS
  BudgetHolds
  CachesAreSound
PROPERTIES
  DemandIsKept
  WorkEnds
