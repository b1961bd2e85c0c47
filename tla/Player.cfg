SPECIFICATION Spec
CONSTANTS
  MaxPlays = 2
  MaxTarget = 1
  MaxLoop = 1
  Shapes <- MCShapes
  ErrorCode = {1, 2}
  Streams <- MCStreams
  MaxRead = 3
  MaxBytes = {1, 4, 5, 20}
  Overhead = 1
  Libraries <- MCLibraries
  NoAsset = NoAsset
  p1 = p1
  p2 = p2
SYMMETRY Symmetry
INVARIANTS
  CachesAreSound
  
  OutputIsWhole
  DecodingIsExact
  NothingStaysBehind
PROPERTIES
  EndsAreTold
  ReadsProgress
CHECK_DEADLOCK FALSE
