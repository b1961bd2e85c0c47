SPECIFICATION Spec
CONSTANTS
  r1 = r1
  r2 = r2
  r3 = r3
  r4 = r4
  r5 = r5
  h1 = h1
  h2 = h2
  Resource = {r1, r2, r3, r4, r5}
  Data = {1, 2}
  Path = {"p", "q"}
  NoPath = NoPath
  KeyOf <- MCKey
  PathOf <- MCPath
  HashOf <- MCHash
  MappingCapacity = 4
  ReplacementCapacity = 4
  Empty = Empty
  External = {"a", "b"}
  Streaming = {"a"}
  Engine = {"e"}
  Word = 16
  HeaderSize = 4
  FrameHeaderSize = 2
  Envelope = 2
  Accumulator = 65536
  Versions <- MCVersions
  GameRoot <- MCRoot
  Questions <- MCQuestions
  Hook = {h1, h2}
  Batches <- MCBatches
  MaxRelays = 2
  RingSize = 7
  RecordSize = 2
  LineSize = 2
  HistoryLines = 2
  Texts <- MCTexts
  MaxWrites = 3
  Followers = {f1}
  MaxLines = 1
  MaxDepth = 3
  NoParent = NoParent
  CallByte = 5
  LeaByte = 6
  MovByte = 33
  BadByte = 34
  Wildcard = Wildcard
  Bad = Bad
  NoText = NoText
  MaxPattern = 2
  MaxSteps = 3
  MaxCandidates = 3
  MaxReferences = 2
  Queries <- MCQueries
  Connection = {d1, d2, d3}
  QueueSize = 1
  MaxStarts = 2
  Drawn <- MCDrawn
  Probes <- MCProbes
  FontOf <- MCFonts
  BaseFont = "base"
  NoFont = NoFont
  TextBytes = 5
  MaxTexts = 2
  MaxBatch = 1
  CodeUnits <- MCUnits
  MaxUnits = 4
INVARIANTS
  TablesAreSearchable
  ResourcesAreServed
  FilesAreDescribed
  
  LogIsComplete
  LocatedIsTheOnlyOne
  CallersAreAnswered
  
PROPERTIES
  ImplementsMap
  StopReturns
CHECK_DEADLOCK FALSE
