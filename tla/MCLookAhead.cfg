SPECIFICATION Spec
CONSTANTS
  Page <- SmallPage
  ssd2fsblkRatio = 3
  PageFile <- SmallPageFile
  BlockFile <- SmallBlockFile
  INF = 99
  Capacity = 2
  UpperCapacity = 1
  futureWindowSize = 3
  Idle = Idle
INVARIANTS
  MinCachesConsistent
  MinAssertsHold
  Optimal
  OwbpConsistent
  MetadataStaysTrue
CHECK_DEADLOCK FALSE
