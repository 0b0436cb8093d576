\* Configuration: up to two levels, none, or a negative number. Simulator: two
\* levels, whose policies return the different kinds of flags. Analysis: a run of
\* 12 pages is counted but not summed, and one of 20 is too long for the list.
SPECIFICATION Spec
CONSTANTS
  Idle = Idle
  ArgCount = {3, 4, 5, 6}
  MaxLevelCount = 2
  Digits = {1}
  Unit = {"none", "K", "lower"}
  ConfigPolicy = {"purelru", "owbp"}
  Kilo = 2
  TraceLine <- SmallLine
  TraceFile <- SmallFile
  MaxTraceLines = 4
  PageBytes = 2
  BlockPages = 3
  TicksPerSecond = 7
  UnixEpoch = 3
  Levels = 2
  LoopPolicy = {"ziqilru", "arc", "pagemin", "blockmin", "owbp", "darc"}
  TraceSize = {0, 1, 2}
  seqThreshold = 8
  App = {"disksim", "seq-length-analysis"}
  RunLength = {1, 2, 3, 4, 7, 8, 11, 12, 20}
  ListSize = 20
  Summed = 12
  ClassStarts = {1, 2, 4, 8}
  MaxLogLines = 5
  LockDuration = {1, 2}
  MaxLockTime = 4
  MaxLocks = 4
  max_connections = 1
  NumBlocks = 2
  PagesPerBlock = 2
  NoData = NoData
  PlaneSize = 2
  DieSize = 1
  PackageSize = 1
  SsdSize = 1
  BlockErases = 4
INVARIANTS
  ReadyMeansComplete
  RequestsComplete
  LinesOrderAccesses
  LevelsChain
  ClassesPartition
  ChannelScheduleRight
  PlaneCountersRight
PROPERTIES
  ProgressIsHonest
  ProgramEnds
CHECK_DEADLOCK FALSE
