SPECIFICATION Spec
CONSTANTS
  NoRequest = NoRequest
  Idle = Idle
  Op = {"READ", "WRITE"}
  flushTimeGap = 2
  Word = 32
  MaxTime = 5
  MaxLogged = 5
  NumPages = 5
  Capacity = 3
  NumPagesOfTwo = 4
  UpperCapacity = 1
  LowerCapacity = 2
  ArcPage = {1, 2, 3, 4}
  ArcOp = {"READ"}
  ArcUpperCapacity = 3
  ArcLowerCapacity = 2
  MaxEvictions = 11
INVARIANTS
  PageLRUConsistent
  ArcAssertsHoldAtBothLevels
PROPERTIES
  FlushesOncePerInterval
  GroupsAndCountsOnce
  LogInTimeOrder
  PageLRUImplementsWriteBack
CHECK_DEADLOCK FALSE
