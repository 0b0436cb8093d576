SPECIFICATION Spec
CONSTANTS
  NumPages = 4
  Op = {"READ", "WRITE"}
  UpperCapacity = 1
  LowerCapacity = 2
  flushTimeGap = 2
  Word = 32
  MaxTime = 5
  MaxLogged = 5
  NoRequest = NoRequest
PROPERTY LowerFlushesEachInterval
CHECK_DEADLOCK FALSE
