SPECIFICATION Spec
CONSTANTS
  NoData = NoData
  PagesPerBlock = 2
  SimpleCurrentFree = {0}
  HostPages = {0, 1, 2}
  totalCMTentries = 2
  addressPerPage = 2
  NumToErase = 5
  NumBlocks = 4
  Op = {"WRITE"}
  MaxRequests = 11
  GcPercent = 90
INVARIANT ReadsLastWrite
CHECK_DEADLOCK FALSE
