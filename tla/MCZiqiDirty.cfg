SPECIFICATION Spec
CONSTANTS
  NumPages = 5
  Op = {"READ", "WRITE"}
  Capacity = 3
  MaxEvictions = 3
  Policies = {"ziqilru"}
  Thresholds = {2}
PROPERTIES DirtyUntilFlushed
CHECK_DEADLOCK FALSE
