SPECIFICATION Spec
CONSTANTS
  Page = {1, 2, 3, 4}
  Op = {"READ"}
  UpperCapacity = 1
  LowerCapacity = 3
  MaxEvictions = 18
  NoRequest = NoRequest
INVARIANT VictimsExistAtBothLevels
CHECK_DEADLOCK FALSE
