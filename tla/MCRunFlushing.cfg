SPECIFICATION Spec
CONSTANTS
  NumPages = 5
  Op = {"READ", "WRITE"}
  Capacity = 3
  MaxEvictions = 6
  Policies = {"ziqilru", "dynamiclru", "dynamicBlru", "dynamicClru", "hotcoldlru"}
  Thresholds = {0, 1, 2, 3}
INVARIANTS Consistent EvictionsAccounted ThresholdBounded
PROPERTIES FlushesAWholeRun ImplementsWriteBack
CHECK_DEADLOCK FALSE
