SPECIFICATION MCSpec
CONSTANTS
  Page = {p1, p2, p3, p4}
  Op = {"READ", "WRITE"}
  Capacity = 3
  MaxEvictions = 3
INVARIANTS TypeOK Consistent StackProperty
PROPERTIES FlushesOnlyTheLRUPage ImplementsWriteBack
CHECK_DEADLOCK FALSE
