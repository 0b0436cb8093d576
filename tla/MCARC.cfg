SPECIFICATION Spec
CONSTANTS
  Page = {p1, p2, p3, p4, p5}
  Op = {"READ", "WRITE"}
  Capacity = 3
  MaxEvictions = 7
SYMMETRY Symmetry
INVARIANTS TypeOK ListsConsistent SizesWithinBounds VictimsExist
PROPERTIES NoEarlyEviction ImplementsWriteBack
CHECK_DEADLOCK FALSE
