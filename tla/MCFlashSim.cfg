SPECIFICATION Spec
CONSTANTS
  NoData = NoData
  Idle = Idle
  HostData = {x, y}
SYMMETRY Symmetry
INVARIANTS
  ReadsLastWrite
  BlocksAccounted
  AssertsHold
  DftlTablesAgree
CHECK_DEADLOCK FALSE
