SPECIFICATION Spec
CONSTANTS
  ArgCount = {4}
  LevelCount = {2}
  Digits = {1}
  Unit = {"none"}
  Policy = {"purelru"}
  Kilo = 2
INVARIANT LogWorksAsInput
CHECK_DEADLOCK FALSE
