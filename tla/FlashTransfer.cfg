SPECIFICATION Spec
CONSTANTS
  NB_OF_VAR = 2
  Value = {5, 6}
  NotFound = NotFound
  CAPACITY = 2
  FlashMayFail = FALSE
INVARIANT TransferKeepsVariables
CHECK_DEADLOCK FALSE
