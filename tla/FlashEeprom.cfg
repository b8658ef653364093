SPECIFICATION Spec
CONSTANTS
  NB_OF_VAR = 2
  Value = {5, 6}
  NotFound = NotFound
  CAPACITY = 3
  FlashMayFail = TRUE
INVARIANT SecondBootRepairs
PROPERTIES SuccessIsReadable ImplementsStore
CHECK_DEADLOCK FALSE
