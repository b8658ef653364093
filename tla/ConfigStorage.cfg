SPECIFICATION Spec
CONSTANTS
  LAST_VAR = 2
  Value = {a, b}
  a = a
  b = b
  DefaultValue = a
  Zero = b
  Unset = Unset
  NotFound = NotFound
  MaxFaults = 2
INVARIANT OneStoreInUse
PROPERTIES MarkedWhenComplete NothingStaleStored SavedIsStored
