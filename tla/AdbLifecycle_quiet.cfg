CONSTANTS
  Platform = {"winnt"}
  Helper = {"io"}
  MaxFatals = 1
SPECIFICATION Spec
INVARIANT QuietCleanup
CHECK_DEADLOCK FALSE
