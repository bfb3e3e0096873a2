SPECIFICATION Spec
CONSTANTS
  MaxAttempts = 5
  None = None
INVARIANT
  FailsOnlyOnSilentQemu
CHECK_DEADLOCK FALSE
