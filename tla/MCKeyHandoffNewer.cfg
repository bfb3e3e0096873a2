SPECIFICATION Spec
CONSTANTS
  MaxAttempts = 1
  MaxResets = 1
INVARIANTS
  ObservedResetIsNewer
CHECK_DEADLOCK FALSE
