SPECIFICATION Spec
CONSTANTS
  N = 1
  Helpers = TRUE
  Stopper = FALSE
  Reboots = FALSE
INVARIANTS
  HelpersStopped
CHECK_DEADLOCK FALSE
