SPECIFICATION Spec
CONSTANTS
  N = 1
  Helpers = FALSE
  Stopper = TRUE
  Reboots = FALSE
INVARIANTS
  PersistedSparesStrangers
CHECK_DEADLOCK FALSE
