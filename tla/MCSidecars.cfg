SPECIFICATION FairSpec
CONSTANTS
  N = 2
  Helpers = TRUE
  Stopper = TRUE
  Reboots = TRUE
INVARIANTS
  NoStrangerSignalled
  ReadyIsFresh
  StopReachesAll
PROPERTIES
  PersistedStopIsExact
  StopsAll
CHECK_DEADLOCK FALSE
