SPECIFICATION Spec
CONSTANTS
  Commands = {"run"}
  MaxSignals = 0
  SidecarsDie = TRUE
  OtherStop = FALSE
INVARIANTS
  FailureCleansUp
CHECK_DEADLOCK FALSE
