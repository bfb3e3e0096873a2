SPECIFICATION FairSpec
CONSTANTS
  Commands = {"run", "launch", "ssh"}
  MaxSignals = 2
  SidecarsDie = TRUE
  OtherStop = TRUE
INVARIANTS
  NothingOutlives
  SaveIsSafe
PROPERTIES
  SignalEnds
CHECK_DEADLOCK FALSE
