SPECIFICATION Spec
CONSTANTS
  Commands = {"run", "launch", "ssh"}
  MaxSignals = 1
  SidecarsDie = FALSE
  OtherStop = FALSE
INVARIANTS
  NoLateBlame
  ForcesOnlyTheUnwilling
  NoVictim
CHECK_DEADLOCK FALSE
