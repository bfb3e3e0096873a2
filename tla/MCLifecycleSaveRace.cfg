SPECIFICATION Spec
CONSTANTS
  Sup = Sup
  Stoppers = {s}
  Hook = {}
  s = s
  Dest = {d}
  d = d
  None = None
  LaunchSaves = {None}
  StopSave <- SameStopSave
  EarlyStop = FALSE
  CrashAt <- Nowhere
  SidecarsDie = FALSE
  QemuDies = FALSE
  Tty = FALSE
  MaxWrites = 1
INVARIANTS
  FailedSaveKeepsOverlay
