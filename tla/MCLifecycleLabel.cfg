SPECIFICATION Spec
CONSTANTS
  Sup = Sup
  Stoppers = {s}
  Hook = {}
  s = s
  Dest = {d}
  d = d
  None = None
  LaunchSaves = {d}
  StopSave <- NoStopSave
  EarlyStop = FALSE
  CrashAt <- Nowhere
  SidecarsDie = TRUE
  QemuDies = FALSE
  Tty = FALSE
  MaxWrites = 0
INVARIANTS
  CleanLabelIsTrue
