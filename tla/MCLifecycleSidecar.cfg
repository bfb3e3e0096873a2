SPECIFICATION Spec
CONSTANTS
  Sup = Sup
  Stoppers = {s}
  Hook = {}
  s = s
  Dest = {d}
  d = d
  None = None
  LaunchSaves = {None}
  StopSave <- NoStopSave
  EarlyStop = FALSE
  CrashAt <- Nowhere
  SidecarsDie = TRUE
  QemuDies = FALSE
  Tty = FALSE
  MaxWrites = 0
INVARIANTS
  SidecarFailureFailsSession
