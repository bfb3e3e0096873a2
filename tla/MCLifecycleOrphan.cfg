SPECIFICATION Spec
CONSTANTS
  Sup = Sup
  Stoppers = {h}
  Hook = {h}
  h = h
  Dest = {d}
  d = d
  None = None
  LaunchSaves = {None}
  StopSave <- NoStopSave
  EarlyStop = FALSE
  CrashAt <- AfterFork
  SidecarsDie = FALSE
  QemuDies = FALSE
  Tty = FALSE
  MaxWrites = 0
INVARIANTS
  LeavesRecord
