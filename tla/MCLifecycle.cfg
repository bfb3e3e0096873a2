SPECIFICATION FairSpec
CONSTANTS
  Sup = Sup
  Stoppers = {s, h}
  Hook = {h}
  s = s
  h = h
  Dest = {d}
  d = d
  None = None
  LaunchSaves = {None, d}
  StopSave <- NoStopSave
  EarlyStop = FALSE
  CrashAt <- Anywhere
  SidecarsDie = TRUE
  QemuDies = TRUE
  Tty = TRUE
  MaxWrites = 2
INVARIANTS
  CopyOnlyStoppedDisk
  CleanupAfterQemu
  FailedSaveKeepsOverlay
  LaunchSaveNeverLost
PROPERTIES
  Converges
