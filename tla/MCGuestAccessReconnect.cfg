SPECIFICATION Spec
CONSTANTS
  VMs = {a, b}
  a = a
  b = b
  NPorts = 2
  Modes = {"cloud-init"}
  MaxCrashes = 0
  None = None
PROPERTIES
  ReconnectsOnlyAlive
