SPECIFICATION Spec
CONSTANTS
  VMs = {a, b}
  a = a
  b = b
  NPorts = 2
  Modes = {"vagrant"}
  MaxCrashes = 0
  None = None
INVARIANTS
  ResumeComesUp
