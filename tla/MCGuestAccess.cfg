SPECIFICATION Spec
CONSTANTS
  VMs = {a, b, c}
  a = a
  b = b
  c = c
  NPorts = 2
  Modes = {"cloud-init", "vagrant", "static"}
  MaxCrashes = 1
  None = None
SYMMETRY Symmetry
INVARIANTS
  NoForeignLogin
  ReadyIsOwnGuest
  VagrantKeyRevoked
  FailsOnlyForCause
