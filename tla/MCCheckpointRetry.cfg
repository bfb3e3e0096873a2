SPECIFICATION Spec
CONSTANTS
  a = a
  b = b
  c = c
  Savers = {a, b}
  Vms = {"x", "y"}
  Ids = {"x", "y"}
  VmOf <- Hooked
  IdOf <- Hooked
  None = None
  Foreign = Foreign
  MaxLosses = 1
INVARIANTS
  CrashRetainsSource
