SPECIFICATION Spec
CONSTANTS
  a = a
  b = b
  c = c
  Savers = {a, b, c}
  Vms = {"x", "y"}
  Ids = {"x", "y"}
  VmOf <- Retry
  IdOf <- Retry
  None = None
  Foreign = Foreign
  MaxLosses = 2
INVARIANTS
  CompleteOrAbsent
  SourceRetained
PROPERTY
  ImplementsStore
