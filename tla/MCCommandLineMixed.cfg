SPECIFICATION LineSpec
CONSTANTS
  MaxItems = 2
  MaxDisks = 13
  Nil = Nil
INVARIANTS
  MixedMachineFits
  ExtraDisksAppear
CHECK_DEADLOCK FALSE
