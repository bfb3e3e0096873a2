SPECIFICATION LineSpec
CONSTANTS
  MaxItems = 4
  MaxDisks = 13
  Nil = Nil
INVARIANTS
  MachineFits
  LineIsWhole
  SidecarsServe
CHECK_DEADLOCK FALSE
