SPECIFICATION MetaSpec
CONSTANTS
  w1 = w1
  w2 = w2
  Writers = {w1, w2}
  Chunks = 1
  Inodes = {1, 2, 3, 4, 5, 6}
  NoFile = NoFile
  MaxVersion = 3
  MaxFailures = 0
INVARIANTS
  DisappearedIsTrue
  EveryReadIsWhole
CHECK_DEADLOCK FALSE
