SPECIFICATION MetaSpec
CONSTANTS
  w1 = w1
  w2 = w2
  Writers = {w1, w2}
  Chunks = 2
  Inodes = {1, 2, 3, 4, 5, 6}
  NoFile = NoFile
  MaxVersion = 4
  MaxFailures = 1
INVARIANTS
  ReadsOneVersion
  AckedSurvives
  GoneMeansGone
CHECK_DEADLOCK FALSE
