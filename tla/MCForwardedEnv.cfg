SPECIFICATION FairSpec
CONSTANTS
  MaxStages = 2
  MaxCuts = 2
  MaxResets = 1
  Undo = FALSE
INVARIANTS
  NoForwardedValueSaved
  ForgottenIsGone
  CommandRunsClean
  NeverReplayed
PROPERTIES
  SignalEnds
