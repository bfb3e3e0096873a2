SPECIFICATION Spec
CONSTANTS
  MaxAttempts = 2
  MaxResets = 2
INVARIANTS
  NoScriptOutlives
  HandoffRevokes
CHECK_DEADLOCK FALSE
