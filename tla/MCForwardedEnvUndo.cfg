SPECIFICATION Spec
CONSTANTS
  MaxStages = 2
  MaxCuts = 2
  MaxResets = 1
  Undo = TRUE
INVARIANTS
  ForgottenIsGone
  DeletedBeforeCommand
  UnlistedIsGone
