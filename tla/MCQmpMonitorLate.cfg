SPECIFICATION Spec
CONSTANTS
  c1 = c1
  c2 = c2
  h1 = h1
  h2 = h2
  Callers = {c1, c2}
  Handlers = {h1}
  None = None
  MaxCommands = 2
  MaxEvents = 2
INVARIANT
  EveryHandlerHears
CHECK_DEADLOCK FALSE
