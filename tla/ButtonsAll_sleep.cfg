SPECIFICATION Spec
CONSTANTS
  Procs = {p1, p2}
  NKeys = 1
  Signals = FALSE
INVARIANT SleepsWithoutAction
