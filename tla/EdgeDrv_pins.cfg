SPECIFICATION EdgeSpec
CONSTANTS
  Procs = {p1, p2}
  NKeys = 2
  Signals = TRUE
INVARIANTS
  OpenConfiguresPins
