SPECIFICATION Spec
CONSTANTS
  Procs = {p1, p2}
  Addrs = {0, 1}
  Data = {d1, d2}
  Junk = junk
  NoProc = none
INVARIANT TypeOK
PROPERTIES
  ImplementsByteStore
  CellsChangeByWriter
