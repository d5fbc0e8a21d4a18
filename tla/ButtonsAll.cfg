SPECIFICATION Spec
CONSTANTS
  Procs = {p1, p2}
  NKeys = 2
  Signals = FALSE
INVARIANTS
  TypeOK
  OneOpener
  OpenHasInterrupts
  PollTold
  QuietKeyIsCurrent
PROPERTIES
  ReadMeansAction
  ReaderHears
