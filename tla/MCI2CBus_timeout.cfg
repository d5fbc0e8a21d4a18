SPECIFICATION Spec
CONSTANTS
  MaxMsgs = 2
  MaxLen = 2
  Calls <- ClientTransfers
  Timeouts = TRUE
INVARIANTS
  ResultIsTrue
  ReturnsReleased
  StaysInside
  HandlerInStep
  ReadsAreInPlace
PROPERTIES
  CleanTransfers
  AbandonedTransferEnds
\* the system stops where the handler has left its caller's memory (wild)
CHECK_DEADLOCK FALSE
