SPECIFICATION Spec
CONSTANTS
  MaxMsgs = 3
  MaxLen = 2
  Calls <- AllTransfers
  Timeouts = FALSE
INVARIANT TypeOK
PROPERTIES
  ImplementsMaster
