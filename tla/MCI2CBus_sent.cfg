SPECIFICATION Spec
CONSTANTS
  MaxMsgs = 2
  MaxLen = 2
  Calls <- ByteWrite
  Timeouts = TRUE
INVARIANT SuccessMeansSent
