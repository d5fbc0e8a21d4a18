SPECIFICATION Spec
CONSTANTS
  MaxLoads = 2
INVARIANTS
  TypeOK
  UsesWhatIsThere
  GivenBackOnce
  NothingLeft
CHECK_DEADLOCK FALSE
