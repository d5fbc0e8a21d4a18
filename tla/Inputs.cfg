SPECIFICATION Spec
CONSTANTS
  Pins = {1, 2, 6}
  Mice = {m1, m2}
  Buttons = {0}
  NoMouse = NoMouse
INVARIANTS
  TypeOK
  KeysAreTrue
  MouseKeysAreTrue
  SilentOnlyIfRefused
PROPERTIES
  KeysComeUp
  ReportsArrive
