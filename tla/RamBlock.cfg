SPECIFICATION Spec
CONSTANTS
  Slots = {1, 2}
  Sectors = 3
  Values = {0, 1}
  Zero = 0
INVARIANTS
  TypeOK
PROPERTIES
  CarriesOut
