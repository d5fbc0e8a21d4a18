SPECIFICATION Spec
CONSTANT Points <- SomePoints
INVARIANTS
  TypeOK
  MeasuringGoesOn
  TouchIsWatched
PROPERTIES
  UpIsReported
  RestIsReported
