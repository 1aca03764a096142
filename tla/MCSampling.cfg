CONSTANTS
  INTS_SEC = 3
  CounterSize = 8
  Readings = 16
  LineLength = 2
SPECIFICATION FairSpec
INVARIANTS TypeOK MissingOnlyByStrays
PROPERTIES MeasurementEnds
