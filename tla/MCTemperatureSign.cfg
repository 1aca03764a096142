CONSTANTS
  Sums <- MCSums
SPECIFICATION Spec
INVARIANTS PrintedIsTemperature
