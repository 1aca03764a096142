CONSTANTS
  Sums <- MCSums
SPECIFICATION FairSpec
INVARIANTS TypeOK AverageWithinMeasured PrintedRightElsewhere
PROPERTIES TowardsMeasured ComesToRest
