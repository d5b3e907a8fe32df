SPECIFICATION FairSpec
CONSTANTS
  Attempts = 3
  MaxDrops = 2
INVARIANTS
  RequestedTest
PROPERTIES
  DriverEnds
CHECK_DEADLOCK FALSE
