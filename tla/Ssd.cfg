\* Three pages over two sub-arrays and three blocks of two pages: collections
\* run, fail half way and run out of blocks.
CONSTANTS
  s1 = s1
  s2 = s2
  NumPages = 3
  Subarray <- Both
  SubarrayOf <- LastOnOther
  MaxBlocks = 3
  PagesPerBlock = 2
  WearLeveling = FALSE
  Overprovisioning = 100
  TPROG = 1
SPECIFICATION SsdSpec
INVARIANTS
  TablesSound
  FlightKeepsAffinity
  RelocationKeepsAffinity
CHECK_DEADLOCK FALSE
