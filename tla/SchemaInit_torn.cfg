SPECIFICATION FairSpec
CONSTANTS
  Latest = 4
  MaxStops = 1
CHECK_DEADLOCK FALSE
PROPERTIES
  BringsUpToDate
