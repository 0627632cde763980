SPECIFICATION Spec
CONSTANTS
  Latest = 4
  MaxStops = 1
CHECK_DEADLOCK FALSE
INVARIANTS
  IsLatestVersion
