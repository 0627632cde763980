SPECIFICATION FairSpec
CONSTANTS
  Latest = 4
  MaxStops = 3
CHECK_DEADLOCK FALSE
INVARIANTS
  TypeOK
  UpIsCurrent
  VersionMatchesColumns
PROPERTIES
  UntornStartSucceeds
