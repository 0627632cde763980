SPECIFICATION MCSpec
CONSTANTS
  Layouts <- MCLayouts
  MaxCalls = 2
  InitSlots = 3
  MaxClients = 3
  MaxCallbacks = 3
  MaxSignals = 2
INVARIANTS
  TypeOK
  ServingIsSafe
  QuietShutdownIsClean
  NoCircularWait
  StatementTypeOK
  EveryMarkItsOwnValue
  OnlyFailedBindsLeak
PROPERTY ShutdownEnds
CHECK_DEADLOCK FALSE
