SPECIFICATION FairSpec
CONSTANTS
  w1 = w1
  w2 = w2
  w3 = w3
  w4 = w4
  Wsis <- MCWsisTwo
  Users <- MCUsers
  NoWsi = NoWsi
  NoBuffer = NoBuffer
  InitSlots = 4
  SlotBytes = 8
  BufferCt = 3
  MaxLines = 4
  AllocMayFail = FALSE
PROPERTIES
  QueuedLineLeaves
  RoomFairSpec
INVARIANTS
  AttributionOfAuthenticated
