SPECIFICATION Spec
CONSTANTS
  w1 = w1
  w2 = w2
  w3 = w3
  w4 = w4
  Wsis <- MCWsis
  Users <- MCUsers
  NoWsi = NoWsi
  NoBuffer = NoBuffer
  InitSlots = 3
  SlotBytes = 8
  BufferCt = 3
  MaxLines = 3
  AllocMayFail = FALSE
CHECK_DEADLOCK FALSE
INVARIANTS
  RoomForEveryClient
