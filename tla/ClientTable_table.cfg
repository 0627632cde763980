SPECIFICATION Spec
CONSTANTS
  w1 = w1
  w2 = w2
  w3 = w3
  w4 = w4
  Wsis <- MCWsisFour
  Users <- MCUsersOne
  NoWsi = NoWsi
  NoBuffer = NoBuffer
  InitSlots = 4
  SlotBytes = 8
  BufferCt = 3
  MaxLines = 3
  AllocMayFail = TRUE
SYMMETRY MCSymmetry
CHECK_DEADLOCK FALSE
INVARIANTS
  TypeOK
  OneSlotPerConnection
  SoundBelowGrowth
  InOrderDelivery
  NoLostWakeup
PROPERTIES
  NothingTakenBack
