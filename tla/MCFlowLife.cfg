SPECIFICATION Spec
CONSTANTS
  SeqWord = 1000
  LenWord = 200
  NoPacket = NoPacket
  ISN = 100
  MaxPackets = 5
  MaxRepeated = 4
INVARIANTS
  IInv
  HttpIffHooked
  HookedIsOrdered
  DanglingOnlyUnhooked
  FreedOnce
CHECK_DEADLOCK FALSE
