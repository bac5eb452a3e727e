SPECIFICATION Spec
CONSTANTS
  SeqWord = 1000
  LenWord = 200
  NoPacket = NoPacket
  Cases <- Ordinary
INVARIANTS
  TypeOK
  Sorted
  Complete
  LengthsFit
  CheckAgrees
PROPERTIES
  RetransmissionDropped
CHECK_DEADLOCK FALSE
