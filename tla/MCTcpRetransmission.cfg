SPECIFICATION Spec
CONSTANTS
  SeqWord = 1000
  LenWord = 200
  NoPacket = NoPacket
  Cases <- Unusual
PROPERTIES
  RetransmissionFreed
CHECK_DEADLOCK FALSE
