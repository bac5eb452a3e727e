SPECIFICATION Spec
CONSTANTS
  SeqWord = 32
  LenWord = 8
  NoPacket = NoPacket
  ISNs = {26}
  Header = 2
  Sizes = {2, 3}
  MaxSegments = 5
  MaxTied = 4
  MaxLossy = 5
INVARIANTS
  IInv
  AllPaired
  LengthsMatch
  LastByteIsLast
  NeverMismatched
  LossesShiftOnly
CHECK_DEADLOCK FALSE
