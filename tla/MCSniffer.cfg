SPECIFICATION FairSpec
CONSTANTS
  Flows = {f1, f2}
  Sockets <- MCSockets
  Buckets = {1, 2}
  Hash <- MCHash
  Traces <- OfflineTraces
  Live = FALSE
  Timeout = 0
  Word = 65536
  None = None
INVARIANTS
  IInv
  OnePlace
  UniqueConnection
  PacketOnePlace
  ChainsInOrder
  StaleOnlyIfForced
PROPERTIES
  ClosedIsFinal
  Terminates
