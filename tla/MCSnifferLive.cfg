SPECIFICATION FairSpec
CONSTANTS
  Flows = {f1, f2}
  Sockets <- MCSockets
  Buckets = {1, 2}
  Hash <- MCHash
  Traces <- LiveTraces
  Live = TRUE
  Timeout = 0
  Word = 65536
  None = None
PROPERTIES
  QuietFlowsLeave
