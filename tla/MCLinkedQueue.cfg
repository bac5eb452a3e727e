SPECIFICATION FairSpec
CONSTANTS
  Threads = {t1, t2, t3}
  Nodes = {n1, n2, n3}
  NULL = NULL
  None = None
INVARIANTS
  TypeOK
  QueueWellFormed
  IInv
PROPERTIES
  ImplementsFifo
  MutexReleased
