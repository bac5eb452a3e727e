SPECIFICATION Spec
CONSTANTS
  Flows = {f1, f2, f3}
  Sockets <- MCSockets
  HASH_SIZE = 2
  Hash <- MCHash
  NULL = NULL
  None = None
  MaxDrift = 1
SYMMETRY Addresses
INVARIANTS
  WellLinked
  CountExact
  IInv
PROPERTIES
  ImplementsTable
