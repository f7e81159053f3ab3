SPECIFICATION Spec
CONSTANTS
  NumChunks = 5
  MaxClientId = 2
  Addr = {a1, a2}
  Control = "UDP"
  MinClients = 2
  CacheSize = 1
  RequestedChunks = {0}
  MaxControl = 2
  MaxSends = 1
SYMMETRY AddrSymmetry
INVARIANTS
  TablesConsistent
  DistributionBooks
  EvenShares
  OpenAfterDistribution
  NobodyLeftClosed
  CrashCause
CHECK_DEADLOCK FALSE
