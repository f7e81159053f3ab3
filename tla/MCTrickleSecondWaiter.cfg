SPECIFICATION Spec
CONSTANTS
  Client = {c1, c2, c3}
  NumChunks = 2
  MaxClientId = 2
  Control = "UDP"
  MinClients = 1
  CacheSize = 1
  MaxOutstanding = 1
  Lossy = {}
  Overtaking = FALSE
  Leavers = {}
  MaxRetries = 0
  Unbounded = {}
  MaxControl = 1
  MaxServerControl = 3
  MaxSends = 1
  MaxServerSends = 2
  MaxInFlight = 1
SYMMETRY ClientSymmetry
INVARIANTS
  WaitersAreServed
CHECK_DEADLOCK FALSE
