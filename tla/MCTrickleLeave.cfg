SPECIFICATION Spec
CONSTANTS
  Client = {c1, c2}
  NumChunks = 1
  MaxClientId = 1
  Control = "UDP"
  MinClients = 2
  CacheSize = 2
  MaxOutstanding = 1
  Lossy = {"REQ", "OPEN", "REG"}
  Overtaking = FALSE
  Leavers = {c1}
  MaxRetries = 1
  Unbounded = {}
  MaxControl = 1
  MaxServerControl = 3
  MaxSends = 1
  MaxServerSends = 1
  MaxInFlight = 1
INVARIANTS
  ChunkSurvives
  RightIdentity
PROPERTIES
  ImplementsServer
CHECK_DEADLOCK FALSE
