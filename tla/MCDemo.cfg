SPECIFICATION DemoFairSpec
CONSTANTS
  Client = {c1, c2}
  NumChunks = 1
  MaxClientId = 1
  Control = "UDP"
  MinClients = 2
  CacheSize = 1
  MaxOutstanding = 1
  Lossy = {"REQ"}
  Overtaking = FALSE
  Leavers = {c1}
  MaxRetries = 0
  Unbounded = {"expiry"}
  MaxControl = 1
  MaxServerControl = 2
  MaxSends = 1
  MaxServerSends = 1
  MaxInFlight = 1
INVARIANTS
  ListsAgree
PROPERTIES
  EveryoneStayingSaves
CHECK_DEADLOCK FALSE
