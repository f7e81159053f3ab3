SPECIFICATION FairSpec
CONSTANTS
  Client = {c1}
  NumChunks = 1
  MaxClientId = 0
  Control = "UDP"
  MinClients = 1
  CacheSize = 2
  MaxOutstanding = 1
  Lossy = {"REQ", "OPEN", "REG"}
  Overtaking = TRUE
  Leavers = {}
  MaxRetries = 0
  Unbounded = {"asking", "expiry"}
  MaxControl = 1
  MaxServerControl = 2
  MaxSends = 2
  MaxServerSends = 2
  MaxInFlight = 1
PROPERTIES
  EveryoneAdmitted
CHECK_DEADLOCK FALSE
