SPECIFICATION FairSpec
CONSTANTS
  Client = {c1, c2}
  NumChunks = 2
  MaxClientId = 1
  Control = "UDP"
  MinClients = 2
  CacheSize = 2
  MaxOutstanding = 1
  Lossy = {}
  Overtaking = FALSE
  Leavers = {}
  MaxRetries = 0
  Unbounded = {}
  MaxControl = 1
  MaxServerControl = 3
  MaxSends = 2
  MaxServerSends = 2
  MaxInFlight = 2
PROPERTIES
  EveryoneSaves
CHECK_DEADLOCK FALSE
