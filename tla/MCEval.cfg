SPECIFICATION FairSpec
CONSTANTS
  Client = {c1, c2}
  Addr = {c1, c2}
  NumChunks = 3
  MaxClientId = 1
  UnsetTotals = {0}
  MaxClientControl = 2
  MaxEarly = 1
  MaxServerControl = 2
  MaxServerSends = 1
  MaxInFlight = 1
  MaxReplies = 2
  MaxAsking = 1
INVARIANTS
  ListsConsistent
  GenuineOnly
  OddChunksOnly
  OnlyTheFirstIsServed
  OverrunWithoutGreeting
PROPERTIES
  FirstFinishes
CHECK_DEADLOCK FALSE
