SPECIFICATION FairSpec
CONSTANTS
  N = 2
  Peer = {0, 1}
  Fd = {f1, f2}
  MaxId = 2
INVARIANTS
  DescriptorsConsistent
  AbortExplained
PROPERTIES
  AllSavedEnds
  ServerEndEndsManager
CHECK_DEADLOCK FALSE
