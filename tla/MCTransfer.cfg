SPECIFICATION FairSpec
CONSTANTS
  ChunkSize = 2
  Sizes = {0, 3, 4, 5}
  Units = 3
  Room = 5
  MaxChunks = 5
  MaxRepeats = 1
INVARIANTS
  ChunksConsistent
  SavedAsLoaded
PROPERTIES
  Arrives
CHECK_DEADLOCK FALSE
