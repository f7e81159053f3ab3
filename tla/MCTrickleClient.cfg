SPECIFICATION FairClientSpec
CONSTANTS
  Client = {c1}
  NumChunks = 3
  MaxClientId = 0
  MaxOutstanding = 2
  MaxControl = 2
  MaxSends = 2
INVARIANTS
  ClientTypeOK
  NoChunkForgotten
  OneRequestPerChunk
  SavedExactlyOnce
  AnswersHeld
PROPERTIES
  KeepsAsking
CHECK_DEADLOCK FALSE
