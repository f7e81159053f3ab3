SPECIFICATION Spec
CONSTANTS
  SegmentSize = 10
  Power = 81
  InitialWindow = 10
  MaxWindow = 100
  MaxAcked = 2
INVARIANTS
  BooksConsistent
  SentAsPlanned
  SlowStartStalls
  RoutesAsScripted
PROPERTIES
  AtMostOneSegment
CHECK_DEADLOCK FALSE
