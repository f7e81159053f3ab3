SPECIFICATION Spec
CONSTANTS
  Key = {k1, k2, k3, k4}
  Node = {n1, n2, n3}
  MaxSize = 2
SYMMETRY NodeSymmetry
INVARIANTS
  CacheConsistent
  LRUStack
PROPERTIES
  ImplementsChunkCache
