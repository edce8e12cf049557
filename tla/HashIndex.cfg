SPECIFICATION Spec
CONSTANTS
  Node = {n1, n2, n3, n4, n5}
  Key = {"a", "b", "c"}
  HashOf <- Colliding
  InitialBuckets = 2
  NoNode = NoNode
  NoKey = NoKey
SYMMETRY Symmetric
INVARIANTS BucketsConsistent LookupsExact WalkComplete
PROPERTIES Refines
