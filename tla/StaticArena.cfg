SPECIFICATION Spec
CONSTANTS
  Key = {k1, k2, k3, k4, k5}
  Nil = Nil
  Capacity = 4
  NodeWords = 5
  ElementWords = 13
  Slack = 4
  InitialBuckets = 3
  SizeRange = 100
SYMMETRY Ids
INVARIANTS FullOnlyPastCapacity InsertedAreKept AuditFindsLeftovers
