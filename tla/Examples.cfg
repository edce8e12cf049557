SPECIFICATION ExamplesSpec
CONSTANTS
  Key = {k1, k2, k3, k4}
  Val = {u, v}
  Node = {n1, n2, n3, n4, n5}
  NoNode = NoNode
  Cap = 2
  InitialBuckets = 1
  MaxFailures = 2
  Name = {x, y}
  Type = {t1, t2}
  NoType = NoType
  MaxDepth = 2
  MaxDeclarations = 4
  MaxId = 5
  OrderId = {1, 2, 3}
  MaxPrice = 2
  MaxStamp = 1
  MaxQty = 2
SYMMETRY Symmetry
INVARIANTS HoldsMostRecent PointerLive ResolvesToInnermost
PROPERTIES ScopesNest PublishReachesAll NoQueueJumping
