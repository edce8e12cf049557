CONSTANTS
  Node = {n1, n2, n3}
  Container = {a, b}
  Id = {i1, i2}
  Group = {1, 2}
  Resource = {r1, r2}
  NoNode = NoNode
  NoValue = NoValue
SPECIFICATION Spec
VIEW Readable
SYMMETRY Symmetric
CONSTRAINT OneSubscriber
INVARIANTS Intact FreedWhereMade MergeExact 
PROPERTIES CopyExact
