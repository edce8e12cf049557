CONSTANTS
  Node = {n1, n2, n3, n4}
  Nil = Nil
SPECIFICATION RSpec
VIEW Readable
SYMMETRY Symmetric
INVARIANTS BothWays WalkInOrder PositionsByAge VisitExact
PROPERTIES Refines
