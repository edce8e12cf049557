CONSTANTS
  Node = {m1, m2, m3, m4}
  Key = {1, 2}
  Candidate <- Each
  Unique = FALSE
  Walks = TRUE
  Nil = Nil
  NoKey = NoKey
  Rights <- OtherSides
  Component <- NoComponents
  Asked = {}
SPECIFICATION QSpec
VIEW Readable
SYMMETRY Symmetric
INVARIANTS WalkInOrder RangesExact
PROPERTIES Refines GroupsExact JoinComplete
