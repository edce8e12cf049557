CONSTANTS
  Node = {m1, m2, m3}
  Key = {1, 2}
  Candidate <- Each
  Unique = FALSE
  Walks = FALSE
  Nil = Nil
  NoKey = NoKey
  Rights = {}
  Component <- NoComponents
  Asked = {}
SPECIFICATION QSpec
PROPERTIES RefusedStaysInPlace
