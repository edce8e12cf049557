CONSTANTS
  Node = {1, 2, 3, 4, 5, 6, 7, 8, 9, 10, 11, 12}
  Key = {1, 2, 3, 4, 5, 6, 7, 8, 9, 10, 11, 12}
  Candidate <- Own
  Unique = TRUE
  Walks = FALSE
  Nil = Nil
  NoKey = NoKey
  Rights = {}
  Component <- DeptAndPerson
  Asked <- DeptPrefixes
SPECIFICATION QSpec
VIEW Readable
INVARIANTS WellFormed LookupsExact PrefixesExact
