SPECIFICATION Spec
CONSTANTS
  Node = {n1, n2}
  Value <- Pairs
  Key <- StaffKeys
  N = 2
  Kind <- PairKind
  Unique = {1, 2}
  KeyOf <- PairKeyOf
  PointerStored = TRUE
  MayThrow = {}
  NoNode = NoNode
  NoValue = NoValue
  NotLinked = NotLinked
INVARIANT Ownership
