SPECIFICATION Spec
CONSTANTS
  Node = {n1, n2, n3, n4}
  Value <- Pairs
  Key <- StaffKeys
  N = 3
  Kind <- MixedKind
  Unique = {2}
  KeyOf <- MixedKeyOf
  PointerStored = TRUE
  MayThrow = {"key", "observe"}
  NoNode = NoNode
  NoValue = NoValue
  NotLinked = NotLinked
SYMMETRY Symmetric
CHECK_DEADLOCK FALSE
INVARIANTS Consistent DamageIsLocal
