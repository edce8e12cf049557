SPECIFICATION FairSpec
CONSTANTS
  Node = {n1, n2, n3}
  Value <- Staff
  Key <- StaffKeys
  N = 4
  Kind <- StaffKind
  Unique = {1, 3}
  KeyOf <- StaffKeyOf
  PointerStored = FALSE
  MayThrow = {"mutate", "observe", "grow"}
  NoNode = NoNode
  NoValue = NoValue
  NotLinked = NotLinked
CHECK_DEADLOCK FALSE
INVARIANTS UniqueKeys RollbackSucceeds ClashReport Ownership IInv
PROPERTIES CallReturns Refines
