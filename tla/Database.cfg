SPECIFICATION Spec
CONSTANTS
  Instances = {i1, i2}
  None = None
  Kinds <- StoredKinds
  Identities <- ListedNames
  KindOf <- LegacyKind
  Unknown = Unknown
  Garbage = "?"
  EventLimit = 2
  ListLimit = 3
  MaxListed = 2
  MaxWrites = 2
  MaxFaults = 1
SYMMETRY Symmetry
INVARIANTS
  UpgradeKeepsWishes
  RefusedForCause
  NoLostUpdate
  LockIsReleased
  PagingMissesNothing
