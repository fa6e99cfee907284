SPECIFICATION Spec
CONSTANTS
  t1 = t1
  t2 = t2
  k1 = k1
  k2 = k2
  Threads <- TwoThreads
  Snapshotter = snapshotter
  Keys = {k1, k2}
  NoKey = NoKey
  NoRequest = NoRequest
  NoFloor = NoFloor
  Accounts <- MCAccounts
  AccountType <- MCAccountType
  Currency <- MCCurrency
  Floor <- NoFloors
  Requests <- SnapshotRequests
  VelocityLimit = 0
  SmallAmount = 500
  SnapshotThreshold = 1
  MaxSends = 3
  MaxSnapshots = 2
SYMMETRY Symmetry
INVARIANTS VelocityOvershootBounded CacheErrorIsLateEntries
CHECK_DEADLOCK FALSE
