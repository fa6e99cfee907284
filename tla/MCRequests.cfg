SPECIFICATION FairSpec
CONSTANTS
  t1 = t1
  t2 = t2
  k1 = k1
  k2 = k2
  Threads <- TwoThreads
  Snapshotter = snapshotter
  Keys = {k1, k2}
  NoKey = NoKey
  NoRequest = NoRequest
  NoFloor = NoFloor
  Accounts <- MCAccounts
  AccountType <- MCAccountType
  Currency <- MCCurrency
  Floor <- Overdrafts
  Requests <- MixedRequests
  VelocityLimit = 12
  SmallAmount = 500
  SnapshotThreshold = 1
  MaxSends = 3
  MaxSnapshots = 0
INVARIANTS ReversedOnce
PROPERTIES ImplementsExactlyOnce LockFreezesAccount PostingsKeepFloors EveryRequestEnds
CHECK_DEADLOCK FALSE
