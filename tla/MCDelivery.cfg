SPECIFICATION FairSpec
CONSTANTS
  r1 = r1
  r2 = r2
  NoTopic = NoTopic
  Relays <- OneRelay
  Groups <- Both
  InTopic <- MCInTopic
  OutTopic <- MCOutTopic
  Derives = {1, 2}
  Malformed = {2}
  MaxEvents = 2
  Partition <- OneAccount
  Serialized = {"cash"}
  BatchSize = 2
  MaxAttempts = 2
  ReplayFrom = {0}
  MaxReplays = 0
  MaxRedrives = 0
  MaxFaults = 2
INVARIANTS TypeOK EffectivelyOnce NothingLost SerializedOrder
PROPERTIES EveryEventSettles
CHECK_DEADLOCK FALSE
