SPECIFICATION Spec
CONSTANTS
  r1 = r1
  r2 = r2
  NoTopic = NoTopic
  Relays <- TwoRelays
  Groups <- Normalizer
  InTopic <- MCInTopic
  OutTopic <- MCOutTopic
  Derives = {}
  Malformed = {}
  MaxEvents = 2
  Partition <- OneAccount
  Serialized = {"cash"}
  BatchSize = 1
  MaxAttempts = 1
  ReplayFrom = {0}
  MaxReplays = 0
  MaxRedrives = 0
  MaxFaults = 0
INVARIANTS NothingLost
CHECK_DEADLOCK FALSE
