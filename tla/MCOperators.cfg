SPECIFICATION Spec
CONSTANTS
  r1 = r1
  r2 = r2
  NoTopic = NoTopic
  Relays <- OneRelay
  Groups <- Normalizer
  InTopic <- MCInTopic
  OutTopic <- MCOutTopic
  Derives = {}
  Malformed = {2}
  MaxEvents = 2
  Partition <- TwoAccounts
  Serialized = {"cash"}
  BatchSize = 2
  MaxAttempts = 1
  ReplayFrom = {0}
  MaxReplays = 1
  MaxRedrives = 1
  MaxFaults = 2
INVARIANTS EffectivelyOnce
CHECK_DEADLOCK FALSE
