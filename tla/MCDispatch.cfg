SPECIFICATION Spec
CONSTANTS
  w1 = w1
  w2 = w2
  p1 = p1
  p2 = p2
  Workers = {w1, w2}
  Endpoints = {p1, p2}
  Events = {1}
  Subscribed <- AllEvents
  Schedule <- TwoDelays
  Once = FALSE
  BatchSize = 2
  MaxAborts = 1
  MaxRetries = 1
  MaxRedelivers = 0
INVARIANTS TypeOK PostsBounded AcceptedOnce ExhaustedDisables WaitsInOrder
CHECK_DEADLOCK FALSE
