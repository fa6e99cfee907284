SPECIFICATION FairSpec
CONSTANTS
  w1 = w1
  w2 = w2
  p1 = p1
  p2 = p2
  Workers = {w1, w2}
  Endpoints = {p1, p2}
  Events = {1}
  Subscribed <- AllEvents
  Schedule <- OneDelay
  Once = TRUE
  BatchSize = 2
  MaxAborts = 0
  MaxRetries = 0
  MaxRedelivers = 1
PROPERTIES EveryDeliverySettles
CHECK_DEADLOCK FALSE
