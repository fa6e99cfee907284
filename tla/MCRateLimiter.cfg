SPECIFICATION Spec
CONSTANTS
  t1 = t1
  t2 = t2
  Nobody = Nobody
  Threads = {t1, t2}
  Obedient = {t1}
  Window = 2
  Cost = 1
  Second = 5
  MaxSkew = 1
  MaxLag = 1
  MaxWait = 2
  MaxClock = 5
  MaxFaults = 1
INVARIANTS RedisBudget PgBudget ExpiryIsInvisible RetryAfterIsEnough
CHECK_DEADLOCK FALSE
