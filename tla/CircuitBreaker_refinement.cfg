\* Three callers whose requests overlap and whose calls of the breaker do not.
CONSTANTS
  Tasks = {t1, t2, t3}
  FailureThreshold = 3
  SuccessThreshold = 2
  Timeout = 2
  CounterMod = 1
  NoInstant = NoInstant
  Faults = {"racing_reset"}
  CountBound = 0
SPECIFICATION SerialSpec
PROPERTY ImplementsHystrixBreaker
