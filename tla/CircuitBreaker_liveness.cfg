\* Two callers, a service that fails and recovers, and dropped futures.
CONSTANTS
  Tasks = {t1, t2}
  FailureThreshold = 2
  SuccessThreshold = 2
  Timeout = 1
  CounterMod = 1
  NoInstant = NoInstant
  Faults = {"cancel"}
  CountBound = 2
SPECIFICATION FairSpec
PROPERTIES Recovery Trips
