\* Three callers race on a small breaker; a reset has the breaker for itself.
CONSTANTS
  Tasks = {t1, t2, t3}
  FailureThreshold = 2
  SuccessThreshold = 2
  Timeout = 1
  CounterMod = 1
  NoInstant = NoInstant
  Faults = {}
  CountBound = 0
SPECIFICATION Spec
SYMMETRY TaskSymmetry
INVARIANTS TypeOK NoMissedTrip NoMissedClose OpenHasTimer
