\* Two tasks; breakers that open on the first failure.
CONSTANTS
  Tasks = {t1, t2}
  Plans <- MCPlans
  Callers <- MCCallers
  MayFlap <- MCMayFlap
  FailureThreshold = 1
  SuccessThreshold = 1
  IndexMod = 4
SPECIFICATION FairSpec
INVARIANTS TypeOK UsableIsFound ConnectionsExact

PROPERTY CutOffIsProbed
