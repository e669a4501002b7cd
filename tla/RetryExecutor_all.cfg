\* Three calls between resets share five retries; without jitter the delays are
\* 3, 6 and then 10 for the multiplier 2, and 3, 4, 6 and then 10 for 3/2.
CONSTANTS
  MaxRetries = 5
  BaseDelay = 3
  MaxDelay = 10
  Powers <- MCPowers
  UseJitter = {TRUE, FALSE}
  ExecuteBound = 3
SPECIFICATION FairSpec
INVARIANTS RetriesBounded AttemptsExact
PROPERTIES BackoffGrows ExecuteReturns
