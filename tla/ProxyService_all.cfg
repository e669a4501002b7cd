\* Four requests for two upstreams, one of them misconfigured, or for none; the
\* counter wraps around at a number that two does not divide.
CONSTANTS
  Requests = {r1, r2, r3, r4}
  UpstreamCounts = {0, 2}
  BadUpstreams = {1}
  Timeout = 1
  CounterMod = 3
  Statuses = {200, 503}
SPECIFICATION FairSpec
INVARIANTS TypeOK RoundRobinBalanced MetricsMatchAnswers
PROPERTY EveryRequestAnswered
