\* Two threads, two clients; checks that take time and checks that do not.  A bucket fills up
\* within the TTL.
CONSTANTS
  Threads = {t1, t2}
  Clients = {c1, c2}
  NoClient = NoClient
  EntryIds = {e1, e2, e3, e4}
  NoEntry = NoEntry
  RequestsPerSecond = 2
  BurstSize = 2
  TicksPerSecond = 1
  PerClient = TRUE
  TrustForwardedFor = TRUE
  ClientTtl = 1
  CleanupInterval = 1
  MaxTime = 4
  MaxStallTime = 2
  MayStall = {TRUE, FALSE}
SPECIFICATION Spec
SYMMETRY Symmetry
INVARIANTS TypeOK WindowLimit RetryAfterSuffices PerClientNeverBinds ForgivesOnlyRacingChecks
