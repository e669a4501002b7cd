\* Two threads, one of them cleaning up.
CONSTANTS
  Threads = {t1, t2}
  Clients = {c1}
  NoClient = NoClient
  EntryIds = {e1, e2, e3, e4}
  NoEntry = NoEntry
  RequestsPerSecond = 2
  BurstSize = 2
  TicksPerSecond = 1
  PerClient = TRUE
  TrustForwardedFor = TRUE
  ClientTtl = 1
  CleanupInterval = 1
  MaxTime = 2
  MaxStallTime = 2
  MayStall = {FALSE}
SPECIFICATION Spec
INVARIANT RemovedIsACount
