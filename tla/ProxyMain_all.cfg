\* Two connections; either listener task may die; every way to bind the proxy.
CONSTANTS
  Connections = {c1, c2}
  MayFail = {"proxy", "admin"}
  Constructors = {"bind", "bind_with_tls", "bind_h2c"}
  Unset = Unset
  Garbage = Garbage
SPECIFICATION FairSpec
INVARIANTS NeverPolledTwice ExitJoinsListeners StopsOnlyOnSignal
  ValidatedConfigStarts NegotiatedIsCommon
PROPERTIES ShutdownCompletes QueuedIsTaken ReadyIsServed
CHECK_DEADLOCK FALSE
