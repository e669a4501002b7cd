\* One connection that is open at the shutdown.
CONSTANTS
  Connections = {c1}
  MayFail = {}
  Constructors = {"bind"}
  Unset = Unset
  Garbage = Garbage
SPECIFICATION FairSpec
INVARIANT InFlightCompletes
CHECK_DEADLOCK FALSE
