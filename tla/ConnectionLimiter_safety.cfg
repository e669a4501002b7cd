\* Six attempts for two permits.
CONSTANTS
  Connections = {c1, c2, c3, c4, c5, c6}
  MaxConnections = 2
SPECIFICATION Spec
SYMMETRY ConnectionSymmetry
INVARIANTS TypeOK LimitHolds NothingLeaks CountersExact
CHECK_DEADLOCK FALSE
