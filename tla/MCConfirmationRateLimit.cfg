\* The clock and the number of attempts are bounded, so the system stops.
SPECIFICATION Spec
CONSTANTS
  Peer = {p1, p2}
  Worker = {w1, w2}
  None = None
  MaxAttempts = 2
  Window = 2
  MaxTime = 4
  MaxReceived = 5
SYMMETRY Symmetry
CHECK_DEADLOCK FALSE
INVARIANTS
  TypeOK
  FailuresBounded
