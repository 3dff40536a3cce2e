SPECIFICATION Spec
CONSTANTS
  User = {u1}
  Peer = {p1, p2}
  Record = {r1, r2}
  Code = {c1, c2}
  Worker = {w1, w2}
  None = None
  MaxRequests = 3
  MaxCrashes = 0
SYMMETRY Symmetry
INVARIANTS
  OneUsableCode
