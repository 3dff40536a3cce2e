\* Two overlapping requests out of three, fairly scheduled; no symmetry, the property is temporal.
SPECIFICATION FairSpec
CONSTANTS
  User = {u1}
  Peer = {p1, p2}
  Record = {r1, r2}
  Code = {c1, c2}
  Worker = {w1, w2}
  None = None
  MaxRequests = 3
  MaxCrashes = 0
PROPERTIES
  RequestsEnd
