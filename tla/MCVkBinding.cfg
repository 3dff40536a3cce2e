\* Two overlapping requests out of five.
SPECIFICATION Spec
CONSTANTS
  User = {u1, u2}
  Peer = {p1, p2}
  Record = {r1, r2, r3}
  Code = {c1, c2, c3}
  Worker = {w1, w2}
  None = None
  MaxRequests = 5
  MaxCrashes = 1
SYMMETRY Symmetry
INVARIANTS
  TypeOK
  UniqueLiveBinding
  LinkedByCode
PROPERTIES
  CodesStayUsed
  LinkFollowsCode
  SuccessIsInTables
  NoticeIsTrue
  BindingsFollowLifecycle
