SPECIFICATION Spec
CONSTANTS
  Task = task
  one = one
  two = two
  broken = broken
  u1 = u1
  u2 = u2
  e1 = e1
  Message = {one, two, broken}
  Event = {e1}
  User = {u1, u2}
  None = None
  EventOf <- MCEventOf
  UsersOf <- MCUsersOf
  Malformed = {broken}
  BatchSize = 1
  MaxDeliver = 3
  MaxFaults = 1
  MaxPolls = 2
INVARIANTS
  TypeOK
  EvidenceIsScripted
  LeftoversAreReported
PROPERTIES
  HarnessEnds
