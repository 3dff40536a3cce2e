SPECIFICATION FairSpec
CONSTANTS
  Consumer = {c1, c2}
  m1 = m1
  m2 = m2
  m3 = m3
  u1 = u1
  u2 = u2
  e1 = e1
  Message = {m1, m2, m3}
  Event = {e1}
  User = {u1, u2}
  None = None
  EventOf <- MCEventOf
  UsersOf <- MCUsersOf
  Malformed = {m3}
  BatchSize = 1
  MaxDeliver = 1
  MaxFaults = 1
PROPERTIES
  CommandsSettle
