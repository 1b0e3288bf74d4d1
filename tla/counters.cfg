SPECIFICATION Spec
CONSTANTS
  u1 = u1
  u2 = u2
  c1 = c1
  Users = {u1, u2}
  Rooms = {c1}
  PrivateChats = {p1}
  Contents <- MCContents
  DirectLimit = 0
  MaxMessages = 2
  MaxPrivate = 1
  Mutable <- MCMutable
  Outsiders <- MCOutsiders
  None = None
INVARIANTS LocalCountersTrue GlobalCountersTrue SubscriptionsAgree
CHECK_DEADLOCK FALSE
