SPECIFICATION FairSpec
CONSTANTS
  s1 = s1
  s2 = s2
  k1 = k1
  k2 = k2
  Sockets = {s1, s2}
  Keys = {k1, k2}
  Accepted = {k1, k2}
  Splittable = {k1}
  Limit = 1
  Pipelined = FALSE
  Expiring = TRUE
  MaxRequests = 3
CHECK_DEADLOCK FALSE
INVARIANTS
  TypeOK
  IndexesAgree
  CountExact
  SubscribersInRooms
PROPERTIES
  ClosedForgotten
