SPECIFICATION Spec
CONSTANTS
  s1 = s1
  s2 = s2
  k1 = k1
  k2 = k2
  Sockets = {s1, s2}
  Keys = {k1, k2}
  Accepted = {k1, k2}
  Splittable = {k1, k2}
  Limit = 2
  Pipelined = FALSE
  Expiring = TRUE
  MaxRequests = 2
CHECK_DEADLOCK FALSE
INVARIANTS
  RoomsFollowSubscriptions
