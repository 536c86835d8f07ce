SPECIFICATION FairSpec
CONSTANTS
  main = main
  c1 = c1
  c2 = c2
  Main = main
  Others = {c1}
  Recovering = "anytime"
  MaxAttempts = 3
  MaxCalls = 1
CHECK_DEADLOCK FALSE
PROPERTIES
  ServerComesUp
