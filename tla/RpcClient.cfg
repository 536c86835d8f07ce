SPECIFICATION FairSpec
CONSTANTS
  main = main
  c1 = c1
  c2 = c2
  Main = main
  Others = {c1, c2}
  Recovering = "betweenProbes"
  MaxAttempts = 3
  MaxCalls = 3
CHECK_DEADLOCK FALSE
INVARIANTS
  TypeOK
  LockDiscipline
  RequestsAccounted
  AttemptsBounded
PROPERTIES
  EveryCallReturns
  ServerComesUp
