SPECIFICATION Spec
CONSTANTS
  m1 = m1
  u1 = u1
  u2 = u2
  p1 = p1
  p2 = p2
  p3 = p3
  Mints = {m1}
  Users = {u1, u2}
  Pdas = {p1}
  TestCalls = {}
  OwnerOf <- MCOwnerOf
  MintOf <- MCMintOf
  SidesOf <- BothSides
  Env = {"loss", "crash", "fail", "uri"}
  MaxEvents = 4
  MaxFeed = 1
  MaxCuts = 1
  MaxFaults = 1
  MaxTasks = 1
  MaxRetries = 2
  TotalMax = 2
CHECK_DEADLOCK FALSE
INVARIANTS
  UserOrdersListed
  NeverOvercounted
  RecordsCounted
  IntervalsInStep
  MarkersMatchCreations
