SPECIFICATION Spec
CONSTANTS
  m1 = m1
  u1 = u1
  u2 = u2
  p1 = p1
  p2 = p2
  p3 = p3
  Mints = {m1}
  Users = {u1}
  Pdas = {p1, p3}
  TestCalls <- OneTestCall
  OwnerOf <- MCOwnerOf
  MintOf <- MCMintOf
  SidesOf <- OneSide
  Env = {"loss", "crash", "redeliver", "testipfs"}
  MaxEvents = 3
  MaxFeed = 1
  MaxCuts = 1
  MaxFaults = 1
  MaxTasks = 1
  MaxRetries = 1
  TotalMax = 2
CHECK_DEADLOCK FALSE
INVARIANTS
  TypeOK
  UserOrdersListed
PROPERTIES
  ImplementsLedger
