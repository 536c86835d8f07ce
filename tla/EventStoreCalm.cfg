SPECIFICATION FairSpec
CONSTANTS
  m1 = m1
  u1 = u1
  u2 = u2
  p1 = p1
  p2 = p2
  p3 = p3
  Mints = {m1}
  Users = {u1, u2}
  Pdas = {p1}
  TestCalls = {}
  OwnerOf <- MCOwnerOf
  MintOf <- MCMintOf
  SidesOf <- BothSides
  Env = {"sameslot"}
  MaxEvents = 5
  MaxFeed = 2
  MaxCuts = 1
  MaxFaults = 0
  MaxTasks = 0
  MaxRetries = 2
  TotalMax = 2
CHECK_DEADLOCK FALSE
INVARIANTS
  HistoryOfEachSlot
  OpenOrdersMatchChain
  TotalsMatchRecords
  EveryEventRecorded
PROPERTIES
  ListedEventually
