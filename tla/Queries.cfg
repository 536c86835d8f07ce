SPECIFICATION Spec
CONSTANTS
  Width <- MCWidth
  Creations <- MCCreations
  Rooms = {"s1", "m5"}
  Trades <- MCTrades
  Times = {2, 3, 4}
  MaxEvents = 3
  MaxFaults = 1
  LastFaulty = 1
  Limits = {0, 1, 2}
  CandleHistory = 2
  EventHistory = 2
CHECK_DEADLOCK FALSE
INVARIANTS
  TypeOK
  CandlesMatchPrices
  CoarserSummarisesFiner
  LiveViewCurrent
  LiveEventsComplete
  WalkMissesLittle
  WalkRepeatsLittle
PROPERTIES
  CandlesOnlyGrow
