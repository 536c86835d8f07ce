SPECIFICATION FairSpec
CONSTANTS
  StringLengths = {0, 1, 258}
  Target = "target"
  LogsOf <- MCLogsOf
  ShownOf <- MCShownOf
  Failed = {2}
  ProcessFailed = FALSE
  MaxReconnect = 1
  Capacity = 2
  MaxPingFailures = 3
  MaxBreaks = 2
  MaxRepeats = 2
CHECK_DEADLOCK FALSE
INVARIANTS
  TypeOK
  HandledInOrder
  ReadEventsAccounted
  GivesUpAtLimit
  DecodesWhatIsWritten
PROPERTIES
  ListensOrGivesUp
  ReadEventsHandled
  ImplementsFeed
