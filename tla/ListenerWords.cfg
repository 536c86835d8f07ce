SPECIFICATION Spec
CONSTANTS
  StringLengths = {0, 1, 3}
  Target = "target"
  LogsOf <- WordLogsOf
  ShownOf <- WordShownOf
  Failed = {}
  ProcessFailed = FALSE
  MaxReconnect = 1
  Capacity = 2
  MaxPingFailures = 3
  MaxBreaks = 2
  MaxRepeats = 1
CHECK_DEADLOCK FALSE
INVARIANTS
  ReadEventsAccounted
