SPECIFICATION FairReportsSpec
CONSTANTS
  Links <- MCLinks
  AutoReconnect = FALSE
  Ops = {"login", "loginAs", "logout"}
  MaxCalls = 3
  MaxSockets = 3
  MaxChains = 1
INVARIANTS
  ReportsTypeOK
  
PROPERTIES
  ClosingFinishes
CHECK_DEADLOCK FALSE
