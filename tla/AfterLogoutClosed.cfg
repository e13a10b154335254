SPECIFICATION Spec
CONSTANTS
  Links <- MCOneLink
  AutoReconnect = FALSE
  Ops = {"login", "loginAs", "logout"}
  MaxCalls = 4
  MaxSockets = 1
  MaxChains = 1
INVARIANTS
  AfterLogoutClosed
CHECK_DEADLOCK FALSE
