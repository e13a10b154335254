SPECIFICATION Spec
CONSTANTS
  Links <- MCOneLink
  AutoReconnect = TRUE
  Ops = {"login", "loginAs", "logout"}
  MaxCalls = 4
  MaxSockets = 1
  MaxChains = 2
INVARIANTS
  SocketsFollowUser
  QuietLogoutIsFinal
CHECK_DEADLOCK FALSE
