SPECIFICATION FairSpec
CONSTANTS
  AuthMode = "request"
  SubMode = "request"
  SubCount = 1
  AuthMakes = {"message", "undefined"}
  SubMakes = {"message"}
  Outcomes = {"ok", "unsuccessful"}
  AutoReconnect = {TRUE}
  Constructs = {TRUE}
  Should = {TRUE}
  OpensOnClosed = {TRUE, FALSE}
  Calls <- MCCalls
  Size = 1
  Overflow = "dropOld"
  MaxSockets = 2
  MaxCalls = 1
PROPERTIES
  LostSocketIsReplaced
  OpenedAndClosingEnd
CHECK_DEADLOCK FALSE
