SPECIFICATION FairSpec
CONSTANTS
  AuthMode = "request"
  SubMode = "request"
  SubCount = 1
  AuthMakes = {"message", "undefined"}
  SubMakes = {"message"}
  Outcomes = {"ok", "unsuccessful"}
  AutoReconnect = {TRUE}
  Constructs = {TRUE}
  Should = {TRUE}
  OpensOnClosed = {FALSE}
  Calls = {}
  Size = 1
  Overflow = "dropOld"
  MaxSockets = 2
  MaxCalls = 0
PROPERTIES
  AuthorizedSettles
CHECK_DEADLOCK FALSE
