SPECIFICATION Spec
CONSTANTS
  AuthMode = "request"
  SubMode = "request"
  SubCount = 1
  AuthMakes = {"message", "later", "undefined", "fails"}
  SubMakes = {"message", "later"}
  Outcomes = {"ok", "error"}
  AutoReconnect = {TRUE, FALSE}
  Constructs = {TRUE, FALSE}
  Should = {TRUE, FALSE}
  OpensOnClosed = {TRUE, FALSE}
  Calls <- MCCalls
  Size = 1
  Overflow = "dropOld"
  MaxSockets = 2
  MaxCalls = 1
INVARIANTS
  TypeOK
  OneLiveSocket
  ClosedMeansClosed
  WaitersHaveASocket
  OneReopenPerSocket
  OnlyFitSockets
PROPERTIES
  CloseWithoutTimerIsFinal
  LifecycleSpec
CHECK_DEADLOCK FALSE
