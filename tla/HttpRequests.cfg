SPECIFICATION FairSpec
CONSTANTS
  Options <- MCOptions
  RefreshWith <- MCRefreshWith
  Replies <- MCReplies
  Config <- MCConfig
  MaxRequests = 3
INVARIANTS
  TypeOK
  WaitingHasRefresh
  ValueMeansSuccess
  ErrorsAreTexts
  FailuresAreReported
PROPERTIES
  SentFresh
  EveryRequestEnds
CHECK_DEADLOCK FALSE
