SPECIFICATION FairSpec
CONSTANTS
  Configs = {"off", "default", "custom"}
  Tells = {TRUE, FALSE}
  MaxDepth = 2
INVARIANTS
  TypeOK
  FlagsFollowRequests
  GuardHearsAnAnswer
  DeniedIsTold
PROPERTIES
  GrantedMeansLoggedIn
  GuardAnswers
CHECK_DEADLOCK FALSE
