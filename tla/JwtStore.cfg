\* Every interleaving of calls, answers, expiries and page loads, with the store beside.
SPECIFICATION FairStoreSpec
CONSTANTS
  Masters = {1}
  Targets = {2}
  MaxTokens = 3
  MaxCallers = 2
  MaxInFlight = 2
  CallersMeet = TRUE
INVARIANTS
  StoreTypeOK
  OneRefresh
  WaitersHaveARefresh
  CalledOnce
  StoredIsMasters
  GivenToOwner
  UserOwnsTokens
PROPERTIES
  FreshWhenHandedOut
  CallerIsRestored
  FreshTokensSpec
  EveryCallIsSettled
CHECK_DEADLOCK FALSE
