SPECIFICATION Spec
CONSTANTS
  Masters = {1}
  Targets = {2}
  MaxTokens = 3
  MaxCallers = 1
INVARIANTS
  OnlyMastersAreStored
CHECK_DEADLOCK FALSE
