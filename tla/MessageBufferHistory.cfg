SPECIFICATION Spec
CONSTANTS
  Sizes = {0, 1, 2, 3}
  MaxMessages = 5
INVARIANTS
  BufferKeepsWhatItPromises
CHECK_DEADLOCK FALSE
