SPECIFICATION RestartSpec
CONSTANTS
  Direction = "put"
  NumThreads = 2
  NumBlocks = 3
  Cut <- TwoThreads
  Encrypted = TRUE
  Lossy = FALSE
  MaxRestarts = 2
CHECK_DEADLOCK FALSE
INVARIANTS ShortfallBounded
