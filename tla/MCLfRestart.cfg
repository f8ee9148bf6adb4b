SPECIFICATION RestartSpec
CONSTANTS
  Direction = "get"
  NumThreads = 3
  NumBlocks = 3
  Cut <- ThreeThreads
  Encrypted = FALSE
  Lossy = TRUE
  MaxRestarts = 2
CHECK_DEADLOCK FALSE
INVARIANTS RestartSound
PROPERTIES ClaimGrows
