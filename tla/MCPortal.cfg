SPECIFICATION FairSpec
CONSTANTS
  Direction = "put"
  NumThreads = 2
  NumBlocks = 3
  Cut <- TwoThreads
  Encrypted = TRUE
  Lossy = FALSE
INVARIANTS TypeOK TransferSuccess RestartFileSound
PROPERTIES TransferReturns
