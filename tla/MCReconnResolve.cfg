SPECIFICATION FairSpec
CONSTANTS
  Descriptors = {1, 2, 3}
  Uses = {}
  ResolveMayFail = TRUE
  Spurious = FALSE
PROPERTIES ClientWaitEnds
CHECK_DEADLOCK FALSE
