SPECIFICATION FairSpec
CONSTANTS
  Descriptors = {1, 2, 3}
  Uses = {"collstat", "disconnect"}
  ResolveMayFail = TRUE
  Spurious = TRUE
INVARIANTS TypeOK HandleFresh DescriptorsAccounted CallsEndClean
PROPERTIES RenewedWhileProcessing WaitsEnd
CHECK_DEADLOCK FALSE
