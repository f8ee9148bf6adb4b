SPECIFICATION Spec
CONSTANTS
  Descriptors = {1, 2, 3}
  Uses = {}
  ResolveMayFail = FALSE
  Spurious = FALSE
INVARIANTS SuccessMeansReply
