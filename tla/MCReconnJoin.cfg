SPECIFICATION Spec
CONSTANTS
  Descriptors = {1, 2, 3}
  Uses = {"disconnect"}
  ResolveMayFail = FALSE
  Spurious = FALSE
INVARIANTS ManagerEnded
CHECK_DEADLOCK FALSE
