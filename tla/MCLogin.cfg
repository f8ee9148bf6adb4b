SPECIFICATION FairSpec
CONSTANTS
  Descriptors = {1, 2, 3}
  MaxTries = 3
INVARIANTS TypeOK SocketsKept OpenedAsAgreed AuthSound
PROPERTIES ConnectEnds
CHECK_DEADLOCK FALSE
