SPECIFICATION FairSpec
CONSTANTS
  Packets <- MCPackets
  DatagramsOutlive = FALSE
  Faults = {"break", "local", "signal"}
  MaxNoProgress = 3
  MaxSendErr = 2
  BitsPerByte = 2
  Swab <- MCSwab
  None = None
  Garbage = Garbage
INVARIANTS SuccessSound BitmapSound RoundsSound
PROPERTIES ReliableTransfer Termination
