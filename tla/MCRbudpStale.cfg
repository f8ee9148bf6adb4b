SPECIFICATION Spec
CONSTANTS
  Packets <- MCPackets
  DatagramsOutlive = TRUE
  Faults = {}
  MaxNoProgress = 2
  MaxSendErr = 2
  BitsPerByte = 2
  Swab <- MCSwab
  None = None
  Garbage = Garbage
INVARIANTS ReceiverSuccess
