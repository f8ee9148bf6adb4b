SPECIFICATION FairSpec
CONSTANTS
  Packets <- MCPacketsShort
  DatagramsOutlive = TRUE
  Faults = {"break", "local", "signal", "eof"}
  MaxNoProgress = 2
  MaxSendErr = 2
  BitsPerByte = 2
  Swab <- MCSwab
  None = None
  Garbage = Garbage
INVARIANTS TypeOK
PROPERTIES Termination
