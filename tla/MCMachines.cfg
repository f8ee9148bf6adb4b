SPECIFICATION Spec
CONSTANTS
  MaxRows = 2
  SubColls <- SmallColls
  Replicas <- SmallReplicas
  MaxFailures = 2
  Makers <- TwoMakers
  Tasks <- SmallTasks
  Trees <- SmallTrees
  Names = {"no", "d", "x", "y", "-"}
  PathInps <- SmallPathInps
  PtrArrayMallocLen = 2
  KeyWords <- SmallKeyWords
  Values <- SmallValues
  Hole = ""
  NoValue = 0
  MallocLen = 2
  Labels = {"a", "b"}
  MaxStructs = 3
  Users <- ThreeUsers
  Errands <- SmallErrands
  Start = 65514
  Skew = 12
  MaxClock = 20
  Hash <- SmallHash
  Joined <- SmallJoined
  Keys <- SmallKeys
  Secrets <- SmallSecrets
  Delays <- SmallDelays
  Binaries <- SmallBinaries
  MaxBreaks = 2
  PacketCount = 65535
  Sample <- SmallSample
CHECK_DEADLOCK FALSE
INVARIANTS RoundTrips CallsAgree AnswersOwned TargetsSound TextsBack PasswordsBack Base64Back EntriesGiven TreesSound KeyValSound PasswordKept InPlace
PROPERTIES IsKeyMap ParamsOwned EveryoneEnds
