SPECIFICATION FairSpec
CONSTANTS
  i1 = i1
  IoThreads = {i1}
  UserThreads = {}
  Starter = i1
  HLen = 1
  SizeTLen = 1
  RecvMax = 2
  BufDelta = 4
  InSizes = {0, 1}
  OutSizes = {1}
  MaxIn = 2
  MaxWrites = 2
PROPERTIES
  ImplementsLink
  FailureIsFinal
  StopSilences
  EventuallySent
  CallsReturn
CHECK_DEADLOCK FALSE
