SPECIFICATION FairSpec
CONSTANTS
  i1 = i1
  i2 = i2
  u1 = u1
  IoThreads = {i1, i2}
  UserThreads = {u1}
  IntHalf = 4
  SizeMod = 32
  HdLen = 1
  Frames <- MCFrames
  MaxWrites = 2
INVARIANTS
  TypeOK
  RunBlocks
  DisconnectPerFailure
  MessageLength
PROPERTIES
  CloseEndsRun
  LossEndsRun
CHECK_DEADLOCK FALSE
