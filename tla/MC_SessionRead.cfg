SPECIFICATION FairSpec
CONSTANTS
  i1 = i1
  i2 = i2
  IoThreads = {i1, i2}
  UserThreads = {}
  Starter = i1
  HLen = 2
  SizeTLen = 2
  RecvMax = 3
  BufDelta = 1
  InSizes = {0, 2}
  OutSizes = {}
  MaxIn = 2
  MaxWrites = 0
INVARIANTS
  StopSticks
  SingleReader
  InOrderDelivery
  NothingHeldBack
PROPERTIES
  ImplementsStream
  EventuallyDelivered
  StopEnds
CHECK_DEADLOCK FALSE
