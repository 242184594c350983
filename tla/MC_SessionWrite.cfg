SPECIFICATION Spec
CONSTANTS
  i1 = i1
  u1 = u1
  u2 = u2
  IoThreads = {i1}
  UserThreads = {u1, u2}
  Starter = i1
  HLen = 1
  SizeTLen = 1
  RecvMax = 2
  BufDelta = 3
  InSizes = {}
  OutSizes = {0, 1}
  MaxIn = 0
  MaxWrites = 2
INVARIANTS
  TypeOK
  SingleWriter
  NoStrandedPacket
  SendAccounting
PROPERTIES
  OnlyMovesSpoil
SYMMETRY Symmetry
CHECK_DEADLOCK FALSE
