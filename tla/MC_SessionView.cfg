SPECIFICATION Spec
CONSTANTS
  i1 = i1
  u1 = u1
  IoThreads = {i1}
  UserThreads = {u1}
  Starter = i1
  HLen = 1
  SizeTLen = 1
  RecvMax = 2
  BufDelta = 3
  InSizes = {}
  OutSizes = {1}
  MaxIn = 0
  MaxWrites = 2
INVARIANTS
  ViewStaysValid
CHECK_DEADLOCK FALSE
