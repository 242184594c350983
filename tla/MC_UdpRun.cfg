SPECIFICATION Spec
CONSTANTS
  None = None
  c1 = c1
  s1 = s1
  d1 = d1
  d2 = d2
  b1 = b1
  b2 = b2
  ClientThreads = {c1}
  ServerThreads = {s1}
  Datagrams = {d1, d2}
  Empty = {d2}
  Blocks = {b1, b2}
  MaxArrived = 2
PROPERTIES
  ClientRunBlocks
CHECK_DEADLOCK FALSE
