SPECIFICATION FairSpec
CONSTANTS
  None = None
  c1 = c1
  s1 = s1
  s2 = s2
  d1 = d1
  d2 = d2
  b1 = b1
  b2 = b2
  ClientThreads = {c1}
  ServerThreads = {s1, s2}
  Datagrams = {d1, d2}
  Empty = {d2}
  Blocks = {b1, b2}
  MaxArrived = 2
INVARIANTS
  TypeOK
  BufferAccounted
  DatagramIntact
  MessageIntact
  ServerRunBlocks
PROPERTIES
  Received
CHECK_DEADLOCK FALSE
