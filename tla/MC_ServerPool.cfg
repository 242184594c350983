SPECIFICATION FairSpec
CONSTANTS
  NoSession = NoSession
  NoThread = NoThread
  i1 = i1
  i2 = i2
  s1 = s1
  s2 = s2
  IoThreads = {i1, i2}
  UserThreads = {}
  Sessions = {s1, s2}
  Calls = {"write", "broadcast", "close", "stop"}
  CallingCallbacks = {"onMessage"}
INVARIANTS
  TypeOK
  DisconnectedOnce
  SessionOutlivesHandlers
  AcceptChain
PROPERTIES
  ImplementsConnections
  UsesSessions
  FailedLeaves
  ServerReturns
CHECK_DEADLOCK FALSE
