SPECIFICATION Spec
CONSTANTS
  NoSession = NoSession
  NoThread = NoThread
  i1 = i1
  s1 = s1
  s2 = s2
  IoThreads = {i1}
  UserThreads = {}
  Sessions = {s1, s2}
  Calls = {"closeAll"}
  CallingCallbacks = {"onMessage"}
INVARIANTS
  CloseAllSurvives
SYMMETRY Symmetry
CHECK_DEADLOCK FALSE
