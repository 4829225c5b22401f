SPECIFICATION FairThreadsSpec
CONSTANTS
  p1 = p1
  p2 = p2
  Peer = {p1, p2}
  successor <- Ring2
  Queue = 1
  MaxCalls = 2
  MaxJoins = 1
  MaxRounds = 1
CHECK_DEADLOCK FALSE
INVARIANTS MutexHeld
PROPERTIES CircleStays ComesBackUnlessCircle
