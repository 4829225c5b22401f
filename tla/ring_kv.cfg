SPECIFICATION FairSpec
CONSTANTS
  r1 = r1
  r2 = r2
  r3 = r3
  k1 = k1
  k2 = k2
  k3 = k3
  v1 = v1
  v2 = v2
  Client = Client
  None = None
  Peer <- Peer4
  prevID <- Prev4
  nextID <- Next4
  Request = {r1, r2}
  Key = {k1, k2, k3}
  Value = {v1}
  Entry <- EntryAny
  hashID <- HashEdges
  MaxAborts = 1
CHECK_DEADLOCK FALSE
INVARIANTS TypeOK NeverMisrouted
PROPERTY Served
