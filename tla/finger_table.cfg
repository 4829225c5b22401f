SPECIFICATION FairSpec
CONSTANTS
  Bits = 4
  unknown = 16
  Peer <- Peer4
  prevID <- Prev4
  nextID <- Next4
  r1 = r1
  Request = {r1}
  hashID <- HashOne
  Entry <- EntryAny
  MaxFingers = 2
  Client = Client
  NULL = NULL
CHECK_DEADLOCK FALSE
INVARIANTS TablesRight NeverOvershoots DownOnlyAfterClash
PROPERTIES TableBuilt Served
