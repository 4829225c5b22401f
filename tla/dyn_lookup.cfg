SPECIFICATION Spec
CONSTANTS
  Peer <- Peer3
  unknown = 65536
  MaxRounds = 1
  Patient = FALSE
  r1 = r1
  r2 = r2
  k1 = k1
  k2 = k2
  v1 = v1
  v2 = v2
  None = None
  Request = {r1}
  Key = {k1, k2}
  Value = {v1, v2}
  Asks <- AsksOne
  Entry <- EntryAny
  keyID <- KeysInside
  Short = {k2}
  Client = Client
  MaxHops = 2
CHECK_DEADLOCK FALSE
INVARIANT NoLookupInCharge
