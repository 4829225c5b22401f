SPECIFICATION FairSpec
CONSTANTS
  HeaderLen = 6
  PeerLen = 10
  MaxRead = 3
  MaxLen = 3
CHECK_DEADLOCK FALSE
INVARIANTS DecodesWhatWasSent
PROPERTIES GetsOut
