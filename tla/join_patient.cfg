SPECIFICATION FairSpec
CONSTANTS
  Peer <- Peer5
  unknown = 65536
  MaxRounds = 1
  Patient = TRUE
CHECK_DEADLOCK FALSE
INVARIANTS TypeOK NobodyPassedOver
PROPERTIES NextNarrows PrevNarrows Converges
