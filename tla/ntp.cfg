SPECIFICATION FairSpec
CONSTANTS
  s1 = s1
  s2 = s2
  Base = 2
  Width = 2
  EpochGap = 2
  Server = {s1, s2}
  theta <- Ahead
  root <- Roots
  servers <- Both
  requestNumber = 3
  Port = {1, 2}
  Window = 2
  MaxNow = 3
  MaxFaults = 1
CHECK_DEADLOCK FALSE
INVARIANTS TypeOK OwnAnswer OffsetWithinDelay DispersionOfServer
PROPERTY Finishes
