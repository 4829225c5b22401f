SPECIFICATION FairSpec
CONSTANTS
  FD <- Five
  HereIDs = {"here"}
  NextIDs = {"next"}
  FarIDs = {"far"}
  MaxIncoming = 3
  MaxLeft = 1
CHECK_DEADLOCK FALSE
INVARIANTS ReadsWhatIsThere
PROPERTY Served
