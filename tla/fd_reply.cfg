SPECIFICATION Spec
CONSTANTS
  FD <- Seven
  HereIDs = {"here"}
  NextIDs = {"next"}
  FarIDs = {"far", "far2"}
  MaxIncoming = 2
  MaxLeft = 1
CHECK_DEADLOCK FALSE
INVARIANTS OwnAnswers ExitsOnlyByFault
