SPECIFICATION FairSpec
CONSTANTS
  Batches <- Approvals
  Handlers = {"h1"}
  MaxCrashes = 1
  MaxRefusals = 1
PROPERTIES
  RunEnds
CHECK_DEADLOCK FALSE
