SPECIFICATION Spec
CONSTANTS
  Batches <- Mixed
  Handlers = {"h1", "h2"}
  MaxCrashes = 1
  MaxRefusals = 1
INVARIANTS
  ExecutedOnce
  OnlyPermitted
  HistoryValid
CHECK_DEADLOCK FALSE
