\* One call, with three failures and two restarts at any point.
SPECIFICATION FairSpec
CONSTANTS
  Calls = {c1}
  MaxFaults = 3
  MaxRestarts = 2
INVARIANTS OneVerdict RepeatsExplained Pursued
PROPERTIES CancelledSilent StartedAnswered
CHECK_DEADLOCK FALSE
