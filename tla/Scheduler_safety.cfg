\* A one-shot or a recurring schedule, updated, forced and restarted in mid-run.
SPECIFICATION FairSpec
CONSTANTS
  Kinds <- BothKinds
  MaxAttempts = 2
  MaxWakes = 5
  MaxEvents = 2
INVARIANTS OneRunAtATime RetriesKeepTheKey DisabledStays Armed
PROPERTY DueRuns
CHECK_DEADLOCK FALSE
