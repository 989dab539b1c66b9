\* Two finishes delivered at once, with failed sends and one restart.
SPECIFICATION OutboxFairSpec
CONSTANTS
  r1 = r1
  r2 = r2
  Finishes = {r1, r2}
  MaxAttempts = 2
  MaxCrashes = 1
INVARIANTS NoteIsEarned OnceWhenQuiet
PROPERTY LoneFinishSettles
CHECK_DEADLOCK FALSE
