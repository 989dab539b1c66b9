\* Two finishes whose sends overlap and fail: one of them is forgotten.
SPECIFICATION OutboxFairSpec
CONSTANTS
  r1 = r1
  r2 = r2
  Finishes = {r1, r2}
  MaxAttempts = 3
  MaxCrashes = 0
PROPERTY EventuallySettled
CHECK_DEADLOCK FALSE
