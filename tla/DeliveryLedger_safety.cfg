SPECIFICATION Spec
CONSTANTS
  d1 = d1
  d2 = d2
  d3 = d3
  r1 = r1
  r2 = r2
  s1 = s1
  s2 = s2
  Ids = {d1, d2, d3}
  Requests = {r1, r2}
  Sends = {s1, s2}
  MaxRecords = 2
  Retention = 1
  PruneInterval = 2
  ReleasesDoubts = TRUE
  MaxTime = 3
  MaxAttempts = 3
SYMMETRY Symmetry
INVARIANTS
  AtMostOnce
  OutcomesAreTrue
  CountIsExact
PROPERTIES
  NeverForgotten
CHECK_DEADLOCK FALSE
