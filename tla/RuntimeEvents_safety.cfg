SPECIFICATION Spec
CONSTANTS
  u1 = u1
  w1 = w1
  w2 = w2
  w3 = w3
  g1 = g1
  o1 = o1
  p1 = p1
  c1 = c1
  c2 = c2
  none = none
  NoRun = none
  UserRuns = {u1}
  WakeRuns = {w1, w2, w3}
  Signals = {g1}
  Occurrences = {o1}
  Replies = {p1}
  Calls = {c1, c2}
  TombstoneLimit = 1
  MaxRounds = 1
  MaxResets = 1
  MaxRepeats = 2
  MaxEvents = 2
SYMMETRY Symmetry
INVARIANTS
  RepeatsAddNothing
  EventsAccounted
PROPERTIES
  WakesAreWarranted
CHECK_DEADLOCK FALSE
