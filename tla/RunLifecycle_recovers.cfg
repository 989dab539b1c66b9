SPECIFICATION FairSpec
CONSTANTS
  u1 = u1
  u2 = u2
  b1 = b1
  i1 = i1
  s1 = s1
  w1 = w1
  none = none
  NoRun = none
  UserRuns = {u1}
  BgRuns = {b1}
  IpcRuns = {}
  SchedRuns = {}
  WakeRuns = {}
  MaxRounds = 1
  MaxResets = 1
  MaxCrashes = 1
  MaxFaults = 1
  MaxTroubles = 1
PROPERTIES
  EveryRunEnds
CHECK_DEADLOCK FALSE
