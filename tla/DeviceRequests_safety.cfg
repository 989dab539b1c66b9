\* A request of any kind, a device that reconnects twice, two faults, two restarts.
SPECIFICATION FairSpec
CONSTANTS
  r1 = r1
  d1 = d1
  d2 = d2
  d3 = d3
  none = none
  Requests = {r1}
  Drivers = {d1, d2, d3}
  None = none
  MaxFaults = 2
  MaxRestarts = 2
INVARIANTS OneEnd NoIdleWork
PROPERTIES CancelHolds RequestsEnd
CHECK_DEADLOCK FALSE
