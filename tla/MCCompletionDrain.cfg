SPECIFICATION Spec
CONSTANTS
  d1 = d1
  d2 = d2
  r1 = r1
  r2 = r2
  None = None
  Dispatches = {d1, d2}
  Runs = {r1, r2}
  MaxFaults = 1
INVARIANTS
  ReleasedWhenDrained
CHECK_DEADLOCK FALSE
