SPECIFICATION Spec
CONSTANTS
  c1 = c1
  c2 = c2
  Callers <- TwoCallers
  Interval = 2
  MaxDrops = 3
  MaxTime = 6
INVARIANTS
  WontRepeat
CHECK_DEADLOCK FALSE
