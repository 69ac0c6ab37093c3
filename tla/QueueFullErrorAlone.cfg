SPECIFICATION Spec
CONSTANTS
  c1 = c1
  c2 = c2
  Callers <- OneCaller
  Interval = 2
  MaxDrops = 5
  MaxTime = 12
INVARIANTS
  TypeOK
  WontRepeat
  DroppedSinceLast
CHECK_DEADLOCK FALSE
