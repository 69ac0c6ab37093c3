SPECIFICATION Spec
CONSTANTS
  p1 = p1
  p2 = p2
  w1 = w1
  w2 = w2
  e1 = e1
  e2 = e2
  e3 = e3
  e4 = e4
  None = None
  Producers <- TwoProducers
  Workers <- TwoWorkers
  Entries <- TwoEntries
  BufferSize = 2
  WaitModes <- Both
  CallModes <- Both
  Reentrant = TRUE
  OverlapStart = FALSE
  OverlapStop = TRUE
  MaxStarts = 2
INVARIANT BufferAccess
CHECK_DEADLOCK FALSE
