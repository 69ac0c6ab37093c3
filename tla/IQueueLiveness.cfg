SPECIFICATION EndlessSpec
CONSTANTS
  p1 = p1
  p2 = p2
  w1 = w1
  w2 = w2
  e1 = e1
  e2 = e2
  e3 = e3
  e4 = e4
  None = None
  Producers <- OneProducer
  Workers <- TwoWorkers
  Entries <- OneEntry
  BufferSize = 1
  WaitModes <- Chosen
  CallModes <- Both
  Reentrant = TRUE
  OverlapStart = FALSE
  OverlapStop = FALSE
  MaxStarts = 1
PROPERTIES
  StopTerminates
  EnqueueReturns
  Delivery
CHECK_DEADLOCK FALSE
