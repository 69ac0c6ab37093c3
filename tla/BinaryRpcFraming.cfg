SPECIFICATION FairSpec
CONSTANTS
  Streams <- MCStreams
  Radix = 2
  MaxHeader = 3
  MaxData = 9
  MaxChunk = 20
INVARIANTS
  TypeOK
  NothingLost
  DeliveredAsSent
  NotHeldBack
  RejectsOnlyMalformed
PROPERTY AllDelivered
CHECK_DEADLOCK FALSE
