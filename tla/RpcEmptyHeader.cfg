SPECIFICATION CallerSpec
CONSTANTS
  Null = Null
  Conversations <- EmptyHeaders
  Builds <- MCBuilds
  Streams <- EmptyHeaderStreams
  encodeBody <- encodeValues
  decode <- decodeMessage
  Radix = 4
  MaxHeader = 100
  MaxData = 120
  MaxChunk = 3
  MantissaBits = 6
  ShiftBits = 8
  MaxParameters = 3
  Levels <- MCLevels
  RoundDigits <- MCRoundDigits
  Integers <- MCIntegers
INVARIANT NoHeader
CHECK_DEADLOCK FALSE
