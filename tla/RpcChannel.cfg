SPECIFICATION CallerSpec
CONSTANTS
  Null = Null
  Conversations <- MCConversations
  Builds <- MCBuilds
  Streams <- MCStreams
  encodeBody <- encodeValues
  decode <- decodeMessage
  Radix = 4
  MaxHeader = 100
  MaxData = 120
  MaxChunk = 3
  MantissaBits = 6
  ShiftBits = 8
  MaxParameters = 3
  Levels <- MCLevels
  RoundDigits <- MCRoundDigits
  Integers <- MCIntegers
INVARIANTS
  Accepted
  RequestsArrive
  ResponsesArrive
  ErrorsArrive
  AllReceived
PROPERTY EncodingUnseen
CHECK_DEADLOCK FALSE
