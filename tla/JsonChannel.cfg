SPECIFICATION Spec
CONSTANTS
  Null = Null
  Radix = 4
  DecimalPlaces = 3
  SignificantDigits = 4
  MaxExponent = 5
  Conversations <- MCConversations
  TypedTexts <- MCTypedTexts
INVARIANTS
  ValuesArrive
  AllReadable
  
CHECK_DEADLOCK FALSE
