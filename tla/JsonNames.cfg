SPECIFICATION Spec
CONSTANTS
  Null = Null
  Radix = 4
  DecimalPlaces = 3
  SignificantDigits = 4
  MaxExponent = 5
  Conversations <- MCNames
  TypedTexts <- MCTypedTexts
INVARIANT NamesArrive
CHECK_DEADLOCK FALSE
