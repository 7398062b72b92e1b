CONSTANTS
  Year <- MCYear
  TwoDigits <- TwoDigitFields
  Numeral <- MCNumeral
  Float <- MCFloat
  Base64 <- MCBase64
  Cased <- MCCased
  MaxDepth = 9
  JsonLimit = 13
  NotXmlNames = {"A B"}
  Documents <- MCDocuments
SPECIFICATION Spec
INVARIANTS
  
  
  OwnOutputReadable
  SerializedReadsBack
CHECK_DEADLOCK FALSE
