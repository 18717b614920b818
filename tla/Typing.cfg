SPECIFICATION EngineSpec
CONSTANTS
  Tables <- MCTables
  CodeChars <- MCCodeChars
  Digits <- MCDigits
  DigitValue <- MCDigitValue
  Lower <- MCLower
  Punctuation <- MCPunctuation
  NonAscii <- MCNonAscii
  Keyboards <- MCKeyboards
  MaxVersion = 7
  MaxSpelling = 3
INVARIANTS NothingTypedIsLost RoutingAgrees
PROPERTY CachesAgree
CHECK_DEADLOCK FALSE
