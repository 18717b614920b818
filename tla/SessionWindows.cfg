SPECIFICATION Spec
CONSTANTS
  Tables <- MCTables
  CodeChars <- MCCodeChars
  Digits <- MCDigits
  DigitValue <- MCDigitValue
  Lower <- MCLower
  Punctuation <- MCPunctuation
  NonAscii <- MCNonAscii
  Runtimes <- WindowsRuntimes
  Recall <- MCRecall
  PrefixLimit = 1
  Profile = "Legacy"
  Keys <- LegacyKeys
  Contexts <- OneContext
  Words <- MCWords
  Proposals <- NoProposals
  Answers <- LegacyAnswers
  Calls = {"input", "recover", "offer", "gate", "focus", "terminated", "prefix", "assist"}
  Nested = {"input", "recover", "offer", "gate", "focus", "terminated", "prefix", "assist"}
  MaxGeneration = 4
  MaxPrefix = 8
INVARIANTS PendingIsCurrent TakenKeysAreHandled
PROPERTY TokensAreFresh
CHECK_DEADLOCK FALSE
