SPECIFICATION FairSpec
CONSTANTS
  Tables <- MCTables
  CodeChars <- MCCodeChars
  Digits <- MCDigits
  DigitValue <- MCDigitValue
  Lower <- MCLower
  Punctuation <- MCPunctuation
  NonAscii <- MCNonAscii
  Runtimes <- ModelRuntimes
  Recall <- MCRecall
  PrefixLimit = 1
  Profile = "Touch"
  Keys <- TouchKeys
  Contexts <- TouchContexts
  Words <- MCWords
  Proposals <- ModelProposals
  Answers <- TouchAnswers
  Calls = {"input", "recover", "offer", "focus", "context", "terminated", "close", "prefix"}
  Nested = {"offer", "focus", "context", "terminated", "close"}
  MaxGeneration = 4
  MaxPrefix = 6
INVARIANTS WaitIsCurrent PrefixIsPrivate OfferedIsShown CleanupIsOwned NewestIsKept
PROPERTIES CleanupKeepsIntent DeferredIsAdopted
CHECK_DEADLOCK FALSE
