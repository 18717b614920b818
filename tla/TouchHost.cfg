SPECIFICATION Spec
CONSTANTS
  Tables <- MCTables
  CodeChars <- MCCodeChars
  Digits <- MCDigits
  DigitValue <- MCDigitValue
  Lower <- MCLower
  Punctuation <- MCPunctuation
  NonAscii <- MCNonAscii
  Runtimes <- MCRuntimes
  Recall <- MCRecall
  PrefixLimit = 1
  Profile = "Touch"
  Requests <- MCRequests
  Editors <- MCEditors
  Words <- MCWords
  Capacity = 1
  MaxCalls = 3
  MaxStarts = 2
  MaxReports = 1
INVARIANTS IdleAgrees EditorsAreKeptApart  NewestIsUsed
CHECK_DEADLOCK FALSE
