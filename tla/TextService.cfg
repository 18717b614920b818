SPECIFICATION Spec
CONSTANTS
  Tables <- MCTables
  CodeChars <- MCCodeChars
  Digits <- MCDigits
  DigitValue <- MCDigitValue
  Lower <- MCLower
  Punctuation <- MCPunctuation
  NonAscii <- MCNonAscii
  Runtimes <- ModelRuntimes
  Recall <- MCRecall
  PrefixLimit = 2
  Profile = "Legacy"
  Keys <- MCKeys
  Words <- MCWords
  Proposals <- ModelProposals
  Editors = {noteA, noteB}
  noteA = noteA
  noteB = noteB
  MaxCalls = 5
  MaxDepth = 2
INVARIANTS TimersAreSet ListIsTrue ShownFitsText
PROPERTY UsesTheSessionAsAllowed
SYMMETRY EditorsAlike
CHECK_DEADLOCK FALSE
