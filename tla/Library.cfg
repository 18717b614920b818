SPECIFICATION Spec
CONSTANTS
  CharOrder <- MCCharOrder
  Lower <- MCLower
  Alphanumeric <- MCAlphanumeric
  Han <- MCHan
  Main = "main"
  Auxiliary = "auxiliary"
  UserFile = "user"
  FirstDisks <- MCFirstDisks
  ByOthers <- MCByOthers
  FormEntries <- MCFormEntries
  Headers <- MCHeaders
  Imports <- MCImports
  Apart = TRUE
  Keys <- MCKeys
  MaxPlace = 2
  MaxChanges = 1
  MaxSaves = 1
  MaxOthers = 1
  MaxStarts = 2
  MaxOpens = 2
 
PROPERTIES DraftIsRestored CandidatesMatch HintsFindTheirWords
CHECK_DEADLOCK FALSE
