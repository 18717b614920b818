SPECIFICATION Spec
CONSTANTS
  Configs <- AllConfigs
  Usable <- AllUsable
  Keeping <- MCKeeping
  Off = "off"
  Pids <- TwoHosts
  First = "demand"
  Lossy = FALSE
  MaxAsked = 1
  MaxEvents = 1
INVARIANTS ServiceIsSafe AnswersAreAwaited
