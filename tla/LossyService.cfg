SPECIFICATION FairSpec
CONSTANTS
  Configs <- KeepConfigs
  Usable <- KeepUsable
  Keeping <- MCKeeping
  Off = "off"
  Pids <- OneHost
  First = "keep"
  Lossy = TRUE
  MaxAsked = 2
  MaxEvents = 1
PROPERTIES StoppedIsUnloaded WaitEnds
