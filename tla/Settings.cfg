SPECIFICATION Spec
CONSTANTS
  Config = Config
  User = User
  A = A
  B = B
  X = X
  Home = Home
  Other = Other
  Bundle = Bundle
  Mains <- Main2
  Auxiliaries <- Aux1
  Editions <- MCEditions
  DefaultConfig <- MCDefault
  Shipped <- MCShipped
  DirOf <- MCDirOf
  Above <- MCAbove
  FirstDirs <- MCFirst
  ByOthers <- MCByOthers
  FirstDisks <- MCFirstDisks
  MaxWrites = 2
INVARIANT CleanIsSaved
PROPERTIES ReloadsAreSound Converges
