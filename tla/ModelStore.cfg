SPECIFICATION Spec
CONSTANTS
  Windows = {w1}
  Size = 2
  Chunk = 1
  w1 = w1
INVARIANT WorkIsExclusive
PROPERTIES StoreIsSound DownloadsFinish
CHECK_DEADLOCK FALSE
