SPECIFICATION Spec
CONSTANTS
  NULL = NULL
  DM_MSG_REPORT_BUF_LEN = 24
  Rem = {0, 1, 2, 3, 4, 5, 6, 7, 8, 9, 126, 127, 128, 129, 130, 131}
  BufSize = {2, 3, 4, 5, 6, 7, 8, 64, 127, 128, 129, 130, 131, 132}
  Level <- Levels
  MaxLevels = 3
  MaxValue = 20
  Reports <- ReportsOfTwo
INVARIANTS
  FramesKept
  TopicsMatch
  PublishedIsWhole
  ValueIsFound
