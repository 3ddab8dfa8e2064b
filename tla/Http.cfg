SPECIFICATION FairSpec
CONSTANTS
  Size = 9
  RangeLen = 2
  BufLen = 5
  HEAD_SIZE = 3
  CHUNK_SIZE = 3
  MAX_RETRY_COUNT = 1
  MAX_TRIES = 3
INVARIANTS
  SlicesInOrder
  InStep
PROPERTIES
  DownloadEnds
CHECK_DEADLOCK FALSE
