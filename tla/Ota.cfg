SPECIFICATION FairSpec
CONSTANTS
  u1 = u1
  u2 = u2
  u3 = u3
  Update = {u1, u2, u3}
  Size <- FileSize
  BadUrl = {u3}
  BAD = BAD
  NULL = NULL
  MAX_RETRY = 3
  MaxMessages = 4
CHECK_DEADLOCK FALSE
INVARIANTS
  TypeOK
  DownloadConsistent
  SuccessIsWhole
  ChannelLive
PROPERTIES
  DownloadEnds
  QueueDrains
