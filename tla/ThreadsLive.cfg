SPECIFICATION FairSpec
CONSTANTS
  App = {a1}
  Yielder = y
  Node = {n1}
  Topic = {t1}
  NULL = NULL
  MAX_REPUB_NUM = 1
  MAX_SUB_TOPICS = 1
  CallFrom = {"MESSAGE", "PUBLISH_SUCCESS", "SUBSCRIBE_SUCCESS", "DISCONNECT", "RECONNECT"}

PROPERTIES
  CallsReturn
  LoopGoesOn
