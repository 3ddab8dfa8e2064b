SPECIFICATION FairSpec
CONSTANTS
  Topic = {t1}
  WildTopic = {t1}
  Handler = {}
  NoHandler = NoHandler
  NULL = NULL
  PacketId = {p1, p2}
  MAX_REPUB_NUM = 1
  MAX_SUB_TOPICS = 1
  MaxInFlight = 1
PROPERTIES
  RequestsAnswered
  NodesFreed
