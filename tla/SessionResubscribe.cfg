SPECIFICATION Spec
CONSTANTS
  Topic = {t1}
  WildTopic = {}
  Handler = {h1}
  NoHandler = NoHandler
  NULL = NULL
  PacketId = {p1, p2, p3}
  MAX_REPUB_NUM = 0
  MAX_SUB_TOPICS = 1
  MaxInFlight = 1
SYMMETRY Symmetry
INVARIANTS
  ReconnectResubscribes
