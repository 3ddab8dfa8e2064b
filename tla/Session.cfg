SPECIFICATION Spec
CONSTANTS
  Topic = {t1}
  WildTopic = {}
  Handler = {h1}
  NoHandler = NoHandler
  NULL = NULL
  PacketId = {p1, p2, p3, p4}
  MAX_REPUB_NUM = 1
  MAX_SUB_TOPICS = 2
  MaxInFlight = 2
SYMMETRY Symmetry
INVARIANTS
  TypeOK
  PublishNotForgotten
  SubscribeNotForgotten
  HandlesDistinct
  ReportedIsDelivered
  RestoredIsComplete
  ReportedIsRegistered
