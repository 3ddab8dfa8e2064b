SPECIFICATION Spec
CONSTANTS
  App = {a1}
  Yielder = y
  Node = {n1, n2}
  Topic = {t1}
  NULL = NULL
  MAX_REPUB_NUM = 2
  MAX_SUB_TOPICS = 1
  CallFrom = {"MESSAGE", "PUBLISH_SUCCESS", "PUBLISH_TIMEOUT", "SUBSCRIBE_SUCCESS",
              "SUBSCRIBE_NACK", "SUBSCRIBE_TIMEOUT", "UNSUBSCRIBE_SUCCESS",
              "DISCONNECT", "RECONNECT"}
CHECK_DEADLOCK FALSE
SYMMETRY Symmetry
INVARIANTS
  TypeOK
  LockOrder
  PacketIntact
  NodesLive
