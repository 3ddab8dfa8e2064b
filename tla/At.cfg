SPECIFICATION Spec
CONSTANTS
  mqtt = mqtt
  http = http
  Net = {mqtt, http}
  HttpNet = {http}
  MAX_LINK = 3
  Buffers = 2
  MaxBytes = 2
  MaxConns = 2
  MaxQueue = 1
INVARIANTS
  InStep
  ReadInOrder
CHECK_DEADLOCK FALSE
