SPECIFICATION FairSpec
CONSTANTS
  KeepAlive = {0, 1, 6}
  PING_RESP_WAIT = 2
  MQTT_PING_RETRY_TIMES = 2
  MIN_RECONNECT_WAIT_INTERVAL = 1
  MAX_RECONNECT_WAIT_INTERVAL = 3
  InfiniteReconnect = {TRUE, FALSE}
INVARIANTS
  GivenUpOnlyIfQuiet
  SilenceIsNoticed
  RetriesBackOff
PROPERTIES
  LostLinkComesBack
