CONSTANTS
  c1 = c1
  c2 = c2
  NULL = NULL
  Conns = {c1}
  HostIsIP = FALSE
  KEEPALIVE = 2
  MQTT_RECONNECT_TIMEOUT = 1
  MQTT_SEND_TIMOUT = 1
  TASK_QUEUE_SIZE = 1
  QueueSize = 2
  Requests <- OneRequest
  Segments <- LiveSegments
  Calls <- NoDelete
  MaxInflight = 2
  MaxDns = 2
  ConnectMayBeEmpty = TRUE
  ConnectMayFail = TRUE
  SendMayFail = TRUE
SPECIFICATION FairSpec
PROPERTIES
  KeepsTrying
  QueueNotStuck
  SessionReached
CHECK_DEADLOCK FALSE
