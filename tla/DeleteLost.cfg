CONSTANTS
  c1 = c1
  c2 = c2
  NULL = NULL
  Conns = {c1}
  HostIsIP = TRUE
  KEEPALIVE = 2
  MQTT_RECONNECT_TIMEOUT = 1
  MQTT_SEND_TIMOUT = 1
  TASK_QUEUE_SIZE = 1
  QueueSize = 3
  Requests = {}
  Segments <- LiveSegments
  Calls <- AllCalls
  MaxInflight = 2
  MaxDns = 0
  ConnectMayBeEmpty = FALSE
  ConnectMayFail = FALSE
  SendMayFail = FALSE
SPECIFICATION FairSpec
PROPERTIES
  DeleteCompletes
CHECK_DEADLOCK FALSE
