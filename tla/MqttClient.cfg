CONSTANTS
  c1 = c1
  c2 = c2
  NULL = NULL
  Conns = {c1}
  HostIsIP = TRUE
  KEEPALIVE = 4
  MQTT_RECONNECT_TIMEOUT = 1
  MQTT_SEND_TIMOUT = 3
  TASK_QUEUE_SIZE = 1
  QueueSize = 2
  Requests <- ClientRequests
  Segments <- ClientSegments
  Calls <- AllCalls
  MaxInflight = 2
  MaxDns = 0
  ConnectMayBeEmpty = TRUE
  ConnectMayFail = TRUE
  SendMayFail = TRUE
SPECIFICATION Spec
INVARIANTS
  TypeOK
  SessionOnLiveLink
  NoLostWakeup
  KeepAliveNotOverlapping
PROPERTIES
  NoUnaskedConnect
  QueueOrderKept
CHECK_DEADLOCK FALSE
