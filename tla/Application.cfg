CONSTANTS
  c1 = c1
  NULL = NULL
  Conns = {c1}
  HostIsIP = TRUE
  KEEPALIVE = 2
  MQTT_RECONNECT_TIMEOUT = 1
  MQTT_SEND_TIMOUT = 1
  TASK_QUEUE_SIZE = 1
  QueueSize = 3
  Requests <- AppRequests
  Segments <- AppSegments
  Calls <- AppCalls
  MaxInflight = 2
  MaxDns = 0
  ConnectMayBeEmpty = FALSE
  ConnectMayFail = TRUE
  SendMayFail = TRUE
  Failures <- SomeFailures
  FirstPackets <- TwoPackets
SPECIFICATION FairSystem
PROPERTIES
  OpensOnlyWithNetwork
  FirstPacketsQueued
  SessionWithNetwork
  JoinsAgain
CHECK_DEADLOCK FALSE
