CONSTANTS
  a = a
  b = b
  Clients = {a, b}
  TASK_QUEUE_SIZE = 1
  QueueSize = 0
  Calls <- ConnectOnly
  TaskStartsOver = FALSE
  ConnectMayFail = FALSE
  SendMayFail = FALSE
SPECIFICATION FairSpec
PROPERTIES
  EverySession
CHECK_DEADLOCK FALSE
