CONSTANTS
  a = a
  b = b
  Clients = {a, b}
  TASK_QUEUE_SIZE = 1
  QueueSize = 1
  Calls <- AllCalls
  TaskStartsOver = TRUE
  ConnectMayFail = TRUE
  SendMayFail = TRUE
SPECIFICATION FairSpec
INVARIANTS
  WokenUnlessLost
PROPERTIES
  SessionUnlessLost
CHECK_DEADLOCK FALSE
