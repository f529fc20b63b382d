CONSTANTS
  Messages <- ThreeMessages
  QueueSize = 2
  MaxMessageId = 65535
  CleanSessions = {TRUE, FALSE}
  MaxInflight = 2
  MaxAnswers = 2
SPECIFICATION FairSpec
INVARIANTS
  OneSendAtATime
  NoneSwallowedUncarried
  OrderKept
PROPERTIES
  PublishedCbRight
  Qos2Completes
