CONSTANTS
  buffer_length = 140
  PROTOCOL_NAMEv311 = TRUE
  NULL = NULL
  Bursts <- AllBursts
  Cuts <- CutPoints
  QueueSize = 2
  MaxSegments = 4
SPECIFICATION Spec
INVARIANTS
  TypeOK
PROPERTIES
  ImplementsDelivery
  CutPublishDelivered
  LoopAdvances
