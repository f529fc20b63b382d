CONSTANTS
  buffer_length = 270
  PROTOCOL_NAMEv311 = TRUE
  NULL = NULL
  Topics <- MCTopics
  Payloads <- MCPayloads
  Infos <- MCInfos
  AckIds = {0, 1, 513, 65535}
  Ids <- MCIds
SPECIFICATION Spec
INVARIANTS
  FitsBuffer
  ReadsBack
  ConnectParses
  NumberedPackets
