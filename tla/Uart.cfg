CONSTANTS
  TxSize = 3
  TxLimit = 2
  RxSize = 3
  RxTrigger = 2
  Chars <- LineChars
  MaxText = 3
SPECIFICATION FairSpec
INVARIANTS
  OutputRight
  HangsAtTriggerOnly
PROPERTIES
  TextComesOut
CHECK_DEADLOCK FALSE
