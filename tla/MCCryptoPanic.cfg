CONSTANTS
  Block = 2
  Tag = 1
  HeaderLen = 3
  BlockQueue = 1
  MaxLen = 6
SPECIFICATION Spec
CHECK_DEADLOCK FALSE
INVARIANTS
  NoSendOnClosed
