SPECIFICATION FairSpec
CONSTANTS
  Block = 2
  Tag = 1
  HeaderLen = 3
  BlockQueue = 2
  MaxLen = 12
INVARIANTS
  OutInOrder
  
  ErrChannelOutlivesWriter
PROPERTIES
  CopiesBlocks
  WriteToReturns
  LoopsEnd
CHECK_DEADLOCK FALSE
