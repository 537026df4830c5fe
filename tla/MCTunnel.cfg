SPECIFICATION FairSpec
CONSTANTS
  Kinds <- AllKinds
  HalfCloses = TRUE
  Eager = FALSE
  MaxMore = 2
  MaxData = 2
INVARIANTS
  ResponseWhole
  UpWhole
  AnsweredFirst
  FlushInHandler
PROPERTIES
  TunnelEnds
CHECK_DEADLOCK FALSE
