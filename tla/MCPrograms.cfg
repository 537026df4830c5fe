SPECIFICATION ProgramsFairSpec
CONSTANTS
  MaxSignals = 4
  Threads = {t1, t2}
INVARIANTS
  
  NothingLeft
  
PROPERTIES
  InterruptEnds
  
CHECK_DEADLOCK FALSE
