SPECIFICATION FairSpec
CONSTANTS
  Protocols = {p1}
  Listeners = {l1, l2}
  Streams = {s1, s2}
  Good = {s1}
  None = None
  MaxDaemons = 1

  
  
PROPERTIES
  
  CloseEndsServe
CHECK_DEADLOCK FALSE
