SPECIFICATION FairSpec
CONSTANTS
  Nodes = {n1}
  Listeners = {l1, l2}
  Clients = {c1}
  Waiters = {}
  BindIds = {0, 1, 2}
  ConfigBindId = 0
  BindSeqStart = 0
  BindMod = 3
  BindSeqLimit = 1
  None = None
INVARIANTS
  
  CloseReachesBoundListeners
PROPERTIES
  NodeContract
  StopCompletes

CHECK_DEADLOCK FALSE
