CONSTANTS
  Nodes = {n1}
  Listeners = {}
  Clients = {c1, c2}
  Waiters = {w1, w2}
  BindIds = {0, 1}
  ConfigBindId = 0
  BindSeqStart = 0
  BindMod = 2
  BindSeqLimit = 1
  None = None
SPECIFICATION FairSpec
CHECK_DEADLOCK FALSE
PROPERTIES
  RpcsReturn
  WaitReturns
