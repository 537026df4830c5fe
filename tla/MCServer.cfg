CONSTANTS
  Nodes = {n1, n2}
  Listeners = {l1}
  Clients = {c1, c2}
  Waiters = {w1, w2}
  BindIds = {0, 1}
  ConfigBindId = 0
  BindSeqStart = 0
  BindMod = 2
  BindSeqLimit = 0
  None = None
SPECIFICATION Spec
SYMMETRY Symmetry
CHECK_DEADLOCK FALSE
INVARIANTS
  OneServiceAtATime
