SPECIFICATION Spec
CONSTANTS
  Processes = {a, b}
  None = None
  MaxStarts = 4
SYMMETRY Symmetry
INVARIANTS
  NodesOnWholeRepo
  OneOwner
  IdleKeepsNoStore
CHECK_DEADLOCK FALSE
