CONSTANTS
  c1 = c1
  c2 = c2
  k1 = k1
  k2 = k2
  Callers = {c1, c2}
  PublicKeys = {k1}
  Lives = {0, 3}
  MinLife = 1
  MaxLife = 2
  DefaultMinLife = 1
  None = None
  MaxTime = 1
  MaxSeq = 4
SPECIFICATION Spec
SYMMETRY Symmetry
PROPERTIES
  IdsNeverReused
  KeysOnlyDeleted
