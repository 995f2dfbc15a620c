SPECIFICATION Spec
CONSTANTS
  a1 = a1
  a2 = a2
  a3 = a3
  o1 = o1
  o2 = o2
  c1 = c1
  c2 = c2
  c3 = c3
  c4 = c4
  v1 = v1
  v2 = v2
  Space = {a1, a2, a3}
  Object = {o1, o2}
  Cell = {c1, c2, c3, c4}
  Value = {v1, v2}
  KeyLimit = 3
SYMMETRY CowSymmetry
INVARIANTS
  OwnersAreOld
  OwnedAlone
  ReadOnlyIsShared
PROPERTIES
  IndependentMemories
CHECK_DEADLOCK FALSE
