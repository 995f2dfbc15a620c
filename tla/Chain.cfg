SPECIFICATION FairSpec
CONSTANTS
  a1 = a1
  a2 = a2
  b1 = b1
  A = A
  B = B
  Cell <- MCCell
  Array = {A, B}
  ArrayOf <- MCArrayOf
  Byte = {0, 1}
  Zero = 0
  Expr <- MCExpr
  Path <- MCPath
  Options <- MCOptions
  CacheLimit = 3
INVARIANTS
  SliceIsClosed
  FactorsAreIndependent
  CachesAreSound
PROPERTIES
  OracleImplemented
  EveryQueryAnswered
CHECK_DEADLOCK FALSE
