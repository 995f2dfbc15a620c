CONSTANTS
  Size = 3
  ConstantValues <- MCConstantArrays
  Int8 = 2
  Int32 = 2
  ArraySize = 3
  ConstantArrays <- MCConstantArrays
  ByteWidth = 2
  IndexWidth = 2
  Arrays <- MCArrays
  ConstArrayOpt = FALSE
  Worlds <- MCWorlds
  ConstantExpr <- MCConstantExpr
  IsConstant <- MCIsConstant
  BinaryExpr <- MCBinaryExpr
  CastExpr <- MCCastExpr
  ExtractExpr <- MCExtractExpr
  ConcatExpr <- MCConcatExpr
  ReadExpr <- MCReadExpr
  ValueOf <- MCValueOf
  SymbolicArray = 0
  TmpArray = 0
  NoArray = 65
  UseConstantArrays = TRUE
  LittleEndian = FALSE
  Entry <- MCEntry
  Offsets <- MCOffsets
  Values <- MCValues
  Widths <- MCWidths
  ExternalBytes = {3}
  MaxObjects = 2
  MaxSteps = 3
SPECIFICATION Spec
INVARIANTS ReadsSeeWrites
CHECK_DEADLOCK FALSE
