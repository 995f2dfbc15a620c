CONSTANTS
  Arrays = {"A", "K"}
  ArraySize = 2
  ConstantArrays <- MCConstantArrays
  ByteWidth = 2
  IndexWidth = 2
  ConstArrayOpt = TRUE
  WordWidth = 4
  OptimizeDivides = TRUE
  Makers = {"expr", "default", "folding", "simplifying"}
  Operands <- MCOperands
  UpdateLists <- MCUpdateLists
  Extents <- MCExtents
  ExtWidths <- MCExtWidths
  Paths <- MCPaths
  InternalStates <- MCInternalStates
  SavedPaths <- MCSavedPaths
  Stores <- MCStores
  MaxSteps = 2
SPECIFICATION Spec
INVARIANTS
  ConstructionKeepsMeaning
  TranslationKeepsMeaning
  SmtTextMeansTheQuery
PROPERTIES
  EvaluatorAgrees
  FastCexIsRight
  ConstraintsKeepModels
  PrintedReadsBack
CHECK_DEADLOCK FALSE
