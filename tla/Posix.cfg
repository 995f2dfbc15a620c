SPECIFICATION Spec
CONSTANTS
  MAX_FDS = 4
  ArgLists <- MCArgLists
  ArgcMax = 3
  SymNames <- MCSymNames
  OtherPaths = {"(empty)", "/", "x"}
  Bytes = {0}
  StdoutSize = 1
  InitialStats <- MCInitialStats
  FdArgs = {0, 1, 3, 4}
  PathArgs = {"A", "B"}
  OpenFlags <- MCOpenFlags
  Modes <- MCModes
  Counts = {1, 8}
  Buffers <- MCBuffers
  Offsets <- MCOffsets
  SelectArgs <- MCSelectArgs
  OsFds = {5}
  DirentSize = 2
  DirBase = 8
  MaxOff = 9
  MaxCalls = 4
INVARIANTS AnswersTellAll
PROPERTIES FailuresOnlyFail
CHECK_DEADLOCK FALSE
