SPECIFICATION TreeSpec
CONSTANTS
  s0 = s0
  s1 = s1
  s2 = s2
  s3 = s3
  x1 = x1
  x2 = x2
  State = {s0, s1, s2, s3}
  InitialState = s0
  Seeds = {x1, x2}
  OnlyReplaySeeds = TRUE
  OnlySeed = FALSE
  DumpStatesOnHalt = TRUE
  StatePrune = TRUE
  FindDynamicInvalid = TRUE
  MaxMemoryInhibit = TRUE
  InstructionTimeLimit = TRUE
  MemoryLimit = FALSE
  MaxForks = 2
  MaxDepth = 3
  MaxConditions = 3
  ForkCap = 3
  NoData = NoData
  RandomizeFork = TRUE
SYMMETRY Symmetry
INVARIANTS
  SearcherAgrees
  PathAccounting
  AllPathsAccounted
  SeedOwnership
  NeverCrashes
  TreeMatchesStates
  RandomPathAgrees
PROPERTIES
  NoResurrection
CHECK_DEADLOCK FALSE
