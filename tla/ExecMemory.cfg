SPECIFICATION FairSpec
CONSTANTS
  s0 = s0
  s1 = s1
  s2 = s2
  x1 = x1
  State = {s0, s1, s2}
  InitialState = s0
  Seeds = {x1}
  OnlyReplaySeeds = FALSE
  OnlySeed = TRUE
  DumpStatesOnHalt = TRUE
  StatePrune = TRUE
  FindDynamicInvalid = TRUE
  MaxMemoryInhibit = TRUE
  InstructionTimeLimit = TRUE
  MemoryLimit = TRUE
  MaxForks = 2
  MaxDepth = 2
  MaxConditions = 3
  ForkCap = 2
INVARIANTS
  CrashOnlyFromMemoryCheck
PROPERTIES
  HaltEndsRun
CHECK_DEADLOCK FALSE
