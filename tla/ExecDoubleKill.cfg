SPECIFICATION Spec
CONSTANTS
  s0 = s0
  s1 = s1
  s2 = s2
  x1 = x1
  State = {s0, s1, s2}
  InitialState = s0
  Seeds = {x1}
  OnlyReplaySeeds = FALSE
  OnlySeed = FALSE
  DumpStatesOnHalt = TRUE
  StatePrune = FALSE
  FindDynamicInvalid = FALSE
  MaxMemoryInhibit = TRUE
  InstructionTimeLimit = FALSE
  MemoryLimit = TRUE
  MaxForks = 3
  MaxDepth = 0
  MaxConditions = 3
  ForkCap = 2
INVARIANTS
  NeverCrashes
CHECK_DEADLOCK FALSE
