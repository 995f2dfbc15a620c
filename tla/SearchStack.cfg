SPECIFICATION FairSpec
CONSTANTS
  s1 = s1
  s2 = s2
  s3 = s3
  s4 = s4
  State = {s1, s2, s3, s4}
  NoState = NoState
  Failed = Failed
  Stacks <- SoundStacks
  bfsSwitchCounts = 2
  dfsSwitchCounts = 1
INVARIANTS
  HoldsTheStates
  NeverStuck
  NoAssertFails
PROPERTIES
  BothEndsServed
  IsSearcher
CHECK_DEADLOCK FALSE
