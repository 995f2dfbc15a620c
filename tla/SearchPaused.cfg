SPECIFICATION Spec
CONSTANTS
  s1 = s1
  s2 = s2
  s3 = s3
  s4 = s4
  State = {s1, s2, s3, s4}
  NoState = NoState
  Failed = Failed
  Stacks <- DefaultDeepening
  bfsSwitchCounts = 2
  dfsSwitchCounts = 1
INVARIANTS
  NoAssertFails
CHECK_DEADLOCK FALSE
