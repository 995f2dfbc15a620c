SPECIFICATION FairSpec
CONSTANTS
  s1 = s1
  s2 = s2
  s3 = s3
  s4 = s4
  State = {s1, s2, s3, s4}
  NoState = NoState
  End = 4
  MergePoints = {1, 3}
  Mergers = {"merge", "bump"}
  MemoryLimit = TRUE
INVARIANTS
  EachInOnePlace
  MergeAssertsOnlyFromMemoryCheck
PROPERTIES
  MergedIntoLive
  SelectionReturns
  NobodyWaitsForEver
CHECK_DEADLOCK FALSE
